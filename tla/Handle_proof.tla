---------------------------- MODULE Handle_proof ----------------------------
(***************************************************************************)
(* Proofs about Handle, for any number of goroutines and handles.  Two     *)
(* things are kept apart: what holds whatever the client does (AnyIInv:    *)
(* the types, and that no box is lost), and what needs a disciplined one   *)
(* (IInv: every box in use is live).                                       *)
(***************************************************************************)
EXTENDS Handle, TLAPS

-----------------------------------------------------------------------------
(* Whatever the client does.                                               *)

\* An actor has a receiver exactly while it is in a method or Close.
Receivers ==
  \A a \in Actor :
    /\ on[a] = NoHandle <=> pc[a] = "idle"
    /\ pc[a] = "load" => reads[a] > 0

\* What is known of a box in every mode: a Close runs on an opened box, only a
\* Close that has passed the free has lost the pointer, and a live box that has
\* no finalizer has one running.
BoxesKept ==
  \A h \in Handle :
    /\ ptr[h] = "box" => box[h] # "none"
    /\ box[h] = "live" =>
         /\ ptr[h] = "box"
         /\ finalizer[h] \/ \E a \in Actor : Closing(a, h)
    /\ \A a \in Actor :
         Closing(a, h) => /\ box[h] # "none"
                          /\ pc[a] \in {"nil", "unset"} => box[h] # "live"
                          /\ pc[a] = "unset" => ptr[h] = "nil"

AnyIInv == TypeOK /\ Receivers /\ BoxesKept

\* No box exists in the beginning, so that none leaks.
LEMMA AnyIInvInit == Init => AnyIInv
BY ActorAssumption, HandleAssumption
   DEF Init, AnyIInv, TypeOK, Receivers, BoxesKept, Closing, Actor

\* Every action of the client, a method, Close or the runtime keeps the types.
LEMMA TypeStep ==
  ASSUME TypeOK, Receivers, [Next]_vars
  PROVE  TypeOK' /\ Receivers'
<1> USE HandleAssumption, MaxReadsAssumption DEF TypeOK, Receivers, Actor
<1>1. ASSUME NEW g \in Goroutine, NEW h \in Handle, Open(g, h)
      PROVE  TypeOK' /\ Receivers'
  BY <1>1 DEF Open
<1>2. ASSUME NEW g \in Goroutine, NEW h \in Handle, Drop(g, h)
      PROVE  TypeOK' /\ Receivers'
  BY <1>2 DEF Drop
<1>3. ASSUME NEW g \in Goroutine, NEW h \in Handle, Invoke(g, h)
      PROVE  TypeOK' /\ Receivers'
  <2>1. PICK n \in 1 .. MaxReads : reads' = [reads EXCEPT ![g] = n]
    BY <1>3 DEF Invoke
  <2> QED
    BY <1>3, <2>1 DEF Invoke
<1>4. ASSUME NEW g \in Goroutine, NEW h \in Handle, StartClose(g, h)
      PROVE  TypeOK' /\ Receivers'
  BY <1>4 DEF StartClose
<1>5. ASSUME NEW g \in Goroutine, NEW h \in Handle,
             NEW other \in Goroutine \ {g}, Share(g, other, h)
      PROVE  TypeOK' /\ Receivers'
  BY <1>5 DEF Share
<1>6. ASSUME NEW a \in Actor, CallLibrary(a)
      PROVE  TypeOK' /\ Receivers'
  BY <1>6 DEF CallLibrary, Return
<1>7. ASSUME NEW a \in Actor, ReturnFromLibrary(a)
      PROVE  TypeOK' /\ Receivers'
  BY <1>7 DEF ReturnFromLibrary, Return
<1>8. ASSUME NEW a \in Actor, PassPtr(a) \/ FreeBox(a)
      PROVE  TypeOK' /\ Receivers'
  BY <1>8 DEF PassPtr, FreeBox
<1>9. ASSUME NEW a \in Actor, ClearPtr(a)
      PROVE  TypeOK' /\ Receivers'
  BY <1>9 DEF ClearPtr
<1>10. ASSUME NEW a \in Actor, UnsetFinalizer(a)
       PROVE  TypeOK' /\ Receivers'
  BY <1>10 DEF UnsetFinalizer, Return
<1>11. ASSUME NEW h \in Handle, Finalize(h)
       PROVE  TypeOK' /\ Receivers'
  BY <1>11 DEF Finalize
<1>12. CASE UNCHANGED vars
  BY <1>12 DEF vars
<1> QED
  BY <1>1, <1>2, <1>3, <1>4, <1>5, <1>6, <1>7, <1>8, <1>9, <1>10, <1>11, <1>12
     DEF Next, Client, Proceed

\* Every action keeps what ties a live box to its pointer and its finalizer.
LEMMA BoxesStep ==
  ASSUME AnyIInv, [Next]_vars
  PROVE  BoxesKept'
<1> USE HandleAssumption, ActorAssumption
    DEF AnyIInv, TypeOK, Receivers, BoxesKept, Closing, Actor
<1>1. ASSUME NEW g \in Goroutine, NEW h \in Handle, Open(g, h)
      PROVE  BoxesKept'
  BY <1>1 DEF Open
<1>2. ASSUME NEW g \in Goroutine, NEW h \in Handle, Drop(g, h)
      PROVE  BoxesKept'
  BY <1>2 DEF Drop
<1>3. ASSUME NEW g \in Goroutine, NEW h \in Handle, Invoke(g, h)
      PROVE  BoxesKept'
  BY <1>3 DEF Invoke
<1>4. ASSUME NEW g \in Goroutine, NEW h \in Handle, StartClose(g, h)
      PROVE  BoxesKept'
  BY <1>4 DEF StartClose
<1>5. ASSUME NEW g \in Goroutine, NEW h \in Handle,
             NEW other \in Goroutine \ {g}, Share(g, other, h)
      PROVE  BoxesKept'
  BY <1>5 DEF Share
<1>6. ASSUME NEW a \in Actor, CallLibrary(a) \/ ReturnFromLibrary(a)
      PROVE  BoxesKept'
  BY <1>6 DEF CallLibrary, ReturnFromLibrary, Return
<1>7. ASSUME NEW a \in Actor, PassPtr(a)
      PROVE  BoxesKept'
  BY <1>7 DEF PassPtr
<1>8. ASSUME NEW a \in Actor, FreeBox(a)
      PROVE  BoxesKept'
  BY <1>8 DEF FreeBox
<1>9. ASSUME NEW a \in Actor, ClearPtr(a)
      PROVE  BoxesKept'
  BY <1>9 DEF ClearPtr
<1>10. ASSUME NEW a \in Actor, UnsetFinalizer(a)
       PROVE  BoxesKept'
  BY <1>10 DEF UnsetFinalizer, Return
<1>11. ASSUME NEW h \in Handle, Finalize(h)
       PROVE  BoxesKept'
  BY <1>11 DEF Finalize
<1>12. CASE UNCHANGED vars
  BY <1>12 DEF vars
<1> QED
  BY <1>1, <1>2, <1>3, <1>4, <1>5, <1>6, <1>7, <1>8, <1>9, <1>10, <1>11, <1>12
     DEF Next, Client, Proceed

\* The invariant that needs nothing of the client holds in every reachable
\* state, also when Close races with methods, finalizers and other Closes.
THEOREM AnyInvariance == Spec => []AnyIInv
<1>1. AnyIInv /\ [Next]_vars => AnyIInv'
  BY TypeStep, BoxesStep DEF AnyIInv
<1> QED
  BY <1>1, AnyIInvInit, PTL DEF Spec

\* Every variable keeps its type, whatever the client does.
THEOREM TypeCorrect == Spec => []TypeOK
BY AnyInvariance, PTL DEF AnyIInv

\* Whatever the client does, a live box can still be freed: its object is
\* reachable or its finalizer is set.
THEOREM NothingLeaks == Spec => []NoLeak
<1>1. AnyIInv => NoLeak
  BY DEF AnyIInv, BoxesKept, NoLeak, Reachable, Needs
<1> QED
  BY <1>1, AnyInvariance, PTL

-----------------------------------------------------------------------------
(* Steps, whatever the client does.  Of EventuallyFreed, which TLC checks, *)
(* this is what holds step by step: what is unreachable stays so until it  *)
(* is finalized, every Close ends, and it has freed the box when it does.  *)

\* An object that the collector may take is not used again by anything but its
\* finalizer: no goroutine can get hold of it once none can name it.
THEOREM UnreachableStays ==
  Spec => [][\A h \in Handle :
               box[h] = "live" /\ ~Reachable(h)
                 => Finalize(h) \/ (box'[h] = "live" /\ ~Reachable(h)')]_vars
<1> DEFINE Goal(h) == box'[h] = "live" /\ ~Reachable(h)'
<1>1. ASSUME AnyIInv, Next, NEW h \in Handle, box[h] = "live", ~Reachable(h), ~Finalize(h)
      PROVE  Goal(h)
  <2> USE <1>1, ActorAssumption, HandleAssumption
      DEF AnyIInv, TypeOK, Receivers, Reachable, Needs, Closing, InMethod, Actor
  <2>1. ASSUME NEW g \in Goroutine, NEW k \in Handle, Open(g, k)
        PROVE  Goal(h)
    BY <2>1 DEF Open
  <2>2. ASSUME NEW g \in Goroutine, NEW k \in Handle, Drop(g, k)
        PROVE  Goal(h)
    BY <2>2 DEF Drop
  <2>3. ASSUME NEW g \in Goroutine, NEW k \in Handle, Invoke(g, k)
        PROVE  Goal(h)
    <3>1. k # h
      BY <2>3 DEF Invoke
    <3>2. PICK n \in 1 .. MaxReads : reads' = [reads EXCEPT ![g] = n]
      BY <2>3 DEF Invoke
    <3> QED
      BY <2>3, <3>1, <3>2, MaxReadsAssumption DEF Invoke
  <2>4. ASSUME NEW g \in Goroutine, NEW k \in Handle, StartClose(g, k)
        PROVE  Goal(h)
    BY <2>4 DEF StartClose
  <2>5. ASSUME NEW g \in Goroutine, NEW k \in Handle,
               NEW other \in Goroutine \ {g}, Share(g, other, k)
        PROVE  Goal(h)
    BY <2>5 DEF Share
  <2>6. ASSUME NEW a \in Actor, CallLibrary(a)
        PROVE  Goal(h)
    BY <2>6 DEF CallLibrary, Return
  <2>7. ASSUME NEW a \in Actor, ReturnFromLibrary(a)
        PROVE  Goal(h)
    BY <2>7 DEF ReturnFromLibrary, Return
  <2>8. ASSUME NEW a \in Actor, PassPtr(a) \/ FreeBox(a) \/ ClearPtr(a) \/ UnsetFinalizer(a)
        PROVE  Goal(h)
    BY <2>8 DEF PassPtr, FreeBox, ClearPtr, UnsetFinalizer, Return
  <2>9. ASSUME NEW k \in Handle \ {h}, Finalize(k)
        PROVE  Goal(h)
    BY <2>9 DEF Finalize
  <2> QED
    BY <2>1, <2>2, <2>3, <2>4, <2>5, <2>6, <2>7, <2>8, <2>9 DEF Next, Client, Proceed
<1>2. AnyIInv /\ [Next]_vars =>
        [\A h \in Handle :
           box[h] = "live" /\ ~Reachable(h)
             => Finalize(h) \/ (box'[h] = "live" /\ ~Reachable(h)')]_vars
  BY <1>1
<1> QED
  BY <1>2, AnyInvariance, PTL DEF Spec

\* When a Close returns, the client's or the finalizer's, and also one that came
\* second in a race, the box is freed, its pointer is nil and no finalizer is
\* left that could run Close again.
THEOREM CloseFrees ==
  Spec => [][\A a \in Actor : UnsetFinalizer(a) =>
               /\ box[on[a]] \in {"freed", "freedTwice"}
               /\ ptr'[on[a]] = "nil" /\ ~finalizer'[on[a]]]_vars
<1>1. AnyIInv => [\A a \in Actor : UnsetFinalizer(a) =>
                    /\ box[on[a]] \in {"freed", "freedTwice"}
                    /\ ptr'[on[a]] = "nil" /\ ~finalizer'[on[a]]]_vars
  <2> SUFFICES ASSUME AnyIInv, NEW a \in Actor, UnsetFinalizer(a)
               PROVE  /\ box[on[a]] \in {"freed", "freedTwice"}
                      /\ ptr'[on[a]] = "nil" /\ ~finalizer'[on[a]]
    OBVIOUS
  <2>1. on[a] \in Handle /\ Closing(a, on[a]) /\ pc[a] = "unset"
    BY DEF UnsetFinalizer, AnyIInv, TypeOK, Receivers, Closing
  <2>2. box[on[a]] \in {"freed", "freedTwice"} /\ ptr[on[a]] = "nil"
    BY <2>1 DEF AnyIInv, TypeOK, BoxesKept
  <2> QED
    BY <2>1, <2>2 DEF UnsetFinalizer, AnyIInv, TypeOK
<1> QED
  BY <1>1, AnyInvariance, PTL

\* How many more steps an actor needs at most to be done with what it is in.
Left(a) ==
  CASE pc[a] = "load" -> 2 * reads[a]
    [] pc[a] = "inC" -> 2 * reads[a] + 1
    [] pc[a] = "free" -> 4
    [] pc[a] = "freeing" -> 3
    [] pc[a] = "nil" -> 2
    [] pc[a] = "unset" -> 1
    [] OTHER -> 0

\* A method or Close ends after a bounded number of its own steps, however the
\* pointer it reads changes meanwhile, and only its own steps count.
THEOREM MethodsEnd ==
  Spec => [][\A a \in Actor :
               /\ Proceed(a) => Left(a)' < Left(a)
               /\ pc[a] # "idle" /\ ~Proceed(a) => Left(a)' = Left(a)]_vars
<1> DEFINE Goal(a) ==
      /\ Proceed(a) => Left(a)' < Left(a)
      /\ pc[a] # "idle" /\ ~Proceed(a) => Left(a)' = Left(a)
<1>1. ASSUME AnyIInv, NEW a \in Actor, Proceed(a)
      PROVE  Left(a)' < Left(a)
  <2> USE <1>1 DEF AnyIInv, TypeOK, Receivers
  <2>1. CASE CallLibrary(a)
    BY <2>1 DEF CallLibrary, Return, Left
  <2>2. CASE ReturnFromLibrary(a)
    BY <2>2 DEF ReturnFromLibrary, Return, Left
  <2>3. CASE PassPtr(a) \/ FreeBox(a)
    BY <2>3 DEF PassPtr, FreeBox, Left
  <2>4. CASE ClearPtr(a)
    BY <2>4 DEF ClearPtr, Left
  <2>5. CASE UnsetFinalizer(a)
    BY <2>5 DEF UnsetFinalizer, Return, Left
  <2> QED
    BY <2>1, <2>2, <2>3, <2>4, <2>5 DEF Proceed
<1>2. ASSUME AnyIInv, Next, NEW a \in Actor, pc[a] # "idle", ~Proceed(a)
      PROVE  Left(a)' = Left(a)
  <2>1. pc'[a] = pc[a] /\ reads'[a] = reads[a]
    BY <1>2 DEF AnyIInv, TypeOK, Actor, Next, Client, Open, Drop, Invoke, StartClose, Share,
       Proceed, CallLibrary, ReturnFromLibrary, PassPtr, FreeBox, ClearPtr, UnsetFinalizer,
       Return, Finalize
  <2> QED
    BY <2>1 DEF Left
<1>3. AnyIInv /\ [Next]_vars => [\A a \in Actor : Goal(a)]_vars
  BY <1>1, <1>2
<1> QED
  BY <1>3, AnyInvariance, PTL DEF Spec

-----------------------------------------------------------------------------
(* With a disciplined client.                                              *)

\* A method runs on an open handle that its caller holds and nobody closes.
MethodsProtected ==
  \A g \in Actor, h \in Handle :
    InMethod(g, h) =>
      /\ g \in Goroutine /\ h \in holds[g]
      /\ ptr[h] = "box"
      /\ \A a \in Actor : ~Closing(a, h)

\* One Close at a time works on a handle, and this is how far it has come.
ClosesExclusive ==
  \A h \in Handle :
    /\ \A a, b \in Actor : Closing(a, h) /\ Closing(b, h) => a = b
    /\ \A a \in Actor : on[a] = h =>
         /\ pc[a] \in {"free", "freeing"} => box[h] = "live"
         /\ pc[a] = "nil" => ptr[h] = "box"

\* The pointer outlives its box in the middle of a Close only.
PtrMeansLive ==
  \A h \in Handle :
    /\ box[h] # "freedTwice"
    /\ ptr[h] = "box" =>
         box[h] = "live" \/ \E a \in Actor : on[a] = h /\ pc[a] = "nil"

\* The finalizer works on what nobody holds and nobody uses; what a goroutine
\* holds has been opened; a tidy handle is open only while somebody holds it or
\* is closing it.
NetIsLast ==
  /\ \A h \in Handle :
       on[Finalizer] = h => \A g \in Goroutine : h \notin holds[g] /\ on[g] # h
  /\ \A g \in Goroutine, h \in Handle : h \in holds[g] => box[h] # "none"
  /\ \A h \in Tidy :
       /\ on[Finalizer] # h
       /\ ptr[h] = "box" =>
            \E g \in Goroutine : h \in holds[g] \/ Closing(g, h)

IInv ==
  /\ AnyIInv
  /\ MethodsProtected
  /\ ClosesExclusive
  /\ PtrMeansLive
  /\ NetIsLast

\* The invariant of a disciplined client holds before anything is opened.
LEMMA IInvInit == Init => IInv
<1> SUFFICES ASSUME Init
             PROVE  IInv
  OBVIOUS
<1>1. AnyIInv
  BY AnyIInvInit
<1> QED
  BY <1>1, HandleAssumption, ActorAssumption
     DEF Init, IInv, MethodsProtected, ClosesExclusive, PtrMeansLive, NetIsLast,
         InMethod, Closing, Actor

\* Every action of a disciplined client's program keeps the invariant.
LEMMA IInvStep ==
  ASSUME Disciplined, IInv, [Next]_vars
  PROVE  IInv'
<1> DEFINE Rest == MethodsProtected /\ ClosesExclusive /\ PtrMeansLive /\ NetIsLast
<1>0. AnyIInv'
  BY TypeStep, BoxesStep DEF IInv, AnyIInv
<1> USE HandleAssumption, ActorAssumption
    DEF Disciplined, IInv, AnyIInv, TypeOK, Receivers, BoxesKept, MethodsProtected,
        ClosesExclusive, PtrMeansLive, NetIsLast, Closing, InMethod, Actor
<1>1. ASSUME NEW g \in Goroutine, NEW h \in Handle, Open(g, h)
      PROVE  Rest'
  BY <1>1 DEF Open
<1>2. ASSUME NEW g \in Goroutine, NEW h \in Handle, Drop(g, h)
      PROVE  Rest'
  BY <1>2 DEF Drop
<1>3. ASSUME NEW g \in Goroutine, NEW h \in Handle, Invoke(g, h)
      PROVE  Rest'
  BY <1>3 DEF Invoke
<1>4. ASSUME NEW g \in Goroutine, NEW h \in Handle, StartClose(g, h)
      PROVE  Rest'
  BY <1>4 DEF StartClose
<1>5. ASSUME NEW g \in Goroutine, NEW h \in Handle,
             NEW other \in Goroutine \ {g}, Share(g, other, h)
      PROVE  Rest'
  BY <1>5 DEF Share
<1>6. ASSUME NEW a \in Actor, CallLibrary(a)
      PROVE  Rest'
  BY <1>6 DEF CallLibrary, Return
<1>7. ASSUME NEW a \in Actor, ReturnFromLibrary(a)
      PROVE  Rest'
  BY <1>7 DEF ReturnFromLibrary, Return
<1>8. ASSUME NEW a \in Actor, PassPtr(a)
      PROVE  Rest'
  BY <1>8 DEF PassPtr
<1>9. ASSUME NEW a \in Actor, FreeBox(a)
      PROVE  Rest'
  BY <1>9 DEF FreeBox
<1>10. ASSUME NEW a \in Actor, ClearPtr(a)
       PROVE  Rest'
  BY <1>10 DEF ClearPtr
<1>11. ASSUME NEW a \in Actor, UnsetFinalizer(a)
       PROVE  Rest'
  BY <1>11 DEF UnsetFinalizer, Return
<1>12. ASSUME NEW h \in Handle, Finalize(h)
       PROVE  Rest'
  <2>1. /\ \A g \in Goroutine : h \notin holds[g]
        /\ \A a \in Actor : ~Closing(a, h) /\ ~(InMethod(a, h) /\ reads[a] > 0)
    BY <1>12 DEF Finalize, Reachable, Needs
  <2>2. CASE ptr[h] = "nil"
    BY <1>12, <2>1, <2>2 DEF Finalize
  <2>3. CASE ptr[h] # "nil"
    BY <1>12, <2>1, <2>3 DEF Finalize
  <2> QED
    BY <2>2, <2>3
<1>13. CASE UNCHANGED vars
  BY <1>13 DEF vars
<1> QED
  BY <1>0, <1>1, <1>2, <1>3, <1>4, <1>5, <1>6, <1>7, <1>8, <1>9, <1>10, <1>11, <1>12,
     <1>13
     DEF Next, Client, Proceed

\* The invariant implies each of the safety properties.
LEMMA IInvConsequences ==
  IInv => /\ NoUseAfterFree
          /\ FreedAtMostOnce
          /\ NullNeverReachesLibrary
          /\ NetUnused
<1> SUFFICES ASSUME IInv
             PROVE  /\ NoUseAfterFree
                    /\ FreedAtMostOnce
                    /\ NullNeverReachesLibrary
                    /\ NetUnused
  OBVIOUS
<1> USE DEF IInv
<1>1. NoUseAfterFree
  BY DEF NoUseAfterFree, Borrows, MethodsProtected, InMethod, Closing, PtrMeansLive
<1>2. FreedAtMostOnce
  BY DEF FreedAtMostOnce, PtrMeansLive
<1>3. NullNeverReachesLibrary
  BY DEF NullNeverReachesLibrary, MethodsProtected, InMethod
<1>4. NetUnused
  BY DEF NetUnused, NetIsLast
<1> QED
  BY <1>1, <1>2, <1>3, <1>4

\* The invariant about live boxes holds in every reachable state of a
\* disciplined client, for any number of goroutines and handles.
THEOREM Invariance ==
  ASSUME Disciplined
  PROVE  Spec => []IInv
<1>1. IInv /\ [Next]_vars => IInv'
  BY IInvStep
<1> QED
  BY <1>1, IInvInit, PTL DEF Spec

\* The library never works on a freed box for a disciplined client.
THEOREM NoUseAfterFreeHolds ==
  ASSUME Disciplined
  PROVE  Spec => []NoUseAfterFree
BY Invariance, IInvConsequences, PTL

\* No box is freed twice for a disciplined client, however many of its
\* goroutines close it.
THEOREM FreedAtMostOnceHolds ==
  ASSUME Disciplined
  PROVE  Spec => []FreedAtMostOnce
BY Invariance, IInvConsequences, PTL

\* What check has tested still holds at every later read of the pointer.
THEOREM NullNeverReachesLibraryHolds ==
  ASSUME Disciplined
  PROVE  Spec => []NullNeverReachesLibrary
BY Invariance, IInvConsequences, PTL

\* A client that closes its handles never meets the finalizer.
THEOREM NetUnusedHolds ==
  ASSUME Disciplined
  PROVE  Spec => []NetUnused
BY Invariance, IInvConsequences, PTL

-----------------------------------------------------------------------------
(* Refinement of Resource.                                                 *)

\* The initial states of a Handle are those of a Resource.
LEMMA ResourceInit == Init => Res!Init
BY HandleAssumption, ActorAssumption DEF Init, Res!Init, Borrows, Actor

\* Every step is a Create, Enter, Leave or Free of one box, or none of them.
LEMMA ResourceNext ==
  ASSUME Disciplined, IInv, IInv', [Next]_vars
  PROVE  [Res!Next]_(Res!vars)
<1> USE HandleAssumption, ActorAssumption
    DEF IInv, AnyIInv, TypeOK, Receivers, Borrows, Actor, Res!vars
<1>1. ASSUME NEW g \in Goroutine, NEW h \in Handle, Open(g, h)
      PROVE  Res!Create(h)
  BY <1>1 DEF Open, Res!Create
<1>2. ASSUME NEW g \in Goroutine, NEW h \in Handle,
             \/ Drop(g, h) \/ Invoke(g, h) \/ StartClose(g, h)
             \/ \E other \in Goroutine \ {g} : Share(g, other, h)
      PROVE  UNCHANGED Res!vars
  BY <1>2 DEF Drop, Invoke, StartClose, Share
<1>3. ASSUME NEW a \in Actor, CallLibrary(a)
      PROVE  Res!Enter(a, on[a])
  <2>1. on[a] \in Handle /\ pc[a] = "load"
    BY <1>3 DEF CallLibrary
  <2>2. ptr[on[a]] = "box" /\ box[on[a]] = "live"
    BY <2>1 DEF MethodsProtected, InMethod, Closing, PtrMeansLive
  <2>3. pc' = [pc EXCEPT ![a] = "inC"] /\ UNCHANGED <<on, box>>
    BY <1>3, <2>2 DEF CallLibrary
  <2>4. \A h \in Handle, b \in Actor :
          Borrows(b, h)' <=> Borrows(b, h) \/ (b = a /\ h = on[a])
    BY <2>1, <2>3
  <2>5. a \notin {b \in Actor : Borrows(b, on[a])}
    BY <2>1
  <2> HIDE DEF Borrows, IInv, Actor
  <2> QED
    BY <2>1, <2>2, <2>3, <2>4, <2>5 DEF Res!Enter
<1>4. ASSUME NEW a \in Actor, ReturnFromLibrary(a)
      PROVE  Res!Leave(a, on[a])
  <2>1. on[a] \in Handle /\ pc[a] = "inC" /\ pc'[a] # "inC" /\ UNCHANGED box
    BY <1>4 DEF ReturnFromLibrary, Return
  <2>2. \A b \in Actor : b # a => pc'[b] = pc[b] /\ on'[b] = on[b]
    BY <1>4 DEF ReturnFromLibrary, Return
  <2>3. \A h \in Handle, b \in Actor :
          Borrows(b, h)' <=> Borrows(b, h) /\ ~(b = a /\ h = on[a])
    BY <2>1, <2>2
  <2>4. a \in {b \in Actor : Borrows(b, on[a])}
    BY <2>1
  <2> HIDE DEF Borrows, IInv, Actor
  <2> QED
    BY <2>1, <2>3, <2>4 DEF Res!Leave
<1>5. ASSUME NEW a \in Actor, FreeBox(a)
      PROVE  Res!Free(on[a])
  <2>1. on[a] \in Handle /\ pc[a] = "freeing" /\ Closing(a, on[a])
    BY <1>5 DEF FreeBox, Closing
  <2>2. box[on[a]] = "live"
    BY <2>1 DEF ClosesExclusive
  <2>3. box' = [box EXCEPT ![on[a]] = "freed"]
    BY <1>5, <2>1, <2>2 DEF FreeBox
  <2>4. {b \in Actor : Borrows(b, on[a])} = {}
    BY <2>1 DEF MethodsProtected, InMethod
  <2>5. \A h \in Handle, b \in Actor : Borrows(b, h)' <=> Borrows(b, h)
    BY <1>5 DEF FreeBox
  <2> HIDE DEF Borrows, IInv, Actor
  <2> QED
    BY <2>1, <2>2, <2>3, <2>4, <2>5 DEF Res!Free
<1>6. ASSUME NEW a \in Actor, PassPtr(a) \/ ClearPtr(a) \/ UnsetFinalizer(a)
      PROVE  UNCHANGED Res!vars
  BY <1>6 DEF PassPtr, ClearPtr, UnsetFinalizer, Return
<1>7. ASSUME NEW h \in Handle, Finalize(h)
      PROVE  UNCHANGED Res!vars
  BY <1>7 DEF Finalize
<1>8. CASE UNCHANGED vars
  BY <1>8 DEF vars
<1>9. ASSUME NEW g \in Goroutine, Client(g)
      PROVE  [Res!Next]_(Res!vars)
  BY <1>1, <1>2, <1>9 DEF Client, Res!Next
<1>10. ASSUME NEW a \in Actor, Proceed(a)
       PROVE  [Res!Next]_(Res!vars)
  <2>1. CallLibrary(a) \/ ReturnFromLibrary(a) \/ FreeBox(a) => on[a] \in Handle
    BY DEF CallLibrary, ReturnFromLibrary, FreeBox
  <2> HIDE DEF Res!vars, Borrows, IInv, Actor
  <2> QED
    BY <1>3, <1>4, <1>5, <1>6, <1>10, <2>1 DEF Proceed, Res!Next
<1> QED
  BY <1>7, <1>8, <1>9, <1>10 DEF Next

\* With a disciplined client, what the library sees is the life of a Resource.
THEOREM Refinement ==
  ASSUME Disciplined
  PROVE  Spec => RefinesResource
<1>1. IInv /\ IInv' /\ [Next]_vars => [Res!Next]_(Res!vars)
  BY ResourceNext
<1> QED
  BY <1>1, ResourceInit, Invariance, PTL DEF Spec, RefinesResource, Res!Spec
=============================================================================
