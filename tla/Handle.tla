------------------------------- MODULE Handle -------------------------------
(***************************************************************************)
(* The life of a Factory or Miner: a Rust box behind an opaque pointer     *)
(* (AsicFactory, AsicMiner), the Go object that wraps the pointer, its     *)
(* Close, its finalizer, and the methods that hand the pointer to the      *)
(* library.  Factory and Miner share this code shape line for line.        *)
(*                                                                         *)
(* Nothing in the package locks a handle, and nothing keeps the Go object  *)
(* alive while the library works on the box: the collector may finalize    *)
(* the object as soon as no code will read it again, which in a method is  *)
(* right after the method's last read of the pointer.  What the package    *)
(* guarantees depends therefore on how its client behaves, and the client  *)
(* is a parameter of this module.                                          *)
(***************************************************************************)
EXTENDS Naturals

CONSTANTS
  Goroutine,        \* the goroutines of the client
  Finalizer,        \* the goroutine on which the Go runtime runs finalizers
  Handle,           \* the Go objects (each is opened at most once)
  NoHandle,         \* no object
  MaxReads,         \* how many library calls a method makes (Supports: ten)
  Tidy,             \* the handles the client closes before it forgets them
  ClosesWhileBusy,  \* may it Close a handle while another goroutine uses it?
  DropsInFlight     \* may a method call be its last use of a handle?

ASSUME ActorAssumption == Finalizer \notin Goroutine
ASSUME HandleAssumption == NoHandle \notin Handle /\ Tidy \subseteq Handle
ASSUME MaxReadsAssumption == MaxReads \in Nat \ {0}
ASSUME ClientAssumption == ClosesWhileBusy \in BOOLEAN /\ DropsInFlight \in BOOLEAN

\* The client that the properties about live boxes need: it does not Close what
\* another goroutine uses, and it keeps an object at least as long as it is in a
\* method of it (defer m.Close(), as in every example, does both).
Disciplined == ~ClosesWhileBusy /\ ~DropsInFlight

Actor == Goroutine \cup {Finalizer}

VARIABLES
  box,        \* the Rust box: "none", "live", "freed" or "freedTwice"
  ptr,        \* the ptr field of the Go object: "nil" or "box"
  finalizer,  \* is Close set as the object's finalizer?
  holds,      \* the handles each goroutine has variables for
  pc,         \* where an actor is in a method ("load", "inC") or Close
  on,         \* the receiver of the method or Close it is in
  reads       \* how often the method will still read ptr

vars == <<box, ptr, finalizer, holds, pc, on, reads>>

InMethod(a, h) == on[a] = h /\ pc[a] \in {"load", "inC"}

Closing(a, h) == on[a] = h /\ pc[a] \in {"free", "freeing", "nil", "unset"}

\* The library works on the box of h on behalf of a, or a has read the pointer
\* for it and can no longer be kept from it.
Borrows(a, h) == on[a] = h /\ pc[a] = "inC"

\* Mutant: a Close that frees a copy of the pointer and never writes the object.
NeedsOfReadersOnly(a, h) == InMethod(a, h) /\ reads[a] > 0

(***************************************************************************)
(* What keeps a Go object from being finalized: a variable of the client,  *)
(* a Close that has still to write the object, or a method that has still  *)
(* to read its ptr.  A method that waits for its last library call is not  *)
(* among them (no runtime.KeepAlive follows the call).                     *)
(***************************************************************************)
Needs(a, h) ==
  \/ Closing(a, h)
  \/ InMethod(a, h) /\ reads[a] > 0

Reachable(h) ==
  \/ \E g \in Goroutine : h \in holds[g]
  \/ \E a \in Actor : Needs(a, h)

Return(a) ==
  /\ pc' = [pc EXCEPT ![a] = "idle"]
  /\ on' = [on EXCEPT ![a] = NoHandle]

-----------------------------------------------------------------------------
(* The client.                                                             *)

\* Mutant: the object is wrapped without its finalizer.
OpenUnguarded(g, h) ==
  /\ pc[g] = "idle"
  /\ box[h] = "none"
  /\ box' = [box EXCEPT ![h] = "live"]
  /\ ptr' = [ptr EXCEPT ![h] = "box"]
  /\ holds' = [holds EXCEPT ![g] = @ \cup {h}]
  /\ UNCHANGED <<finalizer, pc, on, reads>>

\* A constructor, GetMiner, ScanMiner or Scan returns a new object: the
\* library leaks a Box to a pointer, newMiner (or the constructor) wraps it
\* and sets the finalizer.
Open(g, h) ==
  /\ pc[g] = "idle"
  /\ box[h] = "none"
  /\ box' = [box EXCEPT ![h] = "live"]
  /\ ptr' = [ptr EXCEPT ![h] = "box"]
  /\ finalizer' = [finalizer EXCEPT ![h] = TRUE]
  /\ holds' = [holds EXCEPT ![g] = @ \cup {h}]
  /\ UNCHANGED <<pc, on, reads>>

Share(g, other, h) ==
  /\ pc[g] = "idle"
  /\ h \in holds[g]
  /\ holds' = [holds EXCEPT ![other] = @ \cup {h}]
  /\ UNCHANGED <<box, ptr, finalizer, pc, on, reads>>

\* g will not name h again.  It may be inside a method of h at that moment
\* only if DropsInFlight; a Close may always be its last use.  The last one to
\* forget a tidy handle closes it first.
Drop(g, h) ==
  /\ h \in holds[g]
  /\ InMethod(g, h) => DropsInFlight
  /\ h \in Tidy => \/ ptr[h] = "nil"
                   \/ Closing(g, h)
                   \/ \E other \in Goroutine \ {g} : h \in holds[other]
  /\ holds' = [holds EXCEPT ![g] = @ \ {h}]
  /\ UNCHANGED <<box, ptr, finalizer, pc, on, reads>>

-----------------------------------------------------------------------------
(* A method: check, then one or more library calls.                        *)

\* Mutant: a method that does not call check.
InvokeUnchecked(g, h) ==
  /\ pc[g] = "idle"
  /\ h \in holds[g]
  /\ ClosesWhileBusy \/ \A a \in Actor : ~Closing(a, h)
  /\ pc' = [pc EXCEPT ![g] = "load"]
  /\ on' = [on EXCEPT ![g] = h]
  /\ \E n \in 1 .. MaxReads : reads' = [reads EXCEPT ![g] = n]
  /\ UNCHANGED <<box, ptr, finalizer, holds>>

\* check passes (on a closed object the method returns an error instead).
Invoke(g, h) ==
  /\ pc[g] = "idle"
  /\ h \in holds[g]
  /\ ClosesWhileBusy \/ \A a \in Actor : ~Closing(a, h)
  /\ ptr[h] = "box"
  /\ pc' = [pc EXCEPT ![g] = "load"]
  /\ on' = [on EXCEPT ![g] = h]
  /\ \E n \in 1 .. MaxReads : reads' = [reads EXCEPT ![g] = n]
  /\ UNCHANGED <<box, ptr, finalizer, holds>>

\* The argument of the C call reads ptr a second time, and from here on the call
\* counts as borrowing the box, although the library enters it a little later.
\* It returns at once from a null handle, and otherwise dereferences it until it
\* returns.
CallLibrary(g) ==
  /\ pc[g] = "load"
  /\ reads' = [reads EXCEPT ![g] = @ - 1]
  /\ \/ /\ ptr[on[g]] = "box"
        /\ pc' = [pc EXCEPT ![g] = "inC"]
        /\ UNCHANGED on
     \/ /\ ptr[on[g]] = "nil"
        /\ IF reads[g] > 1 THEN UNCHANGED <<pc, on>> ELSE Return(g)
  /\ UNCHANGED <<box, ptr, finalizer, holds>>

\* Mutant: one library call too many.
ReturnOneTooMany(g) ==
  /\ pc[g] = "inC"
  /\ IF reads[g] >= 0
       THEN pc' = [pc EXCEPT ![g] = "load"] /\ UNCHANGED on
       ELSE Return(g)
  /\ UNCHANGED <<box, ptr, finalizer, holds, reads>>

ReturnFromLibrary(g) ==
  /\ pc[g] = "inC"
  /\ IF reads[g] > 0
       THEN pc' = [pc EXCEPT ![g] = "load"] /\ UNCHANGED on
       ELSE Return(g)
  /\ UNCHANGED <<box, ptr, finalizer, holds, reads>>

-----------------------------------------------------------------------------
(* Close, called by the client or by the runtime as the finalizer.         *)

\* The ptr is not nil (a second Close returns here).
StartClose(g, h) ==
  /\ pc[g] = "idle"
  /\ h \in holds[g]
  /\ ClosesWhileBusy \/ \A a \in Actor : on[a] # h
  /\ ptr[h] = "box"
  /\ pc' = [pc EXCEPT ![g] = "free"]
  /\ on' = [on EXCEPT ![g] = h]
  /\ UNCHANGED <<box, ptr, finalizer, holds, reads>>

\* The collector found the object unreachable: the runtime clears its
\* finalizer and runs Close.
Finalize(h) ==
  /\ pc[Finalizer] = "idle"
  /\ finalizer[h]
  /\ ~Reachable(h)
  /\ finalizer' = [finalizer EXCEPT ![h] = FALSE]
  /\ IF ptr[h] = "nil"
       THEN UNCHANGED <<pc, on>>
       ELSE /\ pc' = [pc EXCEPT ![Finalizer] = "free"]
            /\ on' = [on EXCEPT ![Finalizer] = h]
  /\ UNCHANGED <<box, ptr, holds, reads>>

\* Mutant: the pointer is cleared before it is handed to the library.
PassPtrAfterClear(a) ==
  /\ pc[a] = "free"
  /\ ptr' = [ptr EXCEPT ![on[a]] = "nil"]
  /\ pc' = [pc EXCEPT ![a] = "nil"]
  /\ UNCHANGED <<box, finalizer, holds, on, reads>>

\* The argument of asic_rs_miner_free reads ptr once more; freeing null does
\* nothing.
PassPtr(a) ==
  /\ pc[a] = "free"
  /\ pc' = [pc EXCEPT ![a] = IF ptr[on[a]] = "nil" THEN "nil" ELSE "freeing"]
  /\ UNCHANGED <<box, ptr, finalizer, holds, on, reads>>

\* asic_rs_miner_free drops the box, whatever the pointer in the object has
\* become since it was read.
FreeBox(a) ==
  /\ pc[a] = "freeing"
  /\ box' = [box EXCEPT ![on[a]] = IF @ = "live" THEN "freed" ELSE "freedTwice"]
  /\ pc' = [pc EXCEPT ![a] = "nil"]
  /\ UNCHANGED <<ptr, finalizer, holds, on, reads>>

\* Mutant: Close leaves the freed pointer in the object.
KeepPtr(a) ==
  /\ pc[a] = "nil"
  /\ pc' = [pc EXCEPT ![a] = "unset"]
  /\ UNCHANGED <<box, ptr, finalizer, holds, on, reads>>

ClearPtr(a) ==
  /\ pc[a] = "nil"
  /\ ptr' = [ptr EXCEPT ![on[a]] = "nil"]
  /\ pc' = [pc EXCEPT ![a] = "unset"]
  /\ UNCHANGED <<box, finalizer, holds, on, reads>>

UnsetFinalizer(a) ==
  /\ pc[a] = "unset"
  /\ finalizer' = [finalizer EXCEPT ![on[a]] = FALSE]
  /\ Return(a)
  /\ UNCHANGED <<box, ptr, holds, reads>>

-----------------------------------------------------------------------------

Init ==
  /\ box = [h \in Handle |-> "none"]
  /\ ptr = [h \in Handle |-> "nil"]
  /\ finalizer = [h \in Handle |-> FALSE]
  /\ holds = [g \in Goroutine |-> {}]
  /\ pc = [a \in Actor |-> "idle"]
  /\ on = [a \in Actor |-> NoHandle]
  /\ reads = [a \in Actor |-> 0]

\* What the client decides to do.
Client(g) ==
  \E h \in Handle :
    \/ Open(g, h)
    \/ Drop(g, h)
    \/ Invoke(g, h)
    \/ StartClose(g, h)
    \/ \E other \in Goroutine \ {g} : Share(g, other, h)

\* What runs on by itself in a method or Close.
Proceed(a) ==
  \/ CallLibrary(a)
  \/ ReturnFromLibrary(a)
  \/ PassPtr(a)
  \/ FreeBox(a)
  \/ ClearPtr(a)
  \/ UnsetFinalizer(a)

Next ==
  \/ \E g \in Goroutine : Client(g)
  \/ \E a \in Actor : Proceed(a)
  \/ \E h \in Handle : Finalize(h)

Fairness ==
  /\ \A a \in Actor : WF_vars(Proceed(a))
  /\ \A h \in Handle : WF_vars(Finalize(h))

Spec == Init /\ [][Next]_vars

FairSpec == Spec /\ Fairness

-----------------------------------------------------------------------------
(* Properties.                                                             *)

\* Every variable keeps its type; in particular a method never counts its
\* library calls below zero.
TypeOK ==
  /\ box \in [Handle -> {"none", "live", "freed", "freedTwice"}]
  /\ ptr \in [Handle -> {"nil", "box"}]
  /\ finalizer \in [Handle -> BOOLEAN]
  /\ holds \in [Goroutine -> SUBSET Handle]
  /\ pc \in [Actor -> {"idle", "load", "inC", "free", "freeing", "nil", "unset"}]
  /\ on \in [Actor -> Handle \cup {NoHandle}]
  /\ reads \in [Actor -> Nat]

\* While the library works on a box, the box is not freed: neither by a Close
\* nor by the finalizer of an object whose method is still running.
NoUseAfterFree ==
  \A h \in Handle, a \in Actor : Borrows(a, h) => box[h] = "live"

\* No sequence or race of Close calls and finalizers frees a box twice.
FreedAtMostOnce == \A h \in Handle : box[h] # "freedTwice"

\* No method hands the library a null pointer: between the test of check and
\* the later reads of ptr (ten of them in Supports) nobody closes the handle,
\* so that no flag of Supports is a mere default.
NullNeverReachesLibrary ==
  \A h \in Handle, a \in Actor : on[a] = h /\ pc[a] = "load" => ptr[h] = "box"

\* A box that is not freed can still be: its object is reachable, or its
\* finalizer is set.
NoLeak == \A h \in Handle : box[h] = "live" => Reachable(h) \/ finalizer[h]

\* A client that closes what it forgets never depends on the safety net: the
\* finalizer does not run Close on its handles, not even on one whose explicit
\* Close is still under way.
NetUnused == \A h \in Tidy : on[Finalizer] # h

\* A box whose object nobody can name any more is freed in the end.
EventuallyFreed ==
  \A h \in Handle : (box[h] = "live" /\ ~Reachable(h)) ~> (box[h] = "freed")

-----------------------------------------------------------------------------
(* The library sees the boxes Resource describes.                          *)

Res == INSTANCE Resource WITH
  User  <- Actor,
  Item  <- Handle,
  state <- box,
  users <- [h \in Handle |-> {a \in Actor : Borrows(a, h)}]

\* Each box is created, used by any number of calls at a time, and destroyed
\* once, when no call uses it.
RefinesResource == Res!Spec
=============================================================================
