------------------------------ MODULE Factory ------------------------------
(***************************************************************************)
(* The configuration inside one open factory (AsicFactory.inner,           *)
(* asic-rs-ffi/src/lib.rs).  Every call that changes it clones the         *)
(* MinerFactory, lets a builder method of the clone run, and moves the     *)
(* result over the original, with no lock around the three steps;          *)
(* GetMiner, ScanMiner and Scan borrow the original for as long as they    *)
(* wait for the network.  The Go methods add no lock either.  The          *)
(* assignment drops the old value first, so that a call which reads or     *)
(* drops it at that time has undefined behaviour.  How a factory is closed *)
(* under a running call is the subject of Handle.                          *)
(***************************************************************************)
EXTENDS Integers, SequencesExt

CONSTANTS
  Goroutine,  \* the goroutines that share the factory
  HostRange,  \* the host descriptions that asic-rs can parse
  Malformed,  \* the strings that are none
  Size,       \* the number of hosts in each range
  Limit,      \* the concurrency limits a caller sets
  Setting,    \* the values of all other options, taken together
  CIntHalf,   \* 2^31, half the range of a C int
  MaxHosts,   \* bound on the ranges a factory is given
  Serial      \* does the client keep other calls away from one that writes?

ASSUME FactoryAssumption ==
  /\ Malformed \cap HostRange = {}
  /\ Size \in [HostRange -> Nat]
  /\ CIntHalf \in Nat \ {0}
  /\ MaxHosts \in Nat
  /\ Serial \in BOOLEAN

VARIABLES
  config,    \* the MinerFactory behind the pointer
  pc,        \* a goroutine is "idle", "reading" config, about to "assign" to
             \* it, or "moving" its clone there
  op,        \* the call it is in, or made last
  built,     \* the clone its builder has changed
  acked,     \* history: the ranges the factory was made from, and those whose
             \* append has returned 0, in order
  undefined  \* history: has an assignment overlapped another access to config?

vars == <<config, pc, op, built, acked, undefined>>

\* The limit a caller has set, or the one computed from a list of hosts.
LimitValue == ({"set"} \X Limit) \cup ({"adapted"} \X Seq(HostRange))

Config == [hosts : Seq(HostRange), limit : LimitValue, setting : Setting]

\* Undefined behaviour that does not end the process may leave any value; this
\* is any whose lists are within the bound.
AnyConfig ==
  LET Lists == BoundedSeq(HostRange, MaxHosts)
  IN  [hosts : Lists,
       limit : ({"set"} \X Limit) \cup ({"adapted"} \X Lists),
       setting : Setting]

\* What reading or writing the value c may come to.
Outcomes(c) == IF undefined THEN AnyConfig ELSE {c}

(***************************************************************************)
(* The calls.  "append" is WithSubnet, WithRange or WithOctets, "limit"    *)
(* SetConcurrentLimit, "adapt" SetAdaptiveConcurrency, "set" any other     *)
(* option, and "scan" the calls that only read.                            *)
(***************************************************************************)
Op ==
  [kind : {"append"}, arg : HostRange \cup Malformed]
    \cup [kind : {"limit"}, arg : Limit]
    \cup [kind : {"set"}, arg : Setting]
    \cup [kind : {"adapt", "scan"}, arg : {"none"}]

Writes(o) == o.kind # "scan"

Rejected(o) == o.kind = "append" /\ o.arg \in Malformed

\* Mutant: an append replaces the list.
ApplyReplacing(o, c) ==
  CASE o.kind = "append" -> [c EXCEPT !.hosts = <<o.arg>>]
    [] o.kind = "limit"  -> [c EXCEPT !.limit = <<"set", o.arg>>]
    [] o.kind = "adapt"  -> [c EXCEPT !.limit = <<"adapted", c.hosts>>]
    [] o.kind = "set"    -> [c EXCEPT !.setting = o.arg]
    [] OTHER -> c

\* The builder methods: what becomes of the clone c.
Apply(o, c) ==
  CASE o.kind = "append" -> [c EXCEPT !.hosts = Append(@, o.arg)]
    [] o.kind = "limit"  -> [c EXCEPT !.limit = <<"set", o.arg>>]
    [] o.kind = "adapt"  -> [c EXCEPT !.limit = <<"adapted", c.hosts>>]
    [] o.kind = "set"    -> [c EXCEPT !.setting = o.arg]
    [] OTHER -> c

-----------------------------------------------------------------------------

\* The client's discipline when Serial: a call that writes runs alone.
MayBegin(o) ==
  Serial => \A h \in Goroutine :
              pc[h] # "idle" => ~Writes(o) /\ ~Writes(op[h])

Begin(g, o) ==
  /\ pc[g] = "idle"
  /\ MayBegin(o)
  /\ o.kind = "append" => Len(acked) < MaxHosts
  /\ pc' = [pc EXCEPT ![g] = "reading"]
  /\ op' = [op EXCEPT ![g] = o]
  /\ undefined' = (undefined \/ \E h \in Goroutine : pc[h] = "moving")
  /\ UNCHANGED <<config, built, acked>>

\* The network has answered, or an error has come instead.
EndScan(g) ==
  /\ pc[g] = "reading"
  /\ ~Writes(op[g])
  /\ pc' = [pc EXCEPT ![g] = "idle"]
  /\ UNCHANGED <<config, op, built, acked, undefined>>

\* Mutant: an append works in place and has cleared the list when the parser
\* refuses its argument.
RejectAfterClearing(g) ==
  /\ pc[g] = "reading"
  /\ Rejected(op[g])
  /\ config' = [config EXCEPT !.hosts = <<>>]
  /\ pc' = [pc EXCEPT ![g] = "idle"]
  /\ UNCHANGED <<op, built, acked, undefined>>

\* The parser refuses the argument and the changed clone is dropped: -1.
Reject(g) ==
  /\ pc[g] = "reading"
  /\ Rejected(op[g])
  /\ pc' = [pc EXCEPT ![g] = "idle"]
  /\ UNCHANGED <<config, op, built, acked, undefined>>

\* Mutant: the builder does not check what it is given.
BuildUnchecked(g) ==
  /\ pc[g] = "reading"
  /\ Writes(op[g])
  /\ pc' = [pc EXCEPT ![g] = "assign"]
  /\ built' = [built EXCEPT ![g] = Apply(op[g], config)]
  /\ UNCHANGED <<config, op, acked, undefined>>

\* The clone, and the builder method on it.
Build(g) ==
  /\ pc[g] = "reading"
  /\ Writes(op[g]) /\ ~Rejected(op[g])
  /\ pc' = [pc EXCEPT ![g] = "assign"]
  /\ \E c \in Outcomes(config) : built' = [built EXCEPT ![g] = Apply(op[g], c)]
  /\ UNCHANGED <<config, op, acked, undefined>>

\* The assignment begins: the old value is dropped, and whoever reads or drops
\* it at this time has lost.
StartAssign(g) ==
  /\ pc[g] = "assign"
  /\ pc' = [pc EXCEPT ![g] = "moving"]
  /\ undefined' = (undefined \/ \E h \in Goroutine : pc[h] \in {"reading", "moving"})
  /\ UNCHANGED <<config, op, built, acked>>

\* The clone has been moved there; an append returns 0.
Assign(g) ==
  /\ pc[g] = "moving"
  /\ config' \in Outcomes(built[g])
  /\ pc' = [pc EXCEPT ![g] = "idle"]
  /\ acked' = IF op[g].kind = "append" THEN Append(acked, op[g].arg) ELSE acked
  /\ UNCHANGED <<op, built, undefined>>

-----------------------------------------------------------------------------

\* A new factory is empty, or made from one range.
Init ==
  /\ config \in [hosts : {<<>>} \cup {<<r>> : r \in HostRange},
                 limit : {"set"} \X Limit, setting : Setting]
  /\ pc = [g \in Goroutine |-> "idle"]
  /\ op = [g \in Goroutine |-> [kind |-> "scan", arg |-> "none"]]
  /\ built = [g \in Goroutine |-> config]
  /\ acked = config.hosts
  /\ undefined = FALSE

Next ==
  \E g \in Goroutine :
    \/ \E o \in Op : Begin(g, o)
    \/ EndScan(g)
    \/ Reject(g)
    \/ Build(g)
    \/ StartAssign(g)
    \/ Assign(g)

Spec == Init /\ [][Next]_vars

-----------------------------------------------------------------------------
(* Len, IsEmpty and Hosts, which read config in one short C call each.     *)

HostCount == FoldLeft(LAMBDA n, r : n + Size[r], 0, config.hosts)

\* usize as c_int keeps the low bits and reads them with a sign.
CInt(n) == ((n + CIntHalf) % (2 * CIntHalf)) - CIntHalf

\* asic_rs_factory_len, and the n < 0 of Factory.Len.
HostsLen == IF CInt(HostCount) < 0 THEN 0 ELSE CInt(HostCount)

IsEmpty == HostCount = 0

-----------------------------------------------------------------------------
(* Properties.                                                             *)

\* Every variable keeps its type; what is about to be assigned is a complete
\* configuration.
TypeOK ==
  /\ config \in Config
  /\ pc \in [Goroutine -> {"idle", "reading", "assign", "moving"}]
  /\ op \in [Goroutine -> Op]
  /\ built \in [Goroutine -> Config]
  /\ acked \in Seq(HostRange)
  /\ undefined \in BOOLEAN

\* As long as everything is defined, the hosts to be scanned are those the
\* factory was made from and those of the appends that returned 0, each once and
\* in order, whatever was refused and whatever options were set meanwhile
\* (lib.rs:276, "Append hosts ... Returns 0 on success, -1 on error").
HostsAreAcknowledged == ~undefined => config.hosts = acked

\* Len is the number of hosts (factory.go:197, "Len returns the number of hosts
\* currently configured for scanning").
LenIsCount == HostsLen = HostCount

-----------------------------------------------------------------------------

Scope == INSTANCE HostScope WITH
  hosts   <- config.hosts,
  limit   <- config.limit,
  setting <- config.setting

\* Each call takes effect at once or not at all: no append undoes an option
\* and no option an append.
RefinesHostScope == Scope!Spec
=============================================================================
