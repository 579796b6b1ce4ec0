# A verification of the asic-rs Go binding

This directory models and proves parts of `asicrs`, a Go package that wraps
the Rust library asic-rs through a small C ABI crate (`asic-rs-ffi`). The code
has little arithmetic and few data structures; what can go wrong in it happens
at the boundary, where a Go runtime that moves goroutines between threads and
collects garbage meets Rust code that keeps thread-local state and gives out raw
pointers. The TLA+ modules follow that boundary.

## The system

| Component | Where | State | Operations |
|---|---|---|---|
| Error slot | `asic-rs-ffi/src/lib.rs` 39-71, `asicrs/cgo.go` 21-28 | one optional string per OS thread (`LAST_ERROR`) | `clear_error`, `set_error`, `asic_rs_last_error`, `lastError` |
| Handles | `miner.go` 16-46, `factory.go` 15-89, `lib.rs` 72-84, 238-244, 618-624 | the Rust box, the Go object's `ptr`, its finalizer | constructors, `newMiner`, `check`, `Close`, `asic_rs_*_free` |
| Factory configuration | `factory.go` 91-227, `lib.rs` 246-472 | the `MinerFactory` in the box: hosts, limit, options | `With*`, `Set*`, `Len`, `IsEmpty`, `Hosts`; read by `GetMiner`, `ScanMiner`, `Scan` |
| Scan transfer | `lib.rs` 544-592, `factory.go` 257-284 | an array of leaked boxes, its length and capacity | `asic_rs_factory_scan`, `Scan`, `asic_rs_free_miner_list` |
| String ownership | `cgo.go` 30-76, `lib.rs` 86-131 | C strings allocated on both sides | `cString`/`freeGoCString`, `takeJSON`/`freeCString` |
| Telemetry getters | `miner.go` 131-378, `lib.rs` 745-988 | none of their own | one JSON value per call |
| Control path | `miner.go` 117-129, 380-506, `lib.rs` 717-743, 990-1164 | the remote miner, the credentials in the box | `SetAuth`, setters and commands, 1 / 0 / -1 |
| JSON types | `types.go` | Go values | decoders and encoders of durations, power, tuning targets |
| Runtime | `lib.rs` 39-41 | the Tokio runtime | `block_on` |

The components interact by calls only. A Go method tests its handle (`check`),
passes the raw pointer to one exported function, which blocks in `block_on`
until the network has answered, and turns the result into a Go value; if the
result says that the call failed, a *second* C call fetches the message from the
error slot. State is shared in three places: the error slot, between all
goroutines that the scheduler puts on one thread; the handle, between all
goroutines that hold the object and the runtime's finalizer goroutine; and the
box behind the handle, between all calls that run on it.

The hard behaviours are therefore interleavings (two C calls that must be seen
as one, three steps of `Close`, clone-build-assign of a factory), stale state (a
pointer tested and read again, a borrowed message, a configuration read during a
scan, a Go variable decoded into twice) and partial failure (a refused append, an
early return before the slot was cleared, a JSON encoding that fails between two
allocations, a request that is applied although its call gives up). No state is
persisted and no message is queued inside the package; the network can delay,
refuse or lose what a call sends, and the call may give up on it. What makes each component correct:

- error slot: a failure is never silent; the message reported is that of the
  failed call; a success leaves no message behind; a borrowed message is alive
  until it has been copied;
- handles: a box is used only while it is live, freed at most once and not
  forgotten; null does not reach the library from an open handle;
- factory: each call takes effect at once or not at all, and nothing that a
  call reads is dropped under it; `Len` is the number of hosts that `Hosts`
  lists and `IsEmpty` denies (up to what a C int holds, as it turns out);
- scan transfer: every leaked box ends up with exactly one owner; the array is
  freed once;
- strings: each is freed once, by the side that allocated it, on every path;
- control and types: what is reported is what happened; what is decoded encodes
  back to the same target; requests go out under one set of credentials.

## The modules

| Module | What it is |
|---|---|
| `LastError` | The error slots, the calls of the exported functions by what they do to the slot, the threads the scheduler chooses, and `lastError` with its borrow and copy. |
| `CallOutcome` | Abstract: a call ends in success or in its own error, and it ends. |
| `Handle` | Boxes, pointers, finalizers; the steps of a method and of `Close`; what the client may do. |
| `Resource` | Abstract: a resource is created, used by any number of calls while live, and freed once when unused. |
| `Factory` | Clone, build and assign on one open factory; calls that only read it; the conversions in `Len`. |
| `HostScope` | Abstract: one configuration value, changed by each call at once. |
| `Transfer` | What a method call allocates outside the Go heap (C strings of both sides, boxes, the array of a scan) and who frees it. It implements `Resource` once more, for its strings and boxes. |
| `Codecs` | The JSON conversions written by hand in `types.go`, as operators, and what 64 bits make of a duration. |
| `Control` | Extends `Codecs`: goroutines that poll one miner and control it over an unreliable network. |
| `RemoteSetting` | Abstract: the miner's setting as a register that each control call writes at most once. |
| `LastError_proof`, `Handle_proof`, `Factory_proof`, `Transfer_proof`, `Control_proof` | The theorems. |
| `MCLastError`, `MCHandle`, `MCFactory`, `MCTransfer`, `MCControl` | Values of the constants for TLC. |

How the models correspond to the code:

**LastError.** `pc[g]` says where goroutine `g` is in a method: `entered` (inside
the exported function, slot not yet cleared), `running` (after `clear_error`),
`failed` (back in Go with null, false or -1), `copying` (`lastError` holds the
borrowed pointer). The 60 exported functions fall into three classes. Most clear
the slot first and their methods report a failure (`query`). The factory's
options, `Len`, `IsEmpty` and `Supports` clear it but their methods swallow a
failure (`option`). The configuration setters, `SetFaultLight`, `SetPowerLimit`,
`Restart`, `Pause` and `Resume` parse their JSON and test their handle before
`control_bool_result` clears the slot (`control`); `RejectArguments` is that
early return. A message is the pair of a goroutine and the number of its call.
`ReadLastError` chooses the thread anew, because nothing ties the two C calls
together; a goroutine in `Locked` has called `runtime.LockOSThread` and stays on
its `Home`, which nobody else uses. Errors that the Go side makes by itself (a
closed handle, a decoding error) do not involve the slot and are left out.

**Handle.** `box` is the Rust allocation, `ptr` the field of the Go object,
`finalizer` whether one is set. A method is `Invoke` (its `check`), then
`CallLibrary` and `ReturnFromLibrary` once per C call, each C call reading `ptr`
again. `Close` is the nil test (`StartClose`, or `Finalize` when the runtime
calls it), `PassPtr` (the argument of the free function reads `ptr` once more),
`FreeBox`, `ClearPtr` and `UnsetFinalizer`. A method's read of `ptr` and its entry
into the library are one step: the call counts as borrowing the box from the read
on, so that whatever frees the box after the read is seen. `Needs` says what keeps an
object from the collector: variables of the client, and code that has still to
read or write the object, but not a method that waits for its last C call, since
no `runtime.KeepAlive` follows. What the package guarantees depends on the
client, so the client is a parameter: `ClosesWhileBusy` and `DropsInFlight` allow
it to close what another goroutine uses and to make a method call its last use of
an object; a `Disciplined` client does neither (`defer m.Close()` as in the
examples does both things right). The handles in `Tidy` are always closed before
they are forgotten.

**Factory.** A call is `Begin`, then `EndScan` if it only reads, `Reject` if
asic-rs refuses the argument, or `Build` (clone and builder method) and the two
steps of `*f = updated`: `StartAssign` drops the old value, `Assign` has moved the
new one there. Hosts are a sequence of the appended ranges, each with a size; a
factory starts empty or with the range it was made from. The limit remembers
whether it was set or adapted to a list; the other options are one value, since the
code treats them alike. `Serial` is the client's discipline that a writing call runs
alone. An assignment that overlaps another access to the configuration (a clone, a
scan, another assignment) is undefined behaviour: `undefined` records it, and from
then on a clone or an assignment may yield any configuration (`AnyConfig`), so that
nothing is claimed of what follows. Two calls that overlap without their
assignments overlapping are well defined, and that is enough to lose an append.
The builder methods themselves belong
to asic-rs; that they append to the host list, or set one option, is what the
exported functions' comments and the repository's tests use them for.

**Transfer.** A method is the number of strings it passes, whether it encodes
them as JSON first, and what it gets back: a status, a box, a text or a list of
boxes. `PassString` is `cString` and the `defer` that releases it, `pending`
counts the deferred releases, and `ReleaseString` runs them, the last first.
`EncodingFails` is `json.Marshal` refusing a configuration, in `SetTuningConfig`
perhaps the second of two. The returned text is freed by `TakeText` whether it can
be decoded or not. `ReturnList` leaks a box for every miner and an array for the
pointers, which `collect` may leave spare room (`Slack`); `Wrap` is `newMiner` for
the next pointer, `Finish` the deferred `asic_rs_free_miner_list`, and `Close` what
the client or the finalizer does with an object later, at any time. `heap` knows
every block as none, live, freed, freed twice or freed with the wrong layout.

**Codecs.** A JSON text is what the decoders tell apart in it: an object with some
of the three tags, each with a value, null or something wrong, or a bare string,
or null, or something else. `Decode` and `Encode` are `UnmarshalJSON` and
`MarshalJSON` of `TuningTarget`; a variable keeps the values of the variants it does
not hold, as the Go structure does. `Filled` is what null leaves behind. `Parse` is
how serde reads the same format, and belongs to asic-rs. `Says` is the reference:
the target that a text stands for, if it gives one tag a value (`Names`) or is a
string. A null payload names no target: the decoder's zero for it is modelled, and
not taken for what the text means. `DecodeUptime`, `Duration` and `UptimeOf` are the
conversions of times, in integers of `2 * Half` values (`Signed`).

**Control.** `GetDataJSON` stands for the call and the client's decoding into the
snapshot it used before, `GetData` for a decoding into a new one; `said`
remembers the reply if the decoding succeeded. The client heeds errors: it sends
back a target only from a snapshot decoded without one, or one it made itself.
Every control call is numbered; `arg` is what crosses to the library, `meant` what
the Go argument stands for (nothing in particular for a negative time, of which no
comment speaks), `got` what the miner is sent, `under` the credentials it
is sent under. `Send` is the first step of `block_on`; `Apply` and `Refuse` are the
miner, at any time after; `Answer`, `GiveUp` and `SendNothing` end `block_on` with 1,
0 or -1, and `Finish` is `controlResult`. `Pause` also stands for `Resume`,
and for the setters and commands whose argument is passed through unchanged.
`SetAuth` replaces the credentials in two steps, since `&mut` in Rust excludes
nobody on the Go side; `AuthAlone` is the client's discipline that it runs alone.
`RemoteSetting` sees only the calls that hand something over: a call that reports
true has written the setting between its start and its return, one that reports
false never writes it, one that reports an error may still do so; a request under
way has no effect yet.

## The runs

| Run | Result | Question |
|---|---|---|
| `last_error` | passes | With a locked goroutine and two free ones on three threads: the slot of an idle thread tells the fate of the last call there, no failure is silent, the locked goroutine gets its own errors and keeps them to itself; for it the detailed steps implement `CallOutcome`, including that every call returns. |
| `last_error_own` | violated | Is a reported error always the one of the failed call? Not for a goroutine that may change threads. |
| `handle` | passes | Three goroutines of a disciplined client share two handles: the boxes are used while live, freed once, never reached through null; tidy handles never meet the finalizer; `Resource` is implemented. |
| `handle_any_client` | passes | Whatever two goroutines do with two handles: no live box is lost, an unreachable one is freed in the end. |
| `handle_last_use` | violated | Is a box safe during a call if the client relies on the finalizer? No. |
| `handle_racing_close` | violated | May `Close` be called by two goroutines at a time? No: the box is freed twice. |
| `factory` | passes | With serial writes: the hosts are those of the acknowledged appends, whatever was refused in between, and `HostScope` is implemented. |
| `factory_len` | violated | Is `Len` the number of hosts? Not from half the range of a C int on: there it is 0 or what is left modulo the range. |
| `factory_racing` | violated | Is an append that returned 0 in the list? Not if two overlap. |
| `transfer` | passes | Three methods one after the other, of any kind, with objects closed in between: whatever is read is allocated, nothing is left behind on any path, each string and box is freed once and in the end, and `Resource` is implemented. |
| `transfer_list` | violated | Is the array of a scan freed as it was allocated? Not if `collect` left it spare capacity. |
| `control` | passes | Two goroutines, three reads or calls between them: what is reported happened; what the miner is sent is what was meant; a snapshot shows its reply also when the variable was used before; an older setting of a goroutine returns only after an error; credentials are never mixed; `RemoteSetting` is implemented. |

The six violated runs are recorded as findings, with the sentences of the
repository that they contradict.

**Bounds.** Two free goroutines on two threads are enough for one to overwrite or
to read the other's slot, and a second call for the locked one and for one of the
free ones lets a stale message of an earlier call be met (in `last_error_own` both
make two); the locked goroutine needs no partner on its thread because
nobody may run there. Two handles make the single finalizer goroutine busy with
one while the other waits; two C calls per method (`MaxReads`) stand for the ten
of `Supports`. `MaxHosts` counts the range
a factory was made from and the appends: with three ranges of one or three hosts an
append is built on another that was refused, acknowledged or overtaken by an option,
and the counts pass both limits of a C int of three bits (`CIntHalf`, half the number
of its values, is 4): those from 4 to 7 are negative, those from 8 on wrap. In
`factory_racing` the bound of one is tested when a call begins, so that two that
overlap both append. In
`transfer` one goroutine is enough, because goroutines share no block until an
object is closed, and `Close` may come at any time; two strings per call give an
encoding that fails between them, and two miners a scan that is wrapped in part.
In `control`, `MaxCalls` counts reads and calls together: three are two reads into
one variable and the call that sends the result, a `SetAuth` between two requests,
and an old request that is applied after a newer one; `Pause` asks for now, for a
negative time or for time 0. The targets are every
variant with a value, null, a wrong value, a bare string and no known tag; times of
five bits, with four nanoseconds to a second, hold one of the uptimes exactly and
wrap with the other. Calls
and ranges are bounded in the guards (`MaxCalls`, `MaxHosts`); the theorems drop
these bounds. Deadlock is not checked where the bounds let the system stop.

**Fairness.** Liveness assumes that an actor in a method or `Close` goes on
(`WF` of `Step`, `Proceed`): the Go scheduler runs a goroutine that can run, and a
library call ends because asic-rs gives its requests timeouts. The client is
never obliged to call anything. In `Transfer` it must close its objects in the end,
or forget them (`WF` of `Close`, the finalizer standing behind it). `Control` assumes
no fairness: the network owes nobody an answer, and nothing eventual is claimed. `WF` of `Finalize` assumes that the collector
runs again and again (the Go runtime forces a cycle after two minutes without
one) and that finalizers are run as long as the process lives.

## What is proved

TLAPS checks the proof modules; every theorem holds for any number of goroutines,
threads, handles and calls. The assumptions are those of the modules (`Locked`
goroutines have different homes, sentinels are no messages, texts or values, the
finalizer goroutine is not one of the client's, a second fits into the integers
used) and, where stated, `Disciplined`, `Serial` or `AuthAlone`.

- `LastError_proof`: types, `SlotReflectsLastCall`, `FailureNeverSilent`,
  `LockedErrorIsOwn`, `LockedErrorsStayPrivate`, and `Spec => Outcome!Spec`. None
  of the properties is inductive. The invariant adds where goroutines are
  (`Placement`: one call per thread, everybody on a thread it may run on, the slot
  of a running call empty) and who may hold which message (`Privacy`: a locked
  goroutine's message is in its own slot until fetched, borrowed and returned by
  its owner only). Each part has a lemma with one step per action. Two theorems
  place the claim that the run `last_error_own` refutes: `OwnWhereAllLocked` (it
  holds where every caller has locked its thread) and `ErrorsReal` (elsewhere, an
  error may be another call's, but never one of a call that has not been made or
  is its goroutine's last and has not failed).
- `Handle_proof`: for every client, types and `NoLeak`, from `AnyIInv` (a live box
  has its pointer, and its finalizer or a `Close` under way), that an object the
  collector may take is used again by its finalizer only (`UnreachableStays`), and
  that a `Close` that returns has seen the box freed and leaves neither pointer nor
  finalizer (`CloseFrees`). For a disciplined
  one, `NoUseAfterFree`, `FreedAtMostOnce`, `NullNeverReachesLibrary`,
  `NetUnused`, and that `Resource` is implemented. The invariant says that a
  method's handle is held and not being closed, that one `Close` at a time works
  on a handle and how far it has come, that a pointer means a live box except in
  the middle of a `Close`, and that the finalizer comes last.
- `Factory_proof`: for any client, types, `LenTrueBelowCIntHalf` (`Len` is the number
  of hosts exactly as long as that is below `CIntHalf`: the cast is all that
  `factory_len` is about), and `OverlapsOnlyLose` (as long as no assignment has
  overlapped another access, the hosts are acknowledged ranges in their order: what
  overlapping calls do is lose some, which is the fault of `factory_racing`). The
  invariant says the same of every clone that is on its way to be assigned. Types are
  proved of what undefined behaviour leaves because the model lets it be some
  configuration. For serial writes, `HostsAreAcknowledged`, `AppendsCounted` (the
  host count changes by what an acknowledged append adds), and that `HostScope` is
  implemented; the invariant says that the writer is alone, its clone fresh and
  nothing undefined. The
  count is a fold over a sequence. `InductionOnSet` derives an induction on sets of
  numbers from the well-foundedness of `<`; with it `CountsExist` and `CountOfIs` show
  that the fold is the sum of the sizes, from which `LenTrueBelowCIntHalf` needs only
  that a sum of sizes is a natural number and how `CInt` wraps.
- `Transfer_proof`: types, `NothingLeftBehind`, `UsedWhileLive`, and that `Resource`
  is implemented, for any number of goroutines, strings and miners. The invariant
  says which blocks of the current call are live at each point of a method (the
  strings up to `pending`, the text until it is taken, the boxes up to `found`, owned
  by an object up to `wrapped`) and that earlier calls have left only owned boxes.
  `ExactListFreed` proves `ListFreedAsAllocated` if there is no spare capacity, so
  that the capacity is all that the violated run is about.
- `Control_proof`: `DecodeThenEncode` says that any text that names a target is
  decoded, into a variable with any history, and encoded as this target. From it and
  an invariant that places each goroutine with its call (its argument still means
  what was meant, no report before its end, a code that agrees with the request),
  orders the calls of a goroutine and ties each request to its call follow `TypeOK`,
  `ReportedAsHappened`, `DeliveredAsMeant`, `SnapshotAsSaid` (at any width of
  integers), `OldSettingsOnlyAfterErrors`, and that `RemoteSetting` is implemented:
  the moment `Apply` is the one write of a call, also after the call has given up.
  With `AuthAlone`, also `CredentialsWhole`, since nobody sends while a `SetAuth` is
  between its two writes.

Only model-checked are the liveness part of `RefinesOutcome` and both properties named
`EventuallyFreed`: liveness needs `ENABLED`, which TLAPS does not handle. What they rest
on step by step is proved. A theorem `MethodsEnd` in `LastError_proof`, `Handle_proof`
and `Transfer_proof` gives each method (in `Handle`, each `Close` too) a number of
remaining steps that every step of its own decreases and no other step changes; of an
unreachable box `UnreachableStays` and `CloseFrees` leave only that its finalizer is
run. All safety properties of the passing runs are proved.

## Not modelled, and what is planned

Out of scope: the upstream crate and the Tokio runtime (not in the repository),
the generated header, the build scripts and the examples (no state), the version
strings (constants). Of `types.go`, the structures that encoding/json decodes by
itself, `HashRate.AsUnit` (floating point), `BoardCount`, `TimestampTime` and the
formatting of a `PoolURL` are left out: they keep no state and take no decision that
another component relies on. Of the getters, the single values are left out, of the
setters the scaling of `SetTuningConfig`, and of `UpgradeFirmware` the file it reads.
Strings have no characters in the models, so that the cut at a NUL by `C.CString`
and the interior NUL of `to_c_string` (which is one of the failures) are not told
apart from other strings. The value of `SetConcurrentLimit` is only passed on.

**What the client must do.** Some properties are about clients that keep a
discipline, and a hazard that the discipline excludes is not caught by them. The list
of hazards names no property for these:

- a `Close` while another goroutine uses the handle frees the box under it, and turns
  the later flags of `Supports` into defaults (`ClosesWhileBusy`); miner.go:18-19
  leaves concurrent use to the backend;
- a write to a factory while a scan reads its configuration is undefined (`Serial`);
- `SetAuth` beside other calls may mix credentials (`AuthAlone`); without this TLC
  refutes `CredentialsWhole` at once;
- a snapshot used after a decoding error may hold a target nobody has named
  (`Choices`).

That a client must keep off these is stated nowhere in the repository, nor the
contrary, except for what the violated runs are about. A method call that is the last
use of an object is not among them: `handle_last_use` is about it. That a borrowed
message may be gone before it is copied is not a run of its own: `ErrorIsOwn` covers
it, and fails earlier. The comment of `asic_rs_last_error` (lib.rs:64) lets the
message live until the next call that *sets* an error, while `clear_error` drops it
in any call that clears the slot.

A null payload, as serde writes a number that is not finite, is decoded to zero and
would be sent back as such; a negative time asks for now. No comment says whether
either is meant, so that no property speaks of them.

Still planned:

1. A composition of `LastError`, `Handle` and `Transfer` for one method call from end
   to end, with the three kinds of steps interleaved and one client discipline.
2. The aliasing of `Raw` between copies of a `TuningTarget`, which needs arrays with
   an identity, and the half-filled results of the getters.
