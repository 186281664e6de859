# Formal models of the Aura Wasm Runtime Host

The Aura Wasm Runtime Host lets a launcher run a plugin (a *payload*) that is a
WebAssembly component. A Java plugin inside the launcher starts one native
process per payload; launcher and process speak a framed protocol over the
process's stdin and stdout; the process runs the component in Wasmtime and lets
it call back into the launcher.

This directory holds TLA+ modules translated from that code, TLC runs that check
them on small instances, and TLAPS proofs that hold for every value of the
constants. `tlc -config X.cfg M` repeats a run, `tlapm M.tla` a proof.

## The system

| part | source | state it keeps | operations | what makes it correct |
|---|---|---|---|---|
| command loop | `crates/aura-wasm-host/src/server.rs` | lifecycle state, poison, callback counter | one per command; `close_on_eof`; `ProcessBridge::{invoke, retain_handle, release_handle}` | every command answered or the process gone; exports entered in lifecycle order; nothing reported as done that was not |
| engine adapter | `crates/aura-wasm-host/src/guest_engine.rs`, `error.rs` | `Option<WasmPlugin>` | `load` … `unload` | the plugin is there exactly while the lifecycle says so |
| Wasm engine | `crates/aura-wasm-engine/src/*.rs` | store, fuel, epoch, ticker thread, `poisoned`, `callback_active` | `instantiate`, `call`, bridge imports | each call has its own limits; a trapped store is dead; no callback outside a call |
| protocol | `crates/aura-runtime-protocol/src/lib.rs` | none | `read_frame`, `write_frame`, `Message::{new, to_wire, from_wire}` | the reader keeps its place; both sides accept the same messages |
| Bridge Value | `crates/aura-bridge-value`, copied in `sdk/rust/aura-wasm-guest` | counters of one traversal | `to_wire`, `from_wire` | round trip; one encoding per value; the same limits on both sides |
| runtime provider | `host-plugin/.../WasmRuntimeProvider.java` | map of sessions, monitor | `loadPayload` … `unloadPayload`, `close` | no orphaned process; a session is used by one thread at a time |
| host plugin | `host-plugin/.../WasmRuntimeHostPlugin.java` | registration, monitor | `onLoad`, `onUnload` | closing the registration ends every payload |
| descriptor, path policy | `descriptor.rs`, `path_policy.rs` | none | `read`, `resolve_resource` | only files inside the package |
| launch-hook example | `examples/launch-hook/src/lib.rs` | one atomic state | the five exports | agrees with the Host about the lifecycle |
| packaging, CI, WIT | `tools`, `.github`, `sdk/wit`, `artifacts` | files | scripts | not a protocol |

How they interact: a launcher thread calls the provider, which holds its monitor
while `RuntimeProcessSession` (not in this repository) sends a command frame and
waits. In the process, *one* thread reads a command, runs the guest export, and
writes the reply. While the export runs, a bridge import makes the same thread
write a callback frame and read the answer from the *same* stdin. A second,
short-lived thread per call, the ticker, only bumps Wasmtime's epoch.

What is hard about it: two conversations share one pipe; a failure may surface in
the middle of a guest export that carries on regardless; the ticker races with
the end of its call; a store may be unusable although its call returned a
recoverable error; the launcher may hang up, or the writer die, at any point;
several launcher threads share the provider; two codecs and three lists of
constraints must agree. `PROJECT.json` lists each hazard at its line with the
property that covers it.

## Modules

| module | models | kind |
|---|---|---|
| `PayloadLifecycle` | what the Host promises about one payload | abstract specification |
| `ProcessServer` | command loop, callback bridge, engine adapter | state machine, implements `PayloadLifecycle` |
| `WasmPlugin` | one store, its calls and its tickers | state machine with threads |
| `RuntimeProvider` | Java provider and host plugin | state machine with threads and monitors |
| `FrameStream` | `read_frame` / `write_frame` over a pipe | state machine, two processes |
| `RuntimeMessage` | messages: construction, sending, reading | data path |
| `BridgeValue` | the value codec | data path; each descent an iterated step over its stack of calls |
| `KebabScan`, `MCKebabScan` | `require_code`, `is_valid_type_name` | loop, byte by byte |
| `RuntimeHost` | `ProcessServer` and a launcher session on both pipes | composition |
| `LaunchHook` | the example guest's own state under `PayloadLifecycle` | composition |
| `HookEvent`, `MCBridgeValue` | the example's `invoke`, over `BridgeValue`; the values and events tried | data path |
| `PayloadDescriptor`, `MCPayloadDescriptor` | descriptor, path policy, second read; the package tried | state machine over a changing file system |
| `…Proofs` | theorems about the module of that name; `RuntimeHostProofs` has those about `ProcessServer`, `RuntimeMessageProofs` those about `KebabScan`, too | TLAPS |

### ProcessServer

`pc` is where the serving thread is; one action per command of `handle()`, per
way a guest export ends, per outcome of a callback, and for each step of
`serve()` after `handle()` (poison check, reply, stop) and of `close_on_eof()`.
`state`, `plugin`, `poison`, `nextId`, `cb` are the fields of the code. The
launcher is the environment: any decodable frame, of either id parity, or
rubbish, at any read; it may hang up or stop reading. The guest is arbitrary.
Errors are reduced to what the code distinguishes: `is_fatal`, and whether a
reply can be built and framed. `owed`, `lost`, `told` are history variables.
Lifecycle commands are tied to `WasmPlugin` by the meaning of its results:
"broken" is `poisoned`, and a trap is fatal unless it is `invalid-value`.

### WasmPlugin

One action for each step of `call()` (refuse, arm and start, guest, cancel, join)
and of the ticker (`recv_timeout` returns, expires, epoch bump). Time is not
counted: a ticker that is not cancelled may expire at any moment. Fuel is counted
in guest steps. Start code runs before the first call as `instantiate` does it,
with the bridge shut and no ticker.

### RuntimeProvider

A thread's `call` says which method it is in and how far. `synchronized` is
`owner[p]`, taken in `Enter` and released in `Return`; `onUnload` holds the
plugin's monitor across the provider's `close()`. A session call may succeed,
fail, or (unless it has a deadline or the supervisor bounds it) never return.
Children may die at any time. From `RuntimeProcessSession` the model assumes what
the code relies on: `start()` leaves no process behind when it fails,
`shutdown()` returns only when the process is gone, `close()` ends it and does
not throw. `getManifest()` reads without the monitor and is left out, as are
`descriptor()` and `healthCheck()`, which read constants.

### FrameStream

A byte is its position in the stream; the reader does not know where frames
begin. `frames` is what the writer began, `Announced` and `Decodes` say what
bytes can mean: at a frame's own header its length, at any other place anything.
So a reader that lost its place could return anything at all, which is what
`InOrder` excludes. A peer may announce any length and send a body that does not
decode (`WriteJunk`).

### RuntimeMessage, BridgeValue, KebabScan

`RuntimeMessage` keeps the field tables and checks of `validate`, `from_value`
and `exact_map`, over classes of texts ("blank", "kebab", "long", …) and small
numbers with a scaled signed range; the peer may change, drop or add any one
entry. `BridgeValue` has both recursive descents with every marker, counter and
limit; an atom of the wire is a marker, a content byte or a whole number. A descent
keeps its stack of calls, a frame for every call of `value()` that has begun and
not ended: `EncodeStep` and `DecodeStep` begin one (what the code does up to the
first call of itself) or end one, and the frame at the bottom stands for the
caller. `Steps` of them are enough, because a call counts a value and there are
`MaxValues` at most; a descent that gave up stays as it is. `Values` is closed under
the parts of a value (`Values \subseteq Nodes(Values)`), which is how a set of
values nested to any depth is a constant without a recursive definition.
`KebabScan` is the loop with its one flag; which separators it knows and when it
looks at the length are chosen at the beginning, because the two functions differ
in exactly those.

### RuntimeHost

`RuntimeHost` extends `ProcessServer`: each of its actions is one of the Host's
together with what it does to the two pipes, or one of the session's. `Serve` and
`TakeAnswer` take the *next* frame, whatever it is, where `ProcessServer` lets the
launcher choose one; `HostInside` in `RuntimeHostProofs` proves that the Host of
the composition is that of `ProcessServer`, so all that is proved there holds
here. `serving` is `serve()`'s local `request_id`. The session numbers commands
1, 3, 5, …, answers each callback with one frame of its kind, and may close at any
time. It sends up to `Window` commands before the first reply: one under the
provider's monitor; more when a deadline gave a command up and the provider, which
keeps the session, sends the next. `belief` is what the replies have told it.
A deadline itself is not modelled, only what it leaves: a command sent while the
reply to the last is still to come.

### LaunchHook, HookEvent

`LaunchHook` puts the example's static `STATE` beside the Host's promise
(`PayloadLifecycle`, which `ProcessServer` is proved to implement) instead of
beside `ProcessServer` itself: the guest sees no more of the Host than that. An
export moves the state and then returns, fails or traps, and may trap before or
after the move. `HookEvent` is `invoke()` as a function of values, with
`BridgeValue`'s encoder and decoder on both ways; the names of the contract are
one content byte each, and the limits scaled as there.

### PayloadDescriptor

One step per look at the file system: for either name the three of
`resolve_resource` (`canonicalize` of the root and of the candidate, with the
containment check, and `is_file`), then `metadata`, `read`, the first and the second
`load_component`. `pc` names the next look; a change of the package fits between any
two. The second load fails with a code that `runtime_error` picks by the words of the
failure, which may quote the path: four of the codes are fatal ("runtime-failure"
stands for them), "invalid-value" is not, and which it is stays open. A component that
does not fit the world is refused as "wit-mismatch". `create_engine` has a constant
configuration and is taken not to fail. A path is a sequence of names; `Walk` looks up one after the other and follows links
as `canonicalize` does, at most `MaxHops` of them and `MaxNames` names in all, and
`NoPath` stands for its errors. `Plain` describes the files nobody could object to:
ordinary names, no more than the system looks up, directories down to a file. Checks
on the text are kept where they differ from what the file system sees (`.`, `..`,
doubled slashes, a scheme, a backslash). A file is there or is not: failing I/O on
a file that exists, and Windows paths, are left out.

## Runs

| run | module | bounds | shows |
|---|---|---|---|
| `server` | ProcessServer | ids up to 7 | no command is swallowed unnoticed, poison silences the Host, callback ids stay fresh, a clean exit releases the payload, `PayloadLifecycle` is implemented; a hang-up ends the process, commands are settled, a failed unload leaves a Host that only refuses |
| `server_report` | ProcessServer | ids up to 3 | finding, below |
| `plugin` | WasmPlugin | 3 calls, 2 fuel | own limits only, bridge only inside calls, a trap is final, calls end |
| `plugin_timeout` | WasmPlugin | 1 call, 1 fuel | finding, below |
| `provider` | RuntimeProvider | 2 threads, 2 providers, 2 sessions, 5 calls | exclusive sessions, no orphans, unload and close end what they should, calls return |
| `frames` | FrameStream | 3 frames of 0..3 bytes, pipe of 3 bytes | the reader keeps its place, `None` only at a clean end, only junk is refused, frames arrive |
| `messages` | RuntimeMessage | signed range up to 2, every kind | sender and receiver accept the same messages |
| `values` | MCBridgeValue | 2024 values and events, with what is inside of them; every single edit of those that are no event | round trip, canonicality, limits; the example guest replaces one thing, leaves other modes alone and refuses only a reply that has grown too large |
| `names` | MCKebabScan | every text of up to 6 bytes, limit 5, both loops | the loops accept exactly the names they should |
| `host` | RuntimeHost | ids up to 4, 6 commands, 2 under way | replies match commands in order, both ends agree on the payload when nothing is under way, no answer strays into `serve()`, only an overtaking command or a closed session breaks a callback, and with a session that answers its callbacks every command is replied to or the process ends |
| `hook_state` | LaunchHook | none needed | the Host never drives the example into `invalid-state`, and both keep the same state |
| `descriptor` | MCPayloadDescriptor | 15 ways of naming each file, a link to the root, one out of it, one loop, one change | the second read can be fatal only after a change, what runs lies in the package, plain packages load |

Types (`TypeOK`, `JointTypeOK`, `HookTypeOK`) and a few inner invariants
(`JoinedBetweenCalls`, `StateMatchesPlugin`) are not repeated here: the theorems below
hold them for every value of the constants.

Why the bounds are enough. *Ids up to 7* give a bridge three callbacks before the
range is exceeded and let the counter wrap to 0; the arithmetic is the same at
any size and proved for all. *Three calls* give a late ticker a call in the
middle with one before and one behind it. *Two providers* cover unload and
reload of the plugin, with an old provider still in a thread's hands; *five
calls* allow load, load, onLoad, unload and onUnload to overlap. A *pipe of three
bytes* is smaller than a header, so every read and write is cut somewhere. *Six
commands* are hello, load, enable, invoke, disable and shutdown, and *two under
way* put a command where the answer to a callback is expected. *One change* of a
package, at any moment, separates any two of the looks at it. The *codec's limits*
are scaled to between 2 and 18, wide enough for a launch event and its reply, and
every one is met and exceeded by some value. `CHECK_DEADLOCK FALSE` stands only
where the run ends by itself: the callers have made their calls, the stream is
read, the value or message has arrived, the scan has decided, the load is done.

### Fairness

- *Serving thread* (`ProcessServer`): weak fairness of its own steps. Nothing is
  assumed of a read while stdin is open; at the end of stdin a read returns. A
  write to stdout is taken not to block forever. `CommandSettled` says so by its
  hypothesis: a command is settled unless a callback waits forever.
- *Guest exports end*: strong fairness of their end, because the export is left
  and re-entered through callbacks. `WasmPlugin.CallEnds` justifies it: the fuel
  is finite, running out of it is not the guest's choice.
- *Ticker, join* (`WasmPlugin`): weak fairness, they are plain threads. Nothing
  is assumed of imports (`HostSpec` in both runs): `CallEnds` says that a call
  ends unless it is blocked in an import for good.
- *Both programs* (`RuntimeHost`): a frame that has arrived is read, the Host
  goes on, the session answers the callbacks it gets, and exports end as above.
  The session need neither send nor close. With it `RequestSettled` has no
  hypothesis left where `CommandSettled` has one: a session that answers is what
  discharges it.
- *Launcher threads* (`RuntimeProvider`): a thread inside a method goes on. Java
  monitors are not fair; a thread at the entry gets in because `CallLimit` bounds
  its competitors, and the property says nothing of endless competition. Calls
  into a child end because `invoke` and `hook` carry a deadline and the other
  requests are bounded by the supervisor (external).
- *Pipe* (`FrameStream`): the reader reads on, and the writer writes what it
  began unless it closes.

## Proofs

| module | theorems | inductive invariant |
|---|---|---|
| `WasmPluginProofs` | type, `OwnLimitsOnly`, `JoinedBetweenCalls`, `BridgeOnlyInCall`, `TrappedNeverReentered` | `Joined` (every earlier ticker has ended), hence `Clock` (the epoch is one below the deadline until this call's ticker bumps it), `Budget`, `Authority`, `Damage` |
| `RuntimeProviderProofs` | type, `SessionExclusive`, `NoOrphan`, `UnloadReleases`, `CloseEndsAll` | a session in a thread's hands belongs to the provider whose monitor the thread owns (`Monitor`, `Homes`, `Hands`) |
| `FrameStreamProofs` | type, `InOrder`, `CleanEofOnly`, `RefusesOnlyBad` | frames lie end to end (`Layout`), the writer is inside the last (`Writing`), the reader inside the one after those it returned (`Place`) |
| `RuntimeMessageProofs`: the loop | type, `AcceptsExactlyKebab` | the flag says what the last byte was, the bytes seen so far are a prefix of a name |
| `RuntimeHostProofs`: the Host | type, `EveryCommandAnswered`, `StateMatchesPlugin`, `CleanExitReleases`, `PoisonNeverAnswers`, `CallbackIdsFresh`, `WedgedOnlyRefuses`, `Promise` (refinement) | `Control` (where the thread may be), `Connection` (a consumed frame poisons at once, poison is never cleared, the loop reads on only without it), `Ownership` (state and plugin), `Ids`, and `Belief` (what the launcher was told is where the payload is) for the refinement |
| `RuntimeHostProofs`: Host and session | `HostInside` (the composition's Host is `ProcessServer`), type, `NoStrayAnswer`, `OnlyOvertakingBreaks`, `RepliesInOrder`, `BeliefAgrees`, `Promise` of the composition | `Token`: while nothing is poisoned, at most one frame that is no command exists, and it is where the Host's `pc` says; `Calm`: without overtaking and hanging up one frame in all is under way, from the session to the Host and back; `Order`: the commands without a reply stand in one line, those answered in the pipe up, the one `serve()` works on, those in the pipe down; `Confirms` and `Books`: what was confirmed last is the Host's state, and the session's numbers |
| `LaunchHookProofs` | type, `StatesAgree` | `PhaseFits` (which phase an export runs in), `StepFits` (the guest's state before and after its move) |
| `RuntimeMessageProofs`: messages | `Delivered`, `OnlyMessages` | `Travels`: what is on the wire is a map of tagged values whatever the peer edits; with it one lemma per direction (`RoundTrip`, `Exact`), each lifted from one kind of field |
| `PayloadDescriptorProofs` | `FatalOnlyAfterChange`, `RunsFromPackage`, `LoadsPlainPackages`, `Idempotent` (a canonical path leads to itself) | `Located` (the path in hand is canonical and inside the package, and was seen to be a component before the second load), `Course` (a plain package is found where its names say), both while nothing has changed |
| `BridgeValueProofs` | `RoundTrip`, `Canonical`, `RefusesOutOfLimits`, `ReplacesOneThing`, `RefusesOnlyTheOversized` | `Sent`: what is on the wire undamaged is the encoding of the value, and decodes to it; it is kept by `Arrives`, below. `OnTheWire`: what was accepted is encoded as it stood on the wire, kept by `WritesItAgain`, below. `Weighed`: a value is refused when its encoding fails, which `EncodesWithin` says when that is. `Answered`, `Reckoned`: the reply to a launch is made of the value that was sent, for that is what arrived |

Assumptions on constants: `IdLimitAssumption` (a range of at least 3, so that a
first callback id exists), `PluginAssumption` and `CallersAssumption` (bounds are
naturals, the null value is nobody), `SizesAssumption` (a frame and the pipe hold
at least one byte), `ScanAssumption`, `LimitsAssumption` (limits are
naturals, and metadata has room for the code of an error, whose texts are constants
of the code), `RoomAssumption` (the example's smallest reply, a map of two entries
with three bytes of content, as every name is one byte here, is within the limits;
the code's are orders of magnitude above it), `IdAssumption` (the signed
range holds a positive id), `SessionAssumption` (a window of at least one command),
`DescriptorAssumption`. Nothing else is assumed; `PayloadLifecycle` and
`LaunchHook` are specifications without constants.

None of the invariants above is inductive alone. For instance `SessionExclusive`
needs that two threads with the same session are inside the same provider, which
needs `Homes` (a session never moves), which needs that only the monitor's owner
changes the map. `WedgedOnlyRefuses` is a `[]` inside a `[]`, proved from the fact
that no step leaves the wedged states except the end of the process.
`RepliesInOrder` needs all of `Order`: that a reply matches the oldest open command
follows only from where every command between the two ends is, and the line is
kept, not lost, when a callback takes a command for its answer, because from then
on the connection is poisoned and nothing is replied.

What a walk over a path computes is proved by induction over the names looked up.
The library's induction theorems take a predicate as their parameter, which the
provers cannot instantiate, so `PayloadDescriptorProofs` has the principle for sets
of numbers (`Induction`, from the least element of a set) and the existence of an
iterated function (`Iterate`); `Walking` is the only lemma that opens the recursive
definition.

`BridgeValueProofs` goes the same way. `Arrives` runs the two descents side by side,
the decoder on the wire the encoder leaves in the end. `Lockstep` relates them after
n steps of each: the decoder stands where the encoder's output ends, has counted the
same content and the same values, and each of its frames is the `Mirror` of the
encoder's, with the keys and parts that were put so far. `KindTaken` says for every
kind of value that what `PutKind` writes is what `GetKind` reads back, and that it
is refused for the same reasons; `LockstepBegins` and `LockstepEnds` lift that to a
call that begins and a call that ends, and `Induction` to all steps. That the wire
of n steps is a prefix of the wire in the end (`EncodesOn`) is what lets the decoder
read the finished wire from the first step on. `Encodes` bounds the steps by what
was counted, so `Steps` of them finish both.

`Canonical` is the other direction, `WritesItAgain`: the wire is any, and all that is
known is that the decoder accepts it. Forward, `Tracing` follows the decoder and
collects a set `U` of values that holds all it builds, together with `KindFound`: where
the decoder goes on, what it has read is what `PutKind` would write for what it has
found. What the encoder is inside of at each of its steps is known only at the end, when
the value is built, so the encoder's frames are found backward: `BackEnds` and
`BackBegins` take the frames behind a step and the decoder's stack before it, and give
the frames before it, and say that an encoder with these frames, in `Lockstep` with the
decoder and with a prefix of the wire written, makes the step and writes what is there
(`KeyWritten`, `ValueWritten`). At the first step the frames are those of a new encoder
of the value (`BackAtFirst`), so it writes the whole wire and nothing else. The
wire is any sequence of atoms: the lemma does not care how many edits it took.

`RefusesOutOfLimits` compares running counts with a tree. A value's `Places` are paths,
and `EncodesWithin` keeps beside the encoder the set of those it has been at, and the
path of each value it is inside of. `OnTheWay` says which those are: below a value that
has ended all of them, below one it is inside of those before the part whose turn it is
(`SoFar`). A call that begins is about a place that is not yet in the set (`NewPlaceIs`);
so the values counted are as many as there are places in the set. The content counted is
that of `BytesOf` the set, where the bytes of a key belong to the place of the value
behind it (`Owner`), because the call that counts them is the one about that value
(`BytesCounted`, `BytesAdded`). `StepFits` gives the exact condition under which a step
does not fail (`Admitted`); a step that does fail shows a place too deep, a value or key
unsound, or one place or byte too many, and that is out of a limit on the whole value
because the set is part of the whole (`NotAdmitted`). In the end nothing is left to visit,
the set is all there is (`ClosedIs`), and each place was found allowed (`FoundWithin`).
That there are finitely many places, whatever the value, is `PlacesFinite`.

`ReplacesOneThing` is `Arrives` again, for the reply. That the replacement is a value
at all (`ReplaceIs`), and differs from the event's data in the one argument
(`PushesOne`), comes from what an update of one field of a map leaves alone
(`WithMap`), three levels down; that "unchanged" is never refused, from a run of the
encoder in seven steps (`UnchangedFits`), where `Arrives` needs no limit and this
needs `RoomAssumption`. `RefusesOnlyTheOversized` is `EncodesWithin` for the
replacement, which is a value like any other (`ReplacementIs`).

Every safety invariant and every action property of the passing runs is proved. Only
model-checked: the liveness properties (`HangUpEndsProcess`, `CommandSettled`,
`CallEnds`, `CallsReturn`, `FrameArrives`, `RequestSettled`), because the prover has
no support for fairness; and the two claims of the code that `server_report` and
`plugin_timeout` find violated, which have nothing to prove.

## Findings

1. `server_report`. In the run a guest is loaded and answers `enable` with an error of
   more than 4096 bytes. `require_guest` passes the text on, it makes no valid message,
   and the process exits with the payload alive instead of reporting the failure, while
   `error.rs:6` calls the type "One bounded failure reported by the Wasm process Host."
   (The texts of `serde_json`, `descriptor.rs:41`, and of a component that does not
   link, `guest_engine.rs:32`, take the same way before any guest runs; the property
   speaks of a live payload and leaves them out.)
2. `plugin_timeout`. `CALL_TIMEOUT` ("Maximum native duration of one lifecycle
   call.") does not bound a call that is inside an import: the epoch is looked at
   by guest code only.

Consequences of the code that no line of it contradicts are kept as hazards, not
findings. After a failed `unload` the process lives on and answers every command with
an error until stdin ends (`WedgedOnlyRefuses`). The others have no property, because
nothing in the code prevents them: `close()` of a provider leaves no mark, so a
`loadPayload` that enters the monitor later starts a process in a closed provider; a
failed `close()` in `onUnload` leaves a provider nobody closes again (both are reached
by the `provider` run, where such processes count as owned); a value of nearly 16 MiB
can be decoded but not framed. And while a callback waits on an open stdin nothing
bounds the wait: `CommandSettled` excludes the case by its hypothesis, finding 2 is
about it, and `HangUpEndsProcess` is the way out.

## Not modelled

- `wasi.rs`, generated bindings, WIT, packaging tools and workflows: configuration,
  generated code or scripts. `wasi.rs` is a constant configuration. Its two
  diagnostics pipes hold 64 KiB each and are never drained; what a guest sees when
  they are full is Wasmtime's, and how its export then ends is among the ends every
  model allows. Of the example, `bindings.rs` is generated.
- The guest SDK's `lib.rs`: one comparison of names beside the codec.
- Wasmtime, `RuntimeProcessSession`, the launcher: not in this repository; what
  is assumed of them is stated above.

## Plan

What could still be added, in this order:

1. *Provider and Host.* `RuntimeProvider`'s sessions replaced by `RuntimeHost`'s,
   with the supervisor's kill: today the provider's model assumes of a session what
   `RuntimeHost` shows of one.
2. *Proofs.* Of what the runs check, liveness is all that is left. `EncodesWithin` could
   carry one more property, a bound on the length of the wire by the limits alone.
3. *Windows paths* in `PayloadDescriptor`, where a backslash separates and a drive
   prefixes.
