------------------------------ MODULE WasmPlugin ------------------------------
(***************************************************************************)
(* One payload in its Wasmtime store: `WasmPlugin`                         *)
(* (crates/aura-wasm-engine/src/plugin.rs) and the bridge imports of       *)
(* `HostState` (bridge.rs).  A lifecycle call runs the guest on the        *)
(* serving thread under a fresh fuel budget, and a ticker thread of its    *)
(* own bumps the engine's epoch when the call has run for CALL_TIMEOUT.    *)
(* Each read of the channel, each bump and the join is a step: the ticker  *)
(* races with the end of the call it watches.                              *)
(*                                                                         *)
(* Time is not counted: a ticker that has not been cancelled may expire.   *)
(***************************************************************************)
EXTENDS Naturals

CONSTANTS
  MaxCalls,      \* bound: lifecycle calls made on one plugin
  FuelPerCall    \* FUEL_PER_CALL, in guest steps

ASSUME PluginAssumption == MaxCalls \in Nat /\ FuelPerCall \in Nat

VARIABLES
  pc,         \* "idle", "guest", "bridge", "wasi", "returned", "joining", "dropped"
  call,       \* calls begun so far; 0 while the component is instantiated
  poisoned,   \* WasmPlugin.poisoned
  active,     \* HostState.callback_active
  fuel,       \* fuel left in the store
  epoch,      \* the engine's epoch
  deadline,   \* the epoch at which the store traps
  ticker,     \* the ticker thread of each call
  cancelled,  \* the calls whose ticker has been sent its cancellation
  result,     \* how the guest's last run ended, or how a call was refused
  spent,      \* history: steps the guest made in this call
  ticked,     \* history: the calls whose ticker bumped the epoch
  trapped     \* history: the guest trapped at some time

vars == <<pc, call, poisoned, active, fuel, epoch, deadline, ticker, cancelled,
          result, spent, ticked, trapped>>
threads == <<epoch, ticker, cancelled, ticked>>

Calls == 1..MaxCalls

TypeOK ==
  /\ pc \in {"idle", "guest", "bridge", "wasi", "returned", "joining", "dropped"}
  /\ call \in 0..MaxCalls
  /\ poisoned \in BOOLEAN /\ active \in BOOLEAN /\ trapped \in BOOLEAN
  /\ fuel \in 0..FuelPerCall /\ spent \in 0..FuelPerCall
  /\ epoch \in 0..MaxCalls
  /\ deadline \in 1..(MaxCalls + 1)
  /\ ticker \in [Calls -> {"unborn", "waiting", "expired", "done"}]
  /\ cancelled \subseteq Calls /\ ticked \subseteq Calls
  /\ result \in {"none", "ok", "deadline", "fuel", "trap", "poisoned", "invalid-value"}

(* create_store() and instantiate(): the component's start code runs with  *)
(* fuel and a deadline but without a ticker, and with the bridge shut.     *)
\* Mutant: instantiation with the bridge authorised.
BridgeOpen == TRUE
BridgeShut == FALSE

Init ==
  /\ pc = "guest" /\ call = 0
  /\ poisoned = FALSE /\ trapped = FALSE
  /\ active = BridgeShut
  /\ fuel = FuelPerCall /\ spent = 0
  /\ epoch = 0 /\ deadline = 1
  /\ ticker = [i \in Calls |-> "unborn"]
  /\ cancelled = {} /\ ticked = {}
  /\ result = "none"

-----------------------------------------------------------------------------
(* The guest, on the serving thread.                                       *)

Executing == pc \in {"guest", "bridge", "wasi"}

\* Mutant: an engine without fuel.
BurnsNothing == fuel > 0 /\ UNCHANGED <<fuel, spent>>
Burn == /\ fuel > 0
        /\ fuel' = fuel - 1
        /\ spent' = spent + 1

GuestRuns ==
  /\ pc = "guest" /\ Burn
  /\ UNCHANGED <<pc, call, poisoned, active, deadline, result, trapped>>
  /\ UNCHANGED threads

(* A WASI import may block; a bridge import that is not authorized comes   *)
(* back at once with "bridge-denied".                                      *)
CallsImport(kind) ==
  /\ pc = "guest" /\ Burn
  /\ pc' = IF kind = "bridge" /\ ~active THEN "guest" ELSE kind
  /\ UNCHANGED <<call, poisoned, active, deadline, result, trapped>>
  /\ UNCHANGED threads

ImportReturns ==
  /\ pc \in {"bridge", "wasi"}
  /\ pc' = "guest"
  /\ UNCHANGED <<call, poisoned, active, fuel, deadline, result, spent, trapped>>
  /\ UNCHANGED threads

Ends(how) ==
  /\ pc' = "returned"
  /\ result' = how
  /\ trapped' = (trapped \/ how # "ok")
  /\ UNCHANGED <<call, poisoned, active, fuel, deadline, spent>>
  /\ UNCHANGED threads

(* The export returns, with its own Ok or Err.                             *)
GuestReturns == pc = "guest" /\ Ends("ok")

(* The epoch is compared with the deadline when the guest loops or calls.  *)
OutOfTime == pc = "guest" /\ epoch >= deadline /\ Ends("deadline")
OutOfFuel == pc = "guest" /\ fuel = 0 /\ Ends("fuel")

(* Any other trap: a resource limit, unreachable code, or an import that   *)
(* finds bytes which are no Bridge Value.                                  *)
OtherTrap == pc \in {"guest", "bridge", "wasi"} /\ Ends("trap")

-----------------------------------------------------------------------------
(* call(): before and after the guest.                                     *)

FreshFuel == FuelPerCall

Begin ==
  /\ pc = "idle" /\ ~poisoned /\ call < MaxCalls
  /\ pc' = "guest"
  /\ call' = call + 1
  /\ fuel' = FreshFuel /\ spent' = 0
  /\ deadline' = epoch + 1
  /\ active' = TRUE
  /\ ticker' = [ticker EXCEPT ![call + 1] = "waiting"]
  /\ result' = "none"
  /\ UNCHANGED <<poisoned, epoch, cancelled, ticked, trapped>>

(* A poisoned store refuses the call.  invoke() decodes the input before   *)
(* call() and the output after it: bytes that are no Bridge Value fail the *)
(* call and poison nothing.                                                *)
Refuse ==
  /\ pc = "idle"
  /\ \/ poisoned /\ result' = "poisoned"
     \/ result' = "invalid-value"
  /\ UNCHANGED <<pc, call, poisoned, active, fuel, deadline, spent, trapped>>
  /\ UNCHANGED threads

(* callback_active is cleared, then the ticker is sent its cancellation.   *)
Cancel ==
  /\ pc = "returned" /\ call > 0
  /\ pc' = "joining"
  /\ active' = FALSE
  /\ cancelled' = cancelled \cup {call}
  /\ UNCHANGED <<call, poisoned, fuel, epoch, deadline, ticker, result, spent,
                 ticked, trapped>>

\* Mutant: a ticker that is not joined.
JoinedLater == TRUE
TickerEnded == ticker[call] = "done"

\* Mutant: a trap that poisons nothing.
KeepsGoing == poisoned
PoisonedNow == poisoned \/ result # "ok"

Join ==
  /\ pc = "joining" /\ TickerEnded
  /\ pc' = "idle"
  /\ poisoned' = PoisonedNow
  /\ UNCHANGED <<call, active, fuel, deadline, result, spent, trapped>>
  /\ UNCHANGED threads

(* instantiate() returns: the plugin exists only if the start code ended.  *)
Instantiated ==
  /\ pc = "returned" /\ call = 0
  /\ pc' = IF result = "ok" THEN "idle" ELSE "dropped"
  /\ UNCHANGED <<call, poisoned, active, fuel, deadline, result, spent, trapped>>
  /\ UNCHANGED threads

(* The owner drops the plugin: a failed load(), or after unload().         *)
Drop ==
  /\ pc = "idle"
  /\ pc' = "dropped"
  /\ UNCHANGED <<call, poisoned, active, fuel, deadline, result, spent, trapped>>
  /\ UNCHANGED threads

-----------------------------------------------------------------------------
(* The ticker of call i: recv_timeout() and increment_epoch().             *)

TickerCancelled(i) ==
  /\ ticker[i] = "waiting" /\ i \in cancelled
  /\ ticker' = [ticker EXCEPT ![i] = "done"]
  /\ UNCHANGED <<pc, call, poisoned, active, fuel, epoch, deadline, cancelled,
                 result, spent, ticked, trapped>>

TickerExpires(i) ==
  /\ ticker[i] = "waiting" /\ i \notin cancelled
  /\ ticker' = [ticker EXCEPT ![i] = "expired"]
  /\ UNCHANGED <<pc, call, poisoned, active, fuel, epoch, deadline, cancelled,
                 result, spent, ticked, trapped>>

Tick(i) ==
  /\ ticker[i] = "expired"
  /\ ticker' = [ticker EXCEPT ![i] = "done"]
  /\ epoch' = epoch + 1
  /\ ticked' = ticked \cup {i}
  /\ UNCHANGED <<pc, call, poisoned, active, fuel, deadline, cancelled, result,
                 spent, trapped>>

Terminated == pc = "dropped" /\ UNCHANGED vars

Next ==
  \/ GuestRuns \/ ImportReturns
  \/ \E kind \in {"bridge", "wasi"} : CallsImport(kind)
  \/ GuestReturns \/ OutOfTime \/ OutOfFuel \/ OtherTrap
  \/ Begin \/ Refuse \/ Cancel \/ Join \/ Instantiated \/ Drop
  \/ \E i \in Calls : TickerCancelled(i) \/ TickerExpires(i) \/ Tick(i)
  \/ Terminated

(* The host's own threads run, and Wasmtime runs the guest or traps it.    *)
Guest == \/ GuestRuns \/ GuestReturns \/ OutOfTime \/ OutOfFuel \/ OtherTrap
         \/ \E kind \in {"bridge", "wasi"} : CallsImport(kind)
HostFairness ==
  /\ WF_vars(pc = "guest" /\ Guest)
  /\ WF_vars(Cancel \/ Join \/ Instantiated)
  /\ \A i \in Calls : WF_vars(TickerCancelled(i) \/ TickerExpires(i) \/ Tick(i))

Spec == Init /\ [][Next]_vars
HostSpec == Spec /\ HostFairness

-----------------------------------------------------------------------------
(* Properties.                                                             *)

(* A call is stopped by its own limits only: a deadline trap means that    *)
(* this call's ticker fired, a fuel trap that this call used the whole     *)
(* budget.  A ticker that fires while its call is ending hits no later one *)
(* (ticker.join() in call()).                                              *)
OwnLimitsOnly ==
  /\ result = "deadline" => call \in ticked
  /\ result = "fuel" => spent = FuelPerCall

(* No ticker thread outlives its call.                                     *)
JoinedBetweenCalls ==
  pc \in {"idle", "dropped"} => \A i \in Calls : ticker[i] \in {"unborn", "done"}

(* A guest that trapped once is never entered again, although the caller   *)
(* may go on calling (WasmPlugin.poisoned).                                *)
TrappedNeverReentered == [][trapped => ~Executing']_vars

(* The launcher is called back only from inside a lifecycle call that is   *)
(* not over: never by the start code of the component                      *)
(* (HostState.callback_active).                                            *)
BridgeOnlyInCall ==
  pc = "bridge" => active /\ call > 0 /\ call \notin cancelled

(* Unless an import blocks for good, every run of the guest ends and the   *)
(* call returns: its fuel is finite and the ticker does end.  This is what *)
(* ProcessServer assumes of GuestEnds: that a guest which gets to run      *)
(* again and again comes back (FUEL_PER_CALL, ticker.join() in call()).    *)
Blocked == pc \in {"bridge", "wasi"}
CallEnds == <>[]Blocked \/ (Executing ~> pc \in {"idle", "dropped"})

(* "Maximum native duration of one lifecycle call" (CALL_TIMEOUT,          *)
(* config.rs): a call whose timeout expired ends, whatever it is doing.    *)
TimeoutBoundsCall == call \in ticked ~> pc \in {"idle", "dropped"}
===============================================================================
