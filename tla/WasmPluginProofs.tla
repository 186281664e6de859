--------------------------- MODULE WasmPluginProofs ---------------------------
(***************************************************************************)
(* The safety of WasmPlugin for any number of calls and any fuel budget.   *)
(*                                                                         *)
(* Inv says why a late ticker is harmless: every earlier ticker has ended  *)
(* before a call begins (Joined), so the epoch is one below the deadline   *)
(* until this call's own ticker bumps it (Clock).                          *)
(***************************************************************************)
EXTENDS WasmPlugin, TLAPS

Joined ==
  /\ \A i \in Calls : /\ i > call => ticker[i] = "unborn"
                      /\ i < call => ticker[i] = "done"
                      /\ i = call => ticker[i] # "unborn"
                      /\ i \in ticked => ticker[i] = "done"
                      /\ i \in cancelled => i <= call
  /\ pc \in {"idle", "dropped"} /\ call > 0 => ticker[call] = "done"
  /\ pc \in {"guest", "bridge", "wasi", "returned"} => call \notin cancelled

Clock ==
  /\ deadline = IF call \in ticked THEN epoch ELSE epoch + 1
  /\ epoch <= call
  /\ call > 0 /\ call \notin ticked => epoch < call

Budget ==
  /\ fuel + spent = FuelPerCall
  /\ result = "deadline" => call \in ticked
  /\ result = "fuel" => fuel = 0

Authority ==
  /\ active => pc \in {"guest", "bridge", "wasi", "returned"} /\ call > 0
  /\ pc = "bridge" => active

Damage ==
  /\ Executing => ~trapped
  /\ poisoned => pc \in {"idle", "dropped"}
  /\ pc \in {"returned", "joining"} /\ trapped => result # "ok"
  /\ pc \in {"idle"} /\ trapped => poisoned

Inv == TypeOK /\ Joined /\ Clock /\ Budget /\ Authority /\ Damage
-----------------------------------------------------------------------------
LEMMA InvInit == Init => Inv
  <1> SUFFICES ASSUME Init PROVE Inv
    OBVIOUS
  <1> USE PluginAssumption DEF Init, BridgeShut, Calls
  <1>1. TypeOK
    <2>1. ticker \in [Calls -> {"unborn", "waiting", "expired", "done"}]
      OBVIOUS
    <2>2. epoch \in 0..MaxCalls /\ deadline \in 1..(MaxCalls + 1) /\ call \in 0..MaxCalls
      OBVIOUS
    <2>3. fuel \in 0..FuelPerCall /\ spent \in 0..FuelPerCall
      OBVIOUS
    <2> QED
      BY <2>1, <2>2, <2>3 DEF TypeOK
  <1>2. Joined
    BY DEF Joined
  <1>3. Clock /\ Budget
    BY DEF Clock, Budget
  <1>4. Authority /\ Damage
    BY DEF Authority, Damage, Executing
  <1> QED
    BY <1>1, <1>2, <1>3, <1>4 DEF Inv

LEMMA InvStep == Inv /\ [Next]_vars => Inv'
  <1> SUFFICES ASSUME Inv, [Next]_vars PROVE Inv'
    OBVIOUS
  <1> USE PluginAssumption DEF Inv, TypeOK, Joined, Clock, Budget, Authority, Damage, Calls, Executing
  <1>1. CASE GuestRuns
    BY <1>1 DEF GuestRuns, Burn, threads
  <1>2. CASE \E kind \in {"bridge", "wasi"} : CallsImport(kind)
    BY <1>2 DEF CallsImport, Burn, threads
  <1>3. CASE ImportReturns
    BY <1>3 DEF ImportReturns, threads
  <1>4. CASE GuestReturns \/ OutOfTime \/ OutOfFuel \/ OtherTrap
    <2>1. TypeOK'
      BY <1>4 DEF GuestReturns, OutOfTime, OutOfFuel, OtherTrap, Ends, threads
    <2>2. Joined'
      BY <1>4 DEF GuestReturns, OutOfTime, OutOfFuel, OtherTrap, Ends, threads
    <2>3. Clock'
      BY <1>4 DEF GuestReturns, OutOfTime, OutOfFuel, OtherTrap, Ends, threads
    <2>4. Budget'
      BY <1>4 DEF GuestReturns, OutOfTime, OutOfFuel, OtherTrap, Ends, threads
    <2>5. Authority' /\ Damage'
      BY <1>4 DEF GuestReturns, OutOfTime, OutOfFuel, OtherTrap, Ends, threads
    <2> QED
      BY <2>1, <2>2, <2>3, <2>4, <2>5
  <1>5. CASE Begin
    BY <1>5 DEF Begin, FreshFuel
  <1>6. CASE Refuse
    BY <1>6 DEF Refuse, threads
  <1>7. CASE Cancel
    <2>1. TypeOK'
      <3>1. cancelled' \subseteq Calls
        BY <1>7 DEF Cancel
      <3>2. UNCHANGED <<call, poisoned, fuel, epoch, deadline, ticker, result, spent,
                        ticked, trapped>>
        BY <1>7 DEF Cancel
      <3>3. pc' = "joining" /\ active' = FALSE
        BY <1>7 DEF Cancel
      <3> QED
        BY <3>1, <3>2, <3>3
    <2>2. Joined'
      BY <1>7 DEF Cancel
    <2>3. Clock'
      BY <1>7 DEF Cancel
    <2>4. Budget'
      BY <1>7 DEF Cancel
    <2>5. Authority' /\ Damage'
      BY <1>7 DEF Cancel
    <2> QED
      BY <2>1, <2>2, <2>3, <2>4, <2>5
  <1>8. CASE Join
    BY <1>8 DEF Join, TickerEnded, PoisonedNow, threads
  <1>9. CASE Instantiated
    BY <1>9 DEF Instantiated, threads
  <1>10. CASE Drop
    BY <1>10 DEF Drop, threads
  <1>11. CASE \E i \in Calls : TickerCancelled(i) \/ TickerExpires(i)
    <2>1. TypeOK'
      BY <1>11 DEF TickerCancelled, TickerExpires
    <2>2. Joined'
      BY <1>11 DEF TickerCancelled, TickerExpires
    <2>3. Clock'
      BY <1>11 DEF TickerCancelled, TickerExpires
    <2>4. Budget'
      BY <1>11 DEF TickerCancelled, TickerExpires
    <2>5. Authority' /\ Damage'
      BY <1>11 DEF TickerCancelled, TickerExpires
    <2> QED
      BY <2>1, <2>2, <2>3, <2>4, <2>5
  <1>12. CASE \E i \in Calls : Tick(i)
    BY <1>12 DEF Tick
  <1>13. CASE Terminated \/ UNCHANGED vars
    <2>1. TypeOK'
      BY <1>13 DEF Terminated, vars
    <2>2. Joined'
      BY <1>13 DEF Terminated, vars
    <2>3. Clock'
      BY <1>13 DEF Terminated, vars
    <2>4. Budget'
      BY <1>13 DEF Terminated, vars
    <2>5. Authority' /\ Damage'
      BY <1>13 DEF Terminated, vars
    <2> QED
      BY <2>1, <2>2, <2>3, <2>4, <2>5
  <1> HIDE DEF Inv, TypeOK, Joined, Clock, Budget, Authority, Damage, Calls, Executing
  <1> QED
    BY <1>1, <1>2, <1>3, <1>4, <1>5, <1>6, <1>7, <1>8, <1>9, <1>10, <1>11, <1>12, <1>13 DEF Next

LEMMA Invariant == Spec => []Inv
  BY InvInit, InvStep, PTL DEF Spec

(* The plugin's state stays in its type for any bounds (WasmPlugin).       *)
THEOREM TypeCorrect == Spec => []TypeOK
  <1>1. Inv => TypeOK
    BY DEF Inv
  <1> QED
    BY <1>1, Invariant, PTL

(* No call is stopped by a limit that an earlier call used up or by a      *)
(* ticker of an earlier call (call(), set_fuel and ticker.join()).         *)
THEOREM OwnLimits == Spec => []OwnLimitsOnly
  <1>1. Inv => OwnLimitsOnly
    BY PluginAssumption DEF Inv, TypeOK, Budget, OwnLimitsOnly
  <1> QED
    BY <1>1, Invariant, PTL

(* Between two calls no ticker thread is alive (call(), ticker.join()).    *)
THEOREM TickersJoined == Spec => []JoinedBetweenCalls
  <1>1. Inv => JoinedBetweenCalls
    <2> SUFFICES ASSUME Inv, pc \in {"idle", "dropped"}, NEW i \in Calls
                 PROVE ticker[i] \in {"unborn", "done"}
      BY DEF JoinedBetweenCalls
    <2>1. call \in Nat /\ i \in Nat /\ i > 0
      BY PluginAssumption DEF Inv, TypeOK, Calls
    <2>2. CASE i = call
      BY <2>1, <2>2 DEF Inv, Joined
    <2>3. CASE i < call \/ i > call
      BY <2>3 DEF Inv, Joined
    <2> QED
      BY <2>1, <2>2, <2>3
  <1> QED
    BY <1>1, Invariant, PTL

(* The bridge is reached from inside an authorized call only               *)
(* (HostState.callback_active).                                            *)
THEOREM BridgeAuthorized == Spec => []BridgeOnlyInCall
  <1>1. Inv => BridgeOnlyInCall
    BY DEF Inv, Authority, Joined, BridgeOnlyInCall
  <1> QED
    BY <1>1, Invariant, PTL

(* A trapped store is never run again (WasmPlugin.poisoned).               *)
THEOREM TrapIsFinal == Spec => TrappedNeverReentered
  <1>1. Inv /\ Inv' /\ [Next]_vars => [trapped => ~Executing']_vars
    <2> SUFFICES ASSUME Inv, Inv', Next, trapped PROVE ~Executing'
      BY Zenon
    <2>1. trapped'
      <3> USE DEF Inv, TypeOK
      <3>1. CASE GuestRuns \/ ImportReturns \/ \E kind \in {"bridge", "wasi"} : CallsImport(kind)
        BY <3>1 DEF GuestRuns, ImportReturns, CallsImport
      <3>2. CASE GuestReturns \/ OutOfTime \/ OutOfFuel \/ OtherTrap
        BY <3>2 DEF GuestReturns, OutOfTime, OutOfFuel, OtherTrap, Ends
      <3>3. CASE Begin \/ Refuse \/ Cancel \/ Join \/ Instantiated \/ Drop \/ Terminated
        BY <3>3 DEF Begin, Refuse, Cancel, Join, Instantiated, Drop, Terminated, vars
      <3>4. CASE \E i \in Calls : TickerCancelled(i) \/ TickerExpires(i) \/ Tick(i)
        BY <3>4 DEF TickerCancelled, TickerExpires, Tick
      <3> QED
        BY <3>1, <3>2, <3>3, <3>4 DEF Next
    <2> QED
      BY <2>1 DEF Inv, Damage
  <1> QED
    BY <1>1, Invariant, PTL DEF Spec, TrappedNeverReentered

===============================================================================
