--------------------------- MODULE RuntimeHostProofs ---------------------------
(***************************************************************************)
(* The safety of the process Host for every request-id range, and that of  *)
(* the Host and a session together for any window and any number of        *)
(* commands.                                                               *)
(*                                                                         *)
(* The Host alone: Inv is inductive.  Its heart is Connection: a callback  *)
(* that consumes a frame which is not its answer poisons the connection at *)
(* once, poison is never cleared, and serve() comes back to the pipe only  *)
(* without it.                                                             *)
(*                                                                         *)
(* Joined: Token counts what is no command: while a callback waits there   *)
(* is one such frame, in one of the two pipes or in the session's hands,   *)
(* and otherwise none, until the connection is poisoned.  Calm describes a *)
(* session that never overtook itself: one frame is under way at most.     *)
(* Order lines up the commands on their way down with the replies on       *)
(* theirs, and Books what the session believes with what they confirm.     *)
(***************************************************************************)
EXTENDS RuntimeHost, TLAPS

-----------------------------------------------------------------------------
(* The Host.                                                               *)

(* What serve() knows where it stands.                                     *)
Control ==
  /\ export # "none" <=> pc \in {"guest", "callback"}
  /\ cb # NoCall => pc = "callback"
  /\ outcome # "none" => pc = "handled"
  /\ pc \in {"disabling", "unloading"} => closing
  /\ pc \in {"reading", "handled"} => ~closing

Connection ==
  /\ lost => poison
  /\ pc = "reading" => ~owed /\ ~poison
  /\ pc = "handled" => outcome \in {"ok", "result", "close", "error", "unsendable", "fatal"}
  /\ closing => eof /\ ~owed /\ ~lost
  /\ pc = "closed" => ~owed /\ ~lost
  /\ pc = "done" => ~owed /\ ~lost

(* The payload agrees with the lifecycle state.                            *)
Ownership ==
  /\ pc \in {"closed", "done"} => plugin = "none" /\ state = "Closed"
  /\ state \in {"AwaitHello", "AwaitLoad", "Closed"} => plugin = "none"
  /\ state = "Closed" => pc \in {"handled", "closed", "done", "failed"}
  /\ outcome = "close" <=> pc = "handled" /\ state = "Closed"
  /\ state = "Enabled" /\ ~closing => plugin # "none"
  /\ export = "load" <=> export # "none" /\ state = "AwaitLoad"
  /\ export = "enable" => state = "Loaded" /\ plugin = "live"
  /\ export \in {"invoke", "disable"} => state = "Enabled" /\ plugin = "live"
  /\ export = "unload" => state \in {"Loaded", "Enabled", "Disabled"} /\ plugin = "none"
  /\ closing => export \in {"none", "disable", "unload"}
  /\ export = "unload" /\ state = "Enabled" => closing
  /\ pc = "disabling" => state = "Enabled"

Inv == TypeOK /\ Control /\ Connection /\ Ownership

(* An id beyond the range has been refused, and the refusal poisoned.      *)
Ids == nextId > IdLimit + 2 => poison

(* What the launcher was last told is where the payload is, unless a trap  *)
(* or a failed unload has taken the payload away.                          *)
Belief ==
  /\ pc \in {"reading", "guest", "callback"} /\ ~closing
       => (Phase \in {"broken", "gone"} \/ told = Phase)
  /\ outcome \in {"result", "error", "unsendable"}
       => (Phase \in {"broken", "gone"} \/ told = Phase)
  /\ outcome = "ok" => plugin = "live" \/ state = "AwaitLoad"
  /\ plugin = "broken" => state \in {"Loaded", "Enabled", "Disabled"}

(* The counter of callback ids keeps to the even 64-bit numbers.           *)
LEMMA NextIdEven == \A n \in Evens : NextId(n) \in Evens
  BY IdLimitAssumption DEF NextId, Evens, Modulus

LEMMA NoCallTyped == NoCall \in [id : Evens, kind : CallbackKinds \cup {"none"}]
  BY IdLimitAssumption DEF NoCall, Evens, Modulus

LEMMA InvInit == Init => Inv
  <1>1. 2 \in Evens
    BY IdLimitAssumption DEF Evens, Modulus
  <1> QED
    BY <1>1, NoCallTyped
    DEF Init, Inv, TypeOK, Control, Connection, Ownership, LifecycleState, Exports

LEMMA InvStep == Inv /\ [Next]_vars => Inv'
  <1> SUFFICES ASSUME Inv, [Next]_vars PROVE Inv'
    OBVIOUS
  <1> USE DEF Inv, TypeOK, Control, Connection, Ownership, LifecycleState, Exports
  <1>1. 2 \in Evens
    BY IdLimitAssumption DEF Evens, Modulus
  <1>2. NextId(nextId) \in Evens
    BY NextIdEven
  <1>3. CASE OutOfState
    BY <1>3 DEF OutOfState, Command, Handled
  <1>4. CASE Hello
    BY <1>4 DEF Hello, Command, Handled, Requires, CommandTable, guestVars
  <1>5. CASE Load
    BY <1>1, <1>5 DEF Load, Command, Handled, Requires, CommandTable, Enter, Reportable
  <1>6. CASE Shutdown
    BY <1>6 DEF Shutdown, Command, Handled, Requires, CommandTable, Enter, Taken
  <1>7. CASE BadCommand
    BY <1>7 DEF BadCommand, guestVars
  <1>8. CASE Returns
    BY NoCallTyped, <1>8 DEF Returns, Leave, GoOnClosing, Handled, Reportable, ReachedBy
  <1>9. CASE ReportsError
    BY NoCallTyped, <1>9 DEF ReportsError, Leave, GoOnClosing, Handled, Reportable
  <1>10. CASE Traps
    BY NoCallTyped, <1>10 DEF Traps, Trapped, Leave, GoOnClosing, Handled, Reportable, Poisons
  <1>11. CASE BridgeRefused
    BY <1>2, <1>11 DEF BridgeRefused
  <1>12. CASE Answered
    BY NoCallTyped, <1>12 DEF Answered, Resume
  <1>13. CASE Misanswered
    <2>1. /\ pc = "callback" /\ pc' = "guest" /\ poison' = TRUE /\ cb' = NoCall
          /\ UNCHANGED <<state, plugin, export, outcome, nextId, closing, eof,
                         broken, owed, told>>
      BY <1>13 DEF Misanswered, Resume, Poisoned
    <2>2. lost' \in BOOLEAN /\ (closing => lost' = lost)
      BY <1>13 DEF Misanswered
    <2> QED
      BY NoCallTyped, <2>1, <2>2
  <1>14. CASE AnsweredWithGarbage
    BY NoCallTyped, <1>14 DEF AnsweredWithGarbage, Trapped, Leave, GoOnClosing, Handled, Reportable, Poisons
  <1>15. CASE Reply
    BY <1>15 DEF Reply, MustStop, PhaseOf
  <1>16. CASE Stop
    BY <1>16 DEF Stop, MustStop
  <1>17. CASE CloseOnEof
    BY <1>17 DEF CloseOnEof, guestVars
  <1>18. CASE CloseDisable
    BY <1>18 DEF CloseDisable, Enter
  <1>19. CASE CloseUnload
    BY <1>19 DEF CloseUnload, Enter, Taken, UnloadsOnEof
  <1>20. CASE Return
    BY <1>20 DEF Return, guestVars
  <1>21. CASE HangUp
    BY <1>21 DEF HangUp, Exited, guestVars
  <1>22. CASE BreakPipe
    BY <1>22 DEF BreakPipe, Exited, guestVars
  <1>23. CASE Terminated
    BY <1>23 DEF Terminated, vars
  <1>24. CASE \E k \in {"enable", "invoke", "disable"} : CallGuest(k)
    BY <1>24 DEF CallGuest, Command, Handled, Requires, CommandTable, Enter
  <1>25. CASE \E kind \in CallbackKinds : BridgeCall(kind)
    BY <1>2, <1>25 DEF BridgeCall
  <1>26. CASE UNCHANGED vars
    BY <1>26 DEF vars
  <1> HIDE DEF Inv, TypeOK, Control, Connection, Ownership, LifecycleState, Exports
  <1> QED
    BY <1>3, <1>4, <1>5, <1>6, <1>7, <1>8, <1>9, <1>10, <1>11, <1>12, <1>13, <1>14, <1>15, <1>16, <1>17, <1>18, <1>19, <1>20, <1>21, <1>22, <1>23, <1>24, <1>25, <1>26 DEF Next

-----------------------------------------------------------------------------
(* The Host's state stays in its type for every id range (every handler).  *)
THEOREM TypeCorrect == Spec => []TypeOK
  <1>1. Inv => TypeOK
    BY DEF Inv
  <1> QED
    BY <1>1, InvInit, InvStep, PTL DEF Spec

LEMMA Invariant == Spec => []Inv
  BY InvInit, InvStep, PTL DEF Spec

(* No command that was read is left without an answer when serve() comes   *)
(* back to the pipe or ends without an error: callbacks included.          *)
THEOREM CommandsAnswered == Spec => []EveryCommandAnswered
  <1>1. Inv => EveryCommandAnswered
    BY DEF Inv, Connection, Control, EveryCommandAnswered
  <1> QED
    BY <1>1, Invariant, PTL

(* An enabled payload exists, an unloaded one is released (shutdown(),     *)
(* WasmGuestEngine::unload).                                               *)
THEOREM PluginAgrees == Spec => []StateMatchesPlugin
  <1>1. Inv => StateMatchesPlugin
    BY DEF Inv, Ownership, Control, StateMatchesPlugin
  <1> QED
    BY <1>1, Invariant, PTL

(* serve() returns Ok only after the payload was released.                 *)
THEOREM CleanExit == Spec => []CleanExitReleases
  <1>1. Inv => CleanExitReleases
    BY DEF Inv, Ownership, CleanExitReleases
  <1> QED
    BY <1>1, Invariant, PTL

(* From the first failed callback exchange on nothing is answered and      *)
(* nothing confirmed (the poison check of serve()).                        *)
THEOREM PoisonSilences == Spec => PoisonNeverAnswers
  <1>1. Inv /\ [Next]_vars => [poison => (owed => owed') /\ told' = told]_vars
    <2> SUFFICES ASSUME Inv, Next, poison PROVE owed' = owed /\ told' = told
      BY Zenon DEF vars
    <2>1. pc # "reading"
      BY DEF Inv, Connection
    <2>2. ~Hello /\ ~OutOfState /\ ~Load /\ ~Shutdown /\ ~BadCommand
      BY <2>1 DEF Hello, OutOfState, Load, Shutdown, BadCommand, Command
    <2>3. ~\E k \in {"enable", "invoke", "disable"} : CallGuest(k)
      BY <2>1 DEF CallGuest, Command
    <2>4. ~Reply
      BY DEF Reply, MustStop
    <2>5. CASE Returns \/ ReportsError \/ Traps \/ AnsweredWithGarbage
      BY <2>5 DEF Returns, ReportsError, Traps, AnsweredWithGarbage, Trapped, Leave
    <2>6. CASE (\E kind \in CallbackKinds : BridgeCall(kind)) \/ BridgeRefused
      BY <2>6 DEF BridgeCall, BridgeRefused
    <2>7. CASE Answered \/ Misanswered
      BY <2>7 DEF Answered, Misanswered, Resume
    <2>8. CASE Stop \/ CloseOnEof \/ CloseDisable \/ CloseUnload \/ Return
      BY <2>8 DEF Stop, CloseOnEof, CloseDisable, CloseUnload, Return
    <2>9. CASE HangUp \/ BreakPipe \/ Terminated
      BY <2>9 DEF HangUp, BreakPipe, Terminated, vars
    <2> QED
      BY <2>2, <2>3, <2>4, <2>5, <2>6, <2>7, <2>8, <2>9 DEF Next
  <1> QED
    BY <1>1, Invariant, PTL DEF Spec, PoisonNeverAnswers

-----------------------------------------------------------------------------
LEMMA IdsStep == Inv /\ Ids /\ [Next]_vars => Ids'
  <1> SUFFICES ASSUME Inv, Ids, [Next]_vars PROVE Ids'
    OBVIOUS
  <1>1. nextId \in Nat /\ IdLimit \in Nat /\ IdLimit >= 3
    BY IdLimitAssumption DEF Inv, TypeOK, Evens, Modulus
  <1>2. CASE nextId' = nextId /\ (poison => poison')
    BY <1>2 DEF Ids
  <1>3. CASE nextId' = 2
    BY <1>1, <1>3 DEF Ids
  <1>4. CASE poison'
    BY <1>4 DEF Ids
  <1>5. CASE \E kind \in CallbackKinds : BridgeCall(kind)
    BY <1>1, <1>5 DEF BridgeCall, ValidId, NextId, Modulus, Ids
  <1>6. OutOfState \/ Hello \/ Shutdown \/ BadCommand => nextId' = nextId /\ poison' = poison
    BY DEF OutOfState, Hello, Shutdown, BadCommand, Command, guestVars
  <1>7. Load => nextId' = 2 \/ (nextId' = nextId /\ poison' = poison)
    BY DEF Load, Command
  <1>8. (\E k \in {"enable", "invoke", "disable"} : CallGuest(k))
           => nextId' = nextId /\ poison' = poison
    BY DEF CallGuest, Command
  <1>9. Returns \/ ReportsError \/ Traps \/ AnsweredWithGarbage
           => nextId' = nextId /\ poison' = poison
    BY DEF Returns, ReportsError, Traps, AnsweredWithGarbage, Trapped, Leave
  <1>10. BridgeRefused \/ Misanswered => poison'
    BY DEF BridgeRefused, Misanswered, Poisoned
  <1>11. Answered \/ Reply \/ Stop \/ CloseOnEof \/ CloseDisable \/ CloseUnload \/ Return
           => nextId' = nextId /\ poison' = poison
    BY DEF Answered, Resume, Reply, Stop, CloseOnEof, CloseDisable, CloseUnload, Return, guestVars
  <1>12. HangUp \/ BreakPipe \/ Terminated \/ UNCHANGED vars
           => nextId' = nextId /\ poison' = poison
    BY DEF HangUp, BreakPipe, Terminated, vars, guestVars
  <1> QED
    BY Zenon, <1>2, <1>3, <1>4, <1>5, <1>6, <1>7, <1>8, <1>9, <1>10, <1>11, <1>12 DEF Next

(* Callback ids go up within one bridge and stay in range (call()): an     *)
(* answer cannot be taken for that of an earlier callback.                 *)
THEOREM IdsFresh == Spec => CallbackIdsFresh
  <1>1. Init => Ids
    BY IdLimitAssumption DEF Init, Ids
  <1>2. Inv /\ Ids /\ [Next]_vars =>
          [/\ nextId' < nextId => poison \/ export' = "load"
           /\ cb' # cb /\ cb'.id # 0 => cb'.id = nextId /\ cb'.id <= IdLimit]_vars
    <2> SUFFICES ASSUME Inv, Ids, Next
                 PROVE /\ nextId' < nextId => poison \/ export' = "load"
                       /\ cb' # cb /\ cb'.id # 0 => cb'.id = nextId /\ cb'.id <= IdLimit
      BY Zenon
    <2> DEFINE Fresh == /\ nextId' < nextId => poison \/ export' = "load"
                        /\ cb' # cb /\ cb'.id # 0 => cb'.id = nextId /\ cb'.id <= IdLimit
    <2>1. nextId \in Nat /\ IdLimit \in Nat /\ IdLimit >= 3 /\ nextId < Modulus
      BY IdLimitAssumption DEF Inv, TypeOK, Evens, Modulus
    <2> SUFFICES Fresh
      OBVIOUS
    <2>2. nextId' = nextId /\ (cb' = cb \/ cb' = NoCall) => Fresh
      BY <2>1 DEF NoCall
    <2>3. BridgeRefused => Fresh
      BY <2>1 DEF BridgeRefused, NextId, Modulus, Ids
    <2>4. (\E kind \in CallbackKinds : BridgeCall(kind)) => Fresh
      BY <2>1 DEF BridgeCall, NextId, Modulus, Ids, ValidId
    <2>5. Load => Fresh
      BY <2>1 DEF Load, Enter
    <2>6. OutOfState \/ Hello \/ Shutdown \/ BadCommand => nextId' = nextId /\ cb' = cb
      BY DEF OutOfState, Hello, Shutdown, BadCommand, Enter, guestVars
    <2>7. (\E k \in {"enable", "invoke", "disable"} : CallGuest(k))
             => nextId' = nextId /\ cb' = cb
      BY DEF CallGuest, Enter
    <2>8. Returns \/ ReportsError \/ Traps \/ AnsweredWithGarbage
             => nextId' = nextId /\ cb' = NoCall
      BY DEF Returns, ReportsError, Traps, AnsweredWithGarbage, Trapped, Leave
    <2>9. Answered \/ Misanswered => nextId' = nextId /\ cb' = NoCall
      BY DEF Answered, Misanswered, Resume
    <2>10. Reply \/ Stop \/ CloseOnEof \/ CloseDisable \/ CloseUnload \/ Return
             => nextId' = nextId /\ cb' = cb
      BY DEF Reply, Stop, CloseOnEof, CloseDisable, CloseUnload, Return, Enter, guestVars
    <2>11. HangUp \/ BreakPipe \/ Terminated => nextId' = nextId /\ cb' = cb
      BY DEF HangUp, BreakPipe, Terminated, vars, guestVars
    <2> HIDE DEF Fresh
    <2> QED
      BY Zenon, <2>2, <2>3, <2>4, <2>5, <2>6, <2>7, <2>8, <2>9, <2>10, <2>11 DEF Next
  <1> QED
    BY <1>1, <1>2, IdsStep, Invariant, PTL DEF Spec, CallbackIdsFresh

-----------------------------------------------------------------------------
LEMMA BeliefInit == Init => Belief
  BY DEF Init, Belief, Phase, PhaseOf

LEMMA BeliefStep == Inv /\ Belief /\ [Next]_vars => Belief'
  <1> SUFFICES ASSUME Inv, Belief, [Next]_vars PROVE Belief'
    OBVIOUS
  <1> USE DEF Inv, TypeOK, Control, Connection, Ownership, LifecycleState, Exports, Belief, Phase, PhaseOf
  <1>1. CASE OutOfState
    BY <1>1 DEF OutOfState, Command, Handled
  <1>2. CASE Hello
    BY <1>2 DEF Hello, Command, Handled, Requires, CommandTable, guestVars
  <1>3. CASE Load
    BY <1>3 DEF Load, Command, Handled, Requires, CommandTable, Enter, Reportable
  <1>4. CASE Shutdown
    BY <1>4 DEF Shutdown, Command, Handled, Requires, CommandTable, Enter, Taken
  <1>5. CASE BadCommand
    BY <1>5 DEF BadCommand, guestVars
  <1>6. CASE Returns
    BY <1>6 DEF Returns, Leave, GoOnClosing, Handled, Reportable, ReachedBy
  <1>7. CASE ReportsError
    BY <1>7 DEF ReportsError, Leave, GoOnClosing, Handled, Reportable
  <1>8. CASE Traps
    BY <1>8 DEF Traps, Trapped, Leave, GoOnClosing, Handled, Reportable, Poisons
  <1>9. CASE BridgeRefused
    BY <1>9 DEF BridgeRefused
  <1>10. CASE Answered
    BY <1>10 DEF Answered, Resume
  <1>11. CASE Misanswered
    BY <1>11 DEF Misanswered, Resume
  <1>12. CASE AnsweredWithGarbage
    BY <1>12 DEF AnsweredWithGarbage, Trapped, Leave, GoOnClosing, Handled, Reportable, Poisons
  <1>13. CASE Reply
    BY <1>13 DEF Reply, MustStop
  <1>14. CASE Stop
    BY <1>14 DEF Stop, MustStop
  <1>15. CASE CloseOnEof
    BY <1>15 DEF CloseOnEof, guestVars
  <1>16. CASE CloseDisable
    BY <1>16 DEF CloseDisable, Enter
  <1>17. CASE CloseUnload
    BY <1>17 DEF CloseUnload, Enter, Taken, UnloadsOnEof
  <1>18. CASE Return
    BY <1>18 DEF Return, guestVars
  <1>19. CASE HangUp
    BY <1>19 DEF HangUp, Exited, guestVars
  <1>20. CASE BreakPipe
    BY <1>20 DEF BreakPipe, Exited, guestVars
  <1>21. CASE Terminated
    BY <1>21 DEF Terminated, vars
  <1>22. CASE \E k \in {"enable", "invoke", "disable"} : CallGuest(k)
    BY <1>22 DEF CallGuest, Command, Handled, Requires, CommandTable, Enter
  <1>23. CASE \E kind \in CallbackKinds : BridgeCall(kind)
    BY <1>23 DEF BridgeCall
  <1>24. CASE UNCHANGED vars
    BY <1>24 DEF vars
  <1> HIDE DEF Inv, TypeOK, Control, Connection, Ownership, LifecycleState, Exports, Belief, Phase, PhaseOf
  <1> QED
    BY <1>1, <1>2, <1>3, <1>4, <1>5, <1>6, <1>7, <1>8, <1>9, <1>10, <1>11, <1>12, <1>13, <1>14, <1>15, <1>16, <1>17, <1>18, <1>19, <1>20, <1>21, <1>22, <1>23, <1>24 DEF Next

LEMMA Simulation == Inv /\ Belief /\ [Next]_vars => [Lifecycle!Next]_Lifecycle!vars
  <1> SUFFICES ASSUME Inv, Belief, [Next]_vars PROVE Lifecycle!Next \/ UNCHANGED Lifecycle!vars
    OBVIOUS
  <1> USE DEF Inv, TypeOK, Control, Connection, Ownership, LifecycleState, Exports, Belief, Phase, PhaseOf,
              HangUpPhase, Exited
  <1>1. OutOfState => UNCHANGED Lifecycle!vars
    BY DEF OutOfState, Command, Handled, Lifecycle!vars
  <1>2. Hello => UNCHANGED Lifecycle!vars
    BY DEF Hello, Command, Handled, Requires, CommandTable, guestVars, Lifecycle!vars
  <1>3. Load => Lifecycle!Command("load") \/ UNCHANGED Lifecycle!vars
    BY DEF Load, Command, Handled, Requires, CommandTable, Enter, Reportable, Lifecycle!vars, Lifecycle!Command, Lifecycle!From, Lifecycle!Enter, Lifecycle!Exports
  <1>4. Shutdown => Lifecycle!Command("unload") \/ Lifecycle!Discard \/ UNCHANGED Lifecycle!vars
    BY DEF Shutdown, Command, Handled, Requires, CommandTable, Enter, Taken, Lifecycle!vars, Lifecycle!Command, Lifecycle!From, Lifecycle!Enter, Lifecycle!Exports, Lifecycle!Discard
  <1>5. BadCommand => Lifecycle!Exit
    BY DEF BadCommand, guestVars, Lifecycle!Exit
  <1>6. Returns => Lifecycle!Succeed
    BY DEF Returns, Leave, GoOnClosing, Handled, Reportable, ReachedBy, Lifecycle!Succeed, Lifecycle!To
  <1>7. ReportsError => Lifecycle!Fail
    BY DEF ReportsError, Leave, GoOnClosing, Handled, Reportable, Lifecycle!Fail
  <1>8. Traps => Lifecycle!Trap
    BY DEF Traps, Trapped, Leave, GoOnClosing, Handled, Reportable, Poisons, Lifecycle!Trap
  <1>9. BridgeRefused => UNCHANGED Lifecycle!vars
    BY DEF BridgeRefused, Lifecycle!vars
  <1>10. Answered => UNCHANGED Lifecycle!vars
    BY DEF Answered, Resume, Lifecycle!vars
  <1>11. Misanswered => UNCHANGED Lifecycle!vars
    BY DEF Misanswered, Resume, Lifecycle!vars
  <1>12. AnsweredWithGarbage => Lifecycle!Trap
    BY DEF AnsweredWithGarbage, Trapped, Leave, GoOnClosing, Handled, Reportable, Poisons, Lifecycle!Trap
  <1>13. Reply => Lifecycle!Confirm \/ UNCHANGED Lifecycle!vars
    BY DEF Reply, MustStop, Lifecycle!vars, Lifecycle!Confirm
  <1>14. Stop => Lifecycle!Exit
    BY DEF Stop, MustStop, Lifecycle!Exit
  <1>15. CloseOnEof => Lifecycle!HangUp
    BY DEF CloseOnEof, guestVars, Lifecycle!HangUp
  <1>16. CloseDisable => Lifecycle!StopOnHangUp \/ UNCHANGED Lifecycle!vars
    BY DEF CloseDisable, Enter, Lifecycle!vars, Lifecycle!StopOnHangUp, Lifecycle!Enter
  <1>17. CloseUnload => Lifecycle!DropOnHangUp \/ Lifecycle!Discard \/ UNCHANGED Lifecycle!vars
    BY DEF CloseUnload, Lifecycle!vars, Enter, Taken, UnloadsOnEof, Lifecycle!DropOnHangUp, Lifecycle!Enter, Lifecycle!Discard
  <1>18. Return => Lifecycle!Exit
    BY DEF Return, guestVars, Lifecycle!Exit
  <1>19. HangUp => UNCHANGED Lifecycle!vars
    BY DEF HangUp, Exited, guestVars, Lifecycle!vars
  <1>20. BreakPipe => UNCHANGED Lifecycle!vars
    BY DEF BreakPipe, Exited, guestVars, Lifecycle!vars
  <1>21. Terminated => UNCHANGED Lifecycle!vars
    BY DEF Terminated, vars, Lifecycle!vars
  <1>22. (\E k \in {"enable", "invoke", "disable"} : CallGuest(k))
          => (\E k \in Exports : Lifecycle!Command(k)) \/ UNCHANGED Lifecycle!vars
    BY DEF CallGuest, Command, Handled, Requires, CommandTable, Enter,
           Lifecycle!vars, Lifecycle!Command, Lifecycle!From, Lifecycle!Enter
  <1>23. (\E kind \in CallbackKinds : BridgeCall(kind)) => UNCHANGED Lifecycle!vars
    BY DEF BridgeCall, Lifecycle!vars
  <1>24. UNCHANGED vars => UNCHANGED Lifecycle!vars
    BY DEF vars, Lifecycle!vars
  <1> HIDE DEF Inv, TypeOK, Control, Connection, Ownership, LifecycleState, Belief, Phase, PhaseOf,
               HangUpPhase, Exited
  <1> QED
    BY <1>1, <1>2, <1>3, <1>4, <1>5, <1>6, <1>7, <1>8, <1>9, <1>10, <1>11, <1>12, <1>13, <1>14, <1>15, <1>16, <1>17, <1>18, <1>19, <1>20, <1>21, <1>22, <1>23, <1>24 DEF Next, Lifecycle!Next, Lifecycle!Exports

(* The process Host implements the promised lifecycle, step by step.       *)
THEOREM Implements == Spec => Promise
  <1>1. Init => Lifecycle!Init
    BY DEF Init, Lifecycle!Init, Phase, PhaseOf, HangUpPhase, Exited
  <1> QED
    BY <1>1, BeliefInit, BeliefStep, Simulation, Invariant, PTL DEF Spec, Promise, Lifecycle!Spec

-----------------------------------------------------------------------------
(* Once an unload failed no export is entered and nothing but errors are   *)
(* answered (plugin_mut(), the take() in unload()).                        *)
Stuck ==
  /\ plugin = "none" /\ export = "none"
  /\ state \in {"Loaded", "Disabled", "Closed"}
  /\ outcome \in {"none", "error"}

THEOREM WedgeIsFinal == Spec => WedgedOnlyRefuses
  <1>1. Inv /\ Stuck /\ [Next]_vars => Stuck'
    <2> SUFFICES ASSUME Inv, Stuck, [Next]_vars PROVE Stuck'
      OBVIOUS
    <2> USE DEF Stuck, Inv, TypeOK, Control, Connection, Ownership
    <2>1. ~Load /\ ~Hello
      BY DEF Load, Hello, Requires, CommandTable
    <2>2. CASE OutOfState \/ BadCommand
      BY <2>2 DEF OutOfState, Handled, BadCommand, guestVars
    <2>3. CASE Shutdown
      BY <2>3 DEF Shutdown, Handled, Command, Requires, CommandTable, Taken
    <2>4. CASE \E k \in {"enable", "invoke", "disable"} : CallGuest(k)
      BY <2>4 DEF CallGuest, Handled
    <2>5. pc # "guest" /\ pc # "callback"
      OBVIOUS
    <2>6. ~Returns /\ ~ReportsError /\ ~Traps /\ ~AnsweredWithGarbage /\ ~BridgeRefused
      BY <2>5 DEF Returns, ReportsError, Traps, AnsweredWithGarbage, BridgeRefused
    <2>7. ~Answered /\ ~Misanswered /\ ~\E kind \in CallbackKinds : BridgeCall(kind)
      BY <2>5 DEF Answered, Misanswered, Resume, BridgeCall
    <2>8. CASE Reply \/ Stop
      BY <2>8 DEF Reply, Stop
    <2>9. CASE CloseOnEof \/ CloseDisable \/ CloseUnload \/ Return
      BY <2>9 DEF CloseOnEof, CloseDisable, CloseUnload, Return, guestVars, Enter, Taken
    <2>10. CASE HangUp \/ BreakPipe \/ Terminated \/ UNCHANGED vars
      BY <2>10 DEF HangUp, BreakPipe, Terminated, guestVars, vars
    <2> HIDE DEF Stuck, Inv, TypeOK, Control, Connection, Ownership
    <2> QED
      BY <2>1, <2>2, <2>3, <2>4, <2>6, <2>7, <2>8, <2>9, <2>10 DEF Next
  <1>2. Inv /\ Wedged => Stuck
    BY DEF Inv, Control, Wedged, Stuck
  <1>3. Stuck => export = "none" /\ outcome \in {"none", "error"}
    BY DEF Stuck
  <1> QED
    BY <1>1, <1>2, <1>3, Invariant, PTL DEF Spec, WedgedOnlyRefuses

-----------------------------------------------------------------------------
(* The Host and a session.                                                 *)

Commands(s) == \A i \in 1..Len(s) : IsCommand(s[i])
\* One frame of s is no command.
OneOther(s) ==
  \E i \in 1..Len(s) : ~IsCommand(s[i]) /\ \A j \in 1..Len(s) : j # i => IsCommand(s[j])

LEMMA CommandsAppend ==
  ASSUME NEW S, NEW s \in Seq(S), NEW f \in S, Commands(s)
  PROVE  IF IsCommand(f) THEN Commands(Append(s, f)) ELSE OneOther(Append(s, f))
<1>1. /\ Len(Append(s, f)) = Len(s) + 1 /\ Len(s) \in Nat
      /\ Append(s, f)[Len(s) + 1] = f
      /\ \A i \in 1..Len(s) : Append(s, f)[i] = s[i]
  OBVIOUS
<1>2. \A i \in 1..Len(Append(s, f)) : i = Len(s) + 1 \/ i \in 1..Len(s)
  BY <1>1
<1>3. CASE IsCommand(f)
  BY <1>1, <1>2, <1>3 DEF Commands, IsCommand
<1>4. CASE ~IsCommand(f)
  BY <1>1, <1>2, <1>4 DEF Commands, OneOther, IsCommand
<1> QED BY <1>3, <1>4

LEMMA OtherAppend ==
  ASSUME NEW S, NEW s \in Seq(S), NEW f \in S, OneOther(s), IsCommand(f)
  PROVE  OneOther(Append(s, f))
<1>1. /\ Len(Append(s, f)) = Len(s) + 1 /\ Len(s) \in Nat
      /\ Append(s, f)[Len(s) + 1] = f
      /\ \A i \in 1..Len(s) : Append(s, f)[i] = s[i]
  OBVIOUS
<1>2. \A i \in 1..Len(Append(s, f)) : i = Len(s) + 1 \/ i \in 1..Len(s)
  BY <1>1
<1>3. PICK i \in 1..Len(s) :
        ~IsCommand(s[i]) /\ \A j \in 1..Len(s) : j # i => IsCommand(s[j])
  BY DEF OneOther
<1>4. i \in 1..Len(Append(s, f)) /\ ~IsCommand(Append(s, f)[i])
  BY <1>1, <1>3 DEF IsCommand
<1>5. \A j \in 1..Len(Append(s, f)) : j # i => IsCommand(Append(s, f)[j])
  BY <1>1, <1>2, <1>3 DEF IsCommand
<1> QED BY <1>4, <1>5 DEF OneOther

LEMMA TailsAre ==
  ASSUME NEW S, NEW s \in Seq(S), s # <<>>
  PROVE  /\ Tail(s) \in Seq(S) /\ Head(s) \in S
         /\ Commands(s) => IsCommand(Head(s)) /\ Commands(Tail(s))
         /\ OneOther(s) => IF IsCommand(Head(s)) THEN OneOther(Tail(s))
                                                 ELSE Commands(Tail(s))
<1>1. /\ Len(s) \in Nat \ {0} /\ Len(Tail(s)) = Len(s) - 1
      /\ Head(s) = s[1] /\ Tail(s) \in Seq(S) /\ Head(s) \in S
      /\ \A i \in 1..Len(Tail(s)) : Tail(s)[i] = s[i + 1]
  OBVIOUS
<1>2. \A i \in 1..Len(Tail(s)) : i + 1 \in 1..Len(s)
  BY <1>1
<1>3. Commands(s) => IsCommand(Head(s)) /\ Commands(Tail(s))
  BY <1>1, <1>2 DEF Commands, IsCommand
<1>4. ASSUME OneOther(s)
      PROVE  IF IsCommand(Head(s)) THEN OneOther(Tail(s)) ELSE Commands(Tail(s))
  <2>1. PICK i \in 1..Len(s) :
          ~IsCommand(s[i]) /\ \A j \in 1..Len(s) : j # i => IsCommand(s[j])
    BY <1>4 DEF OneOther
  <2>2. CASE i = 1
    <3>1. ~IsCommand(Head(s))
      BY <1>1, <2>1, <2>2 DEF IsCommand
    <3>2. \A j \in 1..Len(Tail(s)) : IsCommand(Tail(s)[j])
      BY <1>1, <1>2, <2>1, <2>2 DEF IsCommand
    <3> QED BY <3>1, <3>2 DEF Commands
  <2>3. CASE i # 1
    <3>1. IsCommand(Head(s))
      BY <1>1, <2>1, <2>3 DEF IsCommand
    <3>2. i - 1 \in 1..Len(Tail(s)) /\ ~IsCommand(Tail(s)[i - 1])
      BY <1>1, <2>1, <2>3 DEF IsCommand
    <3>3. \A j \in 1..Len(Tail(s)) : j # i - 1 => IsCommand(Tail(s)[j])
      BY <1>1, <1>2, <2>1, <2>3 DEF IsCommand
    <3> QED BY <3>1, <3>2, <3>3 DEF OneOther
  <2> QED BY <2>2, <2>3
<1> QED BY <1>1, <1>3, <1>4

LEMMA NoCommands == Commands(<<>>) /\ ~OneOther(<<>>)
  BY DEF Commands, OneOther

-----------------------------------------------------------------------------
\* Every step of the two together is a step of the Host, or none of its: all
\* proved above holds between these two.
LEMMA StepsOfHost == [JointNext]_joint => [Next]_vars
<1> SUFFICES ASSUME [JointNext]_joint PROVE Next \/ UNCHANGED vars
  OBVIOUS
<1>1. CASE Serve
  <2>1. CASE IsCommand(Head(down))
    BY <1>1, <2>1 DEF Serve, Perform, Next
  <2>2. CASE ~IsCommand(Head(down))
    BY <1>1, <2>2 DEF Serve, Next
  <2> QED BY <2>1, <2>2
<1>2. CASE TakeAnswer
  BY <1>2 DEF TakeAnswer, Next
<1>3. CASE EndOfInput
  BY <1>3 DEF EndOfInput, Next
<1>4. CASE SendCallback
  BY <1>4 DEF SendCallback, Next
<1>5. CASE SendReply
  BY <1>5 DEF SendReply, Next
<1>6. CASE Work
  BY <1>6 DEF Work, GuestEnds, Next
<1>7. CASE Send \/ Receive \/ AnswerCallback \/ CloseSession \/ Ended \/ UNCHANGED joint
  BY <1>7 DEF Send, Receive, AnswerCallback, CloseSession, Ended, Ask, joint
<1>8. CASE StopReading
  BY <1>8 DEF StopReading, Next
<1> QED BY <1>1, <1>2, <1>3, <1>4, <1>5, <1>6, <1>7, <1>8 DEF JointNext

\* The Host between its pipes is the Host of ProcessServer.
THEOREM HostInside == JointSpec => Spec
<1>1. JointInit => Init
  BY DEF JointInit
<1> QED BY <1>1, StepsOfHost, PTL DEF JointSpec, Spec

LEMMA InvInside == JointSpec => []Inv
  BY HostInside, Invariant, PTL

-----------------------------------------------------------------------------
Down == [id : Nat, kind : Kinds] \cup Answers

\* What travels, and what serve() is working on.
Carried ==
  /\ down \in Seq(Down) /\ up \in Seq(Frames)
  /\ asked = NoCall \/ (asked \in Frames /\ ~IsCommand(asked))
  /\ serving \in Nat /\ sent \in Nat
  /\ pc \in {"guest", "callback", "handled"} /\ ~closing => serving % 2 = 1
  /\ pc = "callback" => cb.id \in Evens /\ ValidId(cb.id)

\* While nothing is poisoned: the frame that is no command.
Token ==
  ~poison =>
    /\ pc # "callback" =>
         /\ Commands(down)
         /\ ~hungUp => Commands(up) /\ asked = NoCall
    /\ pc = "callback" =>
         \/ /\ Commands(down)
            /\ ~hungUp => IF asked = NoCall THEN OneOther(up) ELSE Commands(up)
         \/ /\ OneOther(down)
            /\ ~hungUp => Commands(up) /\ asked = NoCall

\* Frames of each kind are told apart by their ids.
LEMMA Parity ==
  /\ \A n \in Nat : CommandId(n) % 2 = 1 /\ CommandId(n) \in Nat
  /\ \A n \in Evens : n \in Nat /\ n % 2 = 0
  /\ \A f \in Answers : ~IsCommand(f) /\ f.id \in Nat
  BY IdLimitAssumption DEF CommandId, Evens, Answers, IsCommand, Modulus

\* What the Host's steps do to the variables the two invariants speak of.
LEMMA ServeEffect ==
  ASSUME NEW k, Perform(k)
  PROVE  /\ pc = "reading" /\ pc' \in {"guest", "handled"}
         /\ UNCHANGED <<poison, closing, eof>>
BY DEF Perform, OutOfState, Hello, Load, CallGuest, Shutdown, Command, Handled, Enter

LEMMA WorkEffect ==
  ASSUME Inv, Work
  PROVE  /\ pc # "callback" /\ pc' # "callback"
         /\ poison => poison'
         /\ closing' = closing \/ (pc = "reading" /\ closing')
         /\ pc \in {"reading", "closed", "done"} => pc' \notin {"guest", "handled"}
         /\ pc' \in {"guest", "handled"} /\ ~closing' => pc \in {"guest", "handled"} /\ ~closing
BY DEF Inv, TypeOK, Control, Work, GuestEnds, Returns, ReportsError, Traps, Trapped, GoOnClosing,
       Leave, Handled, BridgeRefused, Stop, CloseOnEof, CloseDisable, CloseUnload,
       Return, Enter

LEMMA AnswerEffect ==
  ASSUME Inv, Answered \/ AnsweredWithGarbage
  PROVE  /\ pc = "callback" /\ pc' # "callback" /\ UNCHANGED <<closing, poison>>
         /\ ~closing => pc' \in {"guest", "handled"}
BY DEF Inv, TypeOK, Control, Answered, AnsweredWithGarbage, Resume, Trapped, GoOnClosing,
       Leave, Handled

LEMMA MisansweredEffect ==
  ASSUME Misanswered
  PROVE  pc = "callback" /\ pc' = "guest" /\ poison' /\ UNCHANGED <<closing, eof>>
BY Zenon DEF Misanswered, Resume, Poisoned

LEMMA CallEffect ==
  ASSUME NEW kind \in CallbackKinds, BridgeCall(kind), Inv
  PROVE  /\ pc = "guest" /\ pc' = "callback" /\ UNCHANGED <<poison, closing, eof>>
         /\ cb' \in Frames /\ ~IsCommand(cb') /\ cb' # NoCall
         /\ cb'.id \in Evens /\ ValidId(cb'.id)
BY Parity DEF BridgeCall, Inv, TypeOK, Frames, IsCommand, NoCall, ValidId, CallbackKinds

LEMMA ReplyEffect ==
  ASSUME Inv, Reply
  PROVE  /\ pc = "handled" /\ pc' \in {"reading", "closed"}
         /\ UNCHANGED <<poison, closing, eof>>
         /\ outcome \in {"ok", "result", "error", "close"}
BY DEF Inv, Connection, Reply, MustStop

-----------------------------------------------------------------------------
\* What travels keeps its type.
LEMMA CarriedStep == Inv /\ Inv' /\ Carried /\ [JointNext]_joint => Carried'
<1> SUFFICES ASSUME Inv, Inv', Carried, [JointNext]_joint PROVE Carried'
  OBVIOUS
<1> USE DEF Carried
<1>0. sent' \in Nat
  BY DEF JointNext, Serve, TakeAnswer, EndOfInput, SendCallback, SendReply, Work, Put, Send,
         Receive, AnswerCallback, CloseSession, StopReading, Ended, joint, session
<1>1. CASE Serve
  <2>1. down # <<>> /\ down' = Tail(down) /\ serving' = Head(down).id
        /\ UNCHANGED <<up, asked>>
    BY <1>1 DEF Serve, Take, session
  <2>2. Head(down) \in Down /\ Tail(down) \in Seq(Down)
    BY <2>1, TailsAre
  <2>3. Head(down).id \in Nat
    BY <2>2, Parity DEF Down
  <2>4. CASE IsCommand(Head(down))
    BY <1>0, <1>1, <2>1, <2>2, <2>3, <2>4, ServeEffect DEF Serve, IsCommand
  <2>5. CASE ~IsCommand(Head(down))
    BY <1>0, <1>1, <2>1, <2>2, <2>3, <2>5 DEF Serve, BadCommand
  <2> QED BY <2>4, <2>5
<1>2. CASE TakeAnswer
  <2>1. down # <<>> /\ down' = Tail(down) /\ UNCHANGED <<up, asked, serving>>
    BY <1>2 DEF TakeAnswer, Take, KeptId, session
  <2>2. Tail(down) \in Seq(Down)
    BY <2>1, TailsAre
  <2>3. Misanswered \/ Answered \/ AnsweredWithGarbage
    BY <1>2 DEF TakeAnswer
  <2> QED BY <1>0, <2>1, <2>2, <2>3, MisansweredEffect, AnswerEffect
<1>3. CASE EndOfInput
  <2>1. UNCHANGED <<down, up, serving, asked>>
    BY <1>3 DEF EndOfInput, session
  <2>2. CASE Misanswered
    BY <1>0, <2>1, <2>2, MisansweredEffect
  <2>3. CASE HangUp
    BY <1>0, <2>1, <2>3 DEF HangUp, guestVars
  <2> QED BY <1>3, <2>2, <2>3 DEF EndOfInput
<1>4. CASE SendCallback
  <2>1. PICK kind \in CallbackKinds : BridgeCall(kind) /\ Put(cb')
    BY <1>4 DEF SendCallback
  <2>2. UNCHANGED <<down, serving, asked>> /\ up' \in {up, Append(up, cb')}
    BY <2>1 DEF Put, session
  <2>3. Append(up, cb') \in Seq(Frames)
    BY <2>1, CallEffect
  <2> QED BY <1>0, <2>1, <2>2, <2>3, CallEffect
<1>5. CASE SendReply
  <2> DEFINE f == [id |-> serving, kind |-> IF outcome = "close" THEN "ok" ELSE outcome]
  <2>1. Reply /\ UNCHANGED <<down, serving, asked>> /\ up' \in {up, Append(up, f)}
    BY <1>5 DEF SendReply, Put, session
  <2>2. f \in Frames
    BY <2>1, ReplyEffect DEF Frames
  <2>3. Append(up, f) \in Seq(Frames)
    BY <2>2
  <2> HIDE DEF f
  <2> QED BY <1>0, <2>1, <2>3, ReplyEffect
<1>6. CASE Work
  <2>1. UNCHANGED <<down, up, serving, asked>>
    BY <1>6 DEF Work, session
  <2> QED BY <1>0, <1>6, <2>1, WorkEffect
<1>7. CASE Send
  <2>1. PICK k \in Kinds : down' = Append(down, [id |-> CommandId(sent), kind |-> k])
    BY <1>7 DEF Send, Ask
  <2>2. UNCHANGED <<vars, up, serving, asked>> /\ [id |-> CommandId(sent), kind |-> k] \in Down
    BY <1>7, Parity DEF Send, Ask, Down
  <2> QED BY <1>0, <2>1, <2>2 DEF vars
<1>8. CASE Receive
  <2>1. up # <<>> /\ up' = Tail(up) /\ UNCHANGED <<vars, down, serving>>
    BY <1>8 DEF Receive
  <2>2. Head(up) \in Frames /\ Tail(up) \in Seq(Frames)
    BY <2>1, TailsAre
  <2>3. asked' = asked \/ (asked' = Head(up) /\ ~IsCommand(Head(up)))
    BY <1>8 DEF Receive
  <2> QED BY <1>0, <2>1, <2>2, <2>3 DEF vars, IsCommand
<1>9. CASE AnswerCallback
  <2>1. PICK f \in Answers : down' = Append(down, f)
    BY <1>9 DEF AnswerCallback, Ask
  <2>2. UNCHANGED <<vars, up, serving>> /\ asked' = NoCall /\ f \in Down
    BY <1>9 DEF AnswerCallback, Ask, Down
  <2> QED BY <1>0, <2>1, <2>2 DEF vars
<1>10. CASE CloseSession
  BY <1>0, <1>10 DEF CloseSession, vars
<1>11. CASE StopReading
  BY <1>0, <1>11 DEF StopReading, BreakPipe, session, guestVars
<1>12. CASE Ended \/ UNCHANGED joint
  BY <1>0, <1>12 DEF Ended, joint, vars, session
<1> QED BY <1>1, <1>2, <1>3, <1>4, <1>5, <1>6, <1>7, <1>8, <1>9, <1>10, <1>11, <1>12 DEF JointNext

\* While nothing is poisoned there is one other frame for each callback.
LEMMA TokenStep == Inv /\ Carried /\ Token /\ [JointNext]_joint => Token'
<1> SUFFICES ASSUME Inv, Carried, Token, [JointNext]_joint, ~poison' PROVE Token'
  BY DEF Token
<1> USE DEF Token
<1>1. CASE Serve
  <2>1. down # <<>> /\ down' = Tail(down) /\ UNCHANGED <<up, asked, hungUp>>
    BY <1>1 DEF Serve, Take, session
  <2>2. pc = "reading" /\ pc' # "callback" /\ ~poison
    BY <1>1, ServeEffect DEF Serve, BadCommand, guestVars
  <2>3. Commands(Tail(down))
    BY <2>1, <2>2, TailsAre DEF Carried
  <2> QED BY <2>1, <2>2, <2>3 DEF Commands
<1>2. CASE TakeAnswer
  <2>1. down # <<>> /\ down' = Tail(down) /\ UNCHANGED <<up, asked, hungUp>>
    BY <1>2 DEF TakeAnswer, Take, session
  <2>2. ~Misanswered
    BY MisansweredEffect
  <2>3. ~IsCommand(Head(down)) /\ (Answered \/ AnsweredWithGarbage)
    BY <1>2, <2>2 DEF TakeAnswer
  <2>4. pc = "callback" /\ pc' # "callback" /\ ~poison
    BY <2>3, AnswerEffect
  <2>5. OneOther(down) /\ Commands(Tail(down))
    BY <2>1, <2>3, <2>4, TailsAre DEF Carried
  <2>6. ~Commands(down)
    BY <2>1, <2>3, TailsAre DEF Carried
  <2> QED BY <2>1, <2>4, <2>5, <2>6 DEF Commands
<1>3. CASE EndOfInput
  <2>1. HangUp /\ UNCHANGED <<down, up, asked, hungUp>>
    BY <1>3, MisansweredEffect DEF EndOfInput, session
  <2>2. UNCHANGED <<pc, poison>>
    BY <2>1 DEF HangUp
  <2> QED BY <2>1, <2>2 DEF Commands, OneOther
<1>4. CASE SendCallback
  <2>1. PICK kind \in CallbackKinds : BridgeCall(kind) /\ Put(cb')
    BY <1>4 DEF SendCallback
  <2>2. UNCHANGED <<down, asked, hungUp>> /\ up' = IF hungUp THEN up ELSE Append(up, cb')
    BY <2>1 DEF Put, session
  <2>3. pc = "guest" /\ pc' = "callback" /\ ~poison /\ cb' \in Frames /\ ~IsCommand(cb')
    BY <2>1, CallEffect
  <2>4. ~hungUp => OneOther(Append(up, cb'))
    BY <2>3, CommandsAppend DEF Carried
  <2> QED BY <2>2, <2>3, <2>4 DEF Commands, OneOther
<1>5. CASE SendReply
  <2> DEFINE f == [id |-> serving, kind |-> IF outcome = "close" THEN "ok" ELSE outcome]
  <2>1. /\ Reply /\ UNCHANGED <<down, asked, hungUp>>
        /\ up' = IF hungUp THEN up ELSE Append(up, f)
    BY <1>5 DEF SendReply, Put, session
  <2>2. pc = "handled" /\ pc' # "callback" /\ ~poison
    BY <2>1, ReplyEffect
  <2>3. f \in Frames /\ IsCommand(f)
    BY <2>1, <2>2, ReplyEffect DEF Frames, IsCommand, Carried, Inv, Control
  <2>4. ~hungUp => Commands(Append(up, f))
    BY <2>2, <2>3, CommandsAppend DEF Carried
  <2> HIDE DEF f
  <2> QED BY <2>1, <2>2, <2>4 DEF Commands
<1>6. CASE Work
  <2>1. UNCHANGED <<down, up, asked, hungUp>>
    BY <1>6 DEF Work, session
  <2>2. pc # "callback" /\ pc' # "callback" /\ ~poison
    BY <1>6, WorkEffect
  <2> QED BY <2>1, <2>2 DEF Commands
<1>7. CASE Send
  <2>1. PICK k \in Kinds : down' = Append(down, [id |-> CommandId(sent), kind |-> k])
    BY <1>7 DEF Send, Ask
  <2> DEFINE f == [id |-> CommandId(sent), kind |-> k]
  <2>2. UNCHANGED <<vars, up, asked, hungUp>>
    BY <1>7 DEF Send, Ask
  <2>3. f \in Down /\ IsCommand(f)
    BY Parity DEF Down, IsCommand, Carried
  <2>4. /\ Commands(down) => Commands(Append(down, f))
        /\ OneOther(down) => OneOther(Append(down, f))
    BY <2>3, CommandsAppend, OtherAppend DEF Carried
  <2> HIDE DEF f
  <2>5. down' = Append(down, f)
    BY <2>1 DEF f
  <2> QED BY <2>2, <2>4, <2>5 DEF Commands, OneOther, vars
<1>8. CASE Receive
  <2>1. up # <<>> /\ ~hungUp /\ asked = NoCall /\ up' = Tail(up) /\ UNCHANGED <<vars, down, hungUp>>
    BY <1>8 DEF Receive
  <2>2. Head(up) \in Frames
    BY <2>1, TailsAre DEF Carried
  <2>3. CASE IsCommand(Head(up))
    <3>1. asked' = NoCall
      BY <1>8, <2>1, <2>3 DEF Receive
    <3>2. /\ Commands(up) => Commands(Tail(up))
          /\ OneOther(up) => OneOther(Tail(up))
      BY <2>1, <2>3, TailsAre DEF Carried
    <3> QED BY <2>1, <3>1, <3>2 DEF Commands, OneOther, vars
  <2>4. CASE ~IsCommand(Head(up))
    <3>1. asked' # NoCall
      BY <1>8, <2>2, <2>4 DEF Receive, Frames, NoCall, Kinds, CommandTable, CallbackKinds
    <3>2. ~Commands(up) /\ (OneOther(up) => Commands(Tail(up)))
      BY <2>1, <2>4, TailsAre DEF Carried
    <3> QED BY <2>1, <3>1, <3>2 DEF Commands, OneOther, vars
  <2> QED BY <2>3, <2>4
<1>9. CASE AnswerCallback
  <2>1. PICK f \in Answers : down' = Append(down, f)
    BY <1>9 DEF AnswerCallback, Ask
  <2>2. UNCHANGED <<vars, up, hungUp>> /\ asked # NoCall /\ asked' = NoCall /\ ~hungUp
    BY <1>9 DEF AnswerCallback, Ask
  <2>3. f \in Down /\ ~IsCommand(f)
    BY Parity DEF Down
  <2>4. Commands(down) => OneOther(Append(down, f))
    BY <2>3, CommandsAppend DEF Carried
  <2> QED BY <2>1, <2>2, <2>4 DEF Commands, OneOther, vars
<1>10. CASE CloseSession
  BY <1>10 DEF CloseSession, vars, Commands, OneOther
<1>11. CASE StopReading
  BY <1>11 DEF StopReading, BreakPipe, session, Commands, OneOther
<1>12. CASE Ended \/ UNCHANGED joint
  BY <1>12 DEF Ended, joint, vars, session, Commands, OneOther
<1> QED BY <1>1, <1>2, <1>3, <1>4, <1>5, <1>6, <1>7, <1>8, <1>9, <1>10, <1>11, <1>12 DEF JointNext

LEMMA TokenInside == JointSpec => [](Inv /\ Carried /\ Token)
<1>1. JointInit => Carried /\ Token
  BY NoCommands DEF JointInit, Init, Carried, Token, NoCall
<1> QED BY <1>1, InvInside, CarriedStep, TokenStep, PTL DEF JointSpec

\* serve() never reads the answer to a callback as a command.
THEOREM NoAnswerStrays == JointSpec => []NoStrayAnswer
<1>1. Inv /\ Carried /\ Token => NoStrayAnswer
  BY TailsAre DEF Inv, Connection, Carried, Token, NoStrayAnswer
<1> QED BY <1>1, TokenInside, PTL

-----------------------------------------------------------------------------
\* A session that has not overtaken itself and has not closed.
Busy == pc \in {"guest", "callback", "handled"}
Empty == down = <<>> /\ up = <<>>

\* Where its one frame is while a callback waits,
Answering ==
  \/ down = <<>> /\ up = <<cb>> /\ asked = NoCall
  \/ Empty /\ asked = cb
  \/ up = <<>> /\ asked = NoCall /\ \E f \in Answers : down = <<f>> /\ Accepts(cb, f)

\* and while none does: a command, a reply, or in the Host's hands.
Asking ==
  /\ asked = NoCall
  /\ \/ ~Busy /\ up = <<>> /\ \E c \in Down : down = <<c>> /\ IsCommand(c)
     \/ ~Busy /\ down = <<>> /\ \E r \in Frames : up = <<r>> /\ IsCommand(r)
     \/ Empty

Calm ==
  ~overtaken /\ ~hungUp =>
    /\ ~eof
    /\ waiting = <<>> => Empty /\ asked = NoCall /\ ~Busy
    /\ waiting # <<>> =>
         /\ \E w : waiting = <<w>>
         /\ IF pc = "callback" THEN Answering ELSE Asking

LEMMA Single ==
  \A x : Append(<<>>, x) = <<x>> /\ Tail(<<x>>) = <<>> /\ Head(<<x>>) = x /\ <<x>> # <<>>
  OBVIOUS

LEMMA CalmStep == Inv /\ Carried /\ Calm /\ [JointNext]_joint => Calm'
<1> SUFFICES ASSUME Inv, Carried, Calm, [JointNext]_joint, ~overtaken', ~hungUp' PROVE Calm'
  BY DEF Calm
<1>0. ~overtaken /\ ~hungUp
  <2>1. CASE Send
    BY <2>1, Zenon DEF Send
  <2>2. CASE CloseSession
    BY <2>2, Zenon DEF CloseSession
  <2>3. CASE ~Send /\ ~CloseSession
    <3>1. UNCHANGED <<hungUp, overtaken>>
      BY <2>3 DEF JointNext, Serve, TakeAnswer, EndOfInput, SendCallback, SendReply, Work, Put,
                  Receive, AnswerCallback, Ask, StopReading, Ended, joint, session
    <3> QED BY <3>1
  <2> QED BY <2>1, <2>2, <2>3
<1> USE <1>0, Single DEF Calm, Busy, Empty
<1>1. CASE Serve
  <2>1. down # <<>> /\ down' = Tail(down) /\ UNCHANGED <<up, asked, waiting>> /\ pc = "reading"
    BY <1>1, ServeEffect DEF Serve, Take, session, BadCommand
  <2>2. \E w : waiting = <<w>>
    BY <2>1
  <2>3. \E c \in Down : down = <<c>> /\ IsCommand(c) /\ up = <<>> /\ asked = NoCall
    BY <2>1, <2>2 DEF Asking
  <2>4. IsCommand(Head(down)) /\ down' = <<>>
    BY <2>1, <2>3
  <2>5. pc' # "callback" /\ ~eof'
    BY <1>1, <2>4, ServeEffect DEF Serve
  <2> QED BY <2>1, <2>2, <2>3, <2>4, <2>5 DEF Asking
<1>2. CASE TakeAnswer
  <2>1. down # <<>> /\ down' = Tail(down) /\ UNCHANGED <<up, asked, waiting>> /\ pc = "callback"
    BY <1>2, AnswerEffect, MisansweredEffect DEF TakeAnswer, Take, session
  <2>2. \E w : waiting = <<w>>
    BY <2>1
  <2>3. \E f \in Answers : down = <<f>> /\ up = <<>> /\ asked = NoCall
    BY <2>1, <2>2 DEF Answering
  <2>4. down' = <<>> /\ pc' # "callback" /\ ~eof'
    BY <1>2, <2>1, <2>3, AnswerEffect, MisansweredEffect
       DEF TakeAnswer, Answered, AnsweredWithGarbage, Resume, Trapped, Leave
  <2> QED BY <2>1, <2>2, <2>3, <2>4 DEF Asking
<1>3. CASE EndOfInput
  BY <1>3 DEF EndOfInput, Misanswered
<1>4. CASE SendCallback
  <2>1. PICK kind \in CallbackKinds : BridgeCall(kind) /\ Put(cb')
    BY <1>4 DEF SendCallback
  <2>2. UNCHANGED <<down, asked, waiting>> /\ up' = Append(up, cb')
    BY <2>1 DEF Put, session
  <2>3. pc = "guest" /\ pc' = "callback" /\ ~eof'
    BY <2>1, CallEffect
  <2>4. Empty /\ asked = NoCall /\ \E w : waiting = <<w>>
    BY <2>3 DEF Asking
  <2>5. up' = <<cb'>>
    BY <2>2, <2>4
  <2> QED BY <2>2, <2>3, <2>4, <2>5 DEF Answering
<1>5. CASE SendReply
  <2> DEFINE r == [id |-> serving, kind |-> IF outcome = "close" THEN "ok" ELSE outcome]
  <2>1. Reply /\ UNCHANGED <<down, asked, waiting>> /\ up' = Append(up, r)
    BY <1>5 DEF SendReply, Put, session
  <2>2. pc = "handled" /\ pc' \in {"reading", "closed"} /\ ~eof'
    BY <2>1, ReplyEffect
  <2>3. r \in Frames /\ IsCommand(r)
    BY <2>1, <2>2, ReplyEffect DEF Frames, IsCommand, Carried, Inv, Control
  <2> HIDE DEF r
  <2>4. Empty /\ asked = NoCall /\ \E w : waiting = <<w>>
    BY <2>2 DEF Asking
  <2>5. up' = <<r>>
    BY <2>1, <2>4
  <2> QED BY <2>1, <2>2, <2>3, <2>4, <2>5 DEF Asking
<1>6. CASE Work
  <2>1. UNCHANGED <<down, up, asked, waiting>>
    BY <1>6 DEF Work, session
  <2>2. ~eof' /\ ~closing'
    BY <1>6 DEF Work, GuestEnds, Returns, ReportsError, Traps, Trapped, GoOnClosing, Leave,
                BridgeRefused, Stop, CloseOnEof, CloseDisable, CloseUnload, Return,
                Inv, Connection
  <2>3. pc # "callback" /\ pc' # "callback" /\ (pc' \in {"guest", "handled"} => Busy)
    BY <1>6, <2>2, WorkEffect
  <2> QED BY <2>1, <2>2, <2>3 DEF Asking
<1>7. CASE Send
  <2>1. PICK k \in Kinds : /\ down' = Append(down, [id |-> CommandId(sent), kind |-> k])
                          /\ waiting' = Append(waiting, [id |-> CommandId(sent), kind |-> k])
    BY <1>7 DEF Send, Ask
  <2> DEFINE c == [id |-> CommandId(sent), kind |-> k]
  <2>2. UNCHANGED <<vars, up, asked>> /\ waiting = <<>>
    BY <1>7 DEF Send, Ask
  <2>3. c \in Down /\ IsCommand(c)
    BY Parity DEF Down, IsCommand, Carried
  <2>4. down' = Append(down, c) /\ waiting' = Append(waiting, c)
    BY <2>1
  <2> HIDE DEF c
  <2>5. Empty /\ asked = NoCall /\ ~Busy /\ ~eof
    BY <2>2
  <2>6. down' = <<c>> /\ waiting' = <<c>>
    BY <2>2, <2>4, <2>5
  <2> QED BY <2>2, <2>3, <2>5, <2>6 DEF Asking, vars
<1>8. CASE Receive
  <2>1. /\ up # <<>> /\ up' = Tail(up) /\ UNCHANGED <<pc, cb, eof, down>>
        /\ asked = NoCall
    BY <1>8 DEF Receive, vars
  <2>2. \E w : waiting = <<w>>
    BY <2>1
  <2>3. CASE pc = "callback"
    <3>1. up = <<cb>> /\ down = <<>>
      BY <2>1, <2>2, <2>3 DEF Answering
    <3>2. ~IsCommand(cb)
      <4>1. cb.id \in Evens
        BY <2>3 DEF Carried
      <4>2. cb.id % 2 = 0
        BY <4>1, Parity
      <4> QED BY <4>2 DEF IsCommand
    <3>3. asked' = cb /\ UNCHANGED waiting /\ up' = <<>>
      BY <1>8, <2>1, <3>1, <3>2 DEF Receive
    <3> QED BY <2>1, <2>2, <2>3, <3>1, <3>3 DEF Answering
  <2>4. CASE pc # "callback"
    <3>1. ~Busy /\ down = <<>> /\ \E r \in Frames : up = <<r>> /\ IsCommand(r)
      BY <2>1, <2>2, <2>4 DEF Asking
    <3>2. asked' = NoCall /\ waiting' = Tail(waiting) /\ up' = <<>>
      BY <1>8, <2>1, <3>1 DEF Receive
    <3> QED BY <2>1, <2>2, <2>4, <3>1, <3>2
  <2> QED BY <2>3, <2>4
<1>9. CASE AnswerCallback
  <2>1. PICK f \in Answers :
          /\ f.id = asked.id /\ f.kind # "request"
          /\ f.kind = "result" /\ asked.kind = "handle" => f.output = "empty"
          /\ down' = Append(down, f)
    BY <1>9 DEF AnswerCallback, Ask
  <2>2. UNCHANGED <<pc, cb, eof, up, waiting>> /\ asked # NoCall /\ asked' = NoCall
    BY <1>9 DEF AnswerCallback, Ask, vars
  <2>3. waiting # <<>> /\ pc = "callback" /\ Empty /\ asked = cb
    BY <2>2 DEF Answering, Asking
  <2>4. down' = <<f>> /\ Accepts(cb, f)
    BY <2>1, <2>3 DEF Accepts, Answers
  <2>5. Accepts(cb', f)
    BY <2>2, <2>4
  <2> QED BY <2>1, <2>2, <2>3, <2>4, <2>5 DEF Answering
<1>10. CASE CloseSession
  BY <1>10 DEF CloseSession
<1>11. CASE StopReading
  BY <1>11 DEF StopReading
<1>12. CASE Ended \/ UNCHANGED joint
  BY <1>12 DEF Ended, joint, vars, session, Asking, Answering, Accepts
<1> QED BY <1>1, <1>2, <1>3, <1>4, <1>5, <1>6, <1>7, <1>8, <1>9, <1>10, <1>11, <1>12 DEF JointNext

LEMMA CalmInside == JointSpec => [](Inv /\ Carried /\ Calm)
<1>1. JointInit => Calm
  BY DEF JointInit, Init, Calm, Empty, Busy
<1> QED BY <1>1, TokenInside, CalmStep, PTL DEF JointSpec

\* A callback breaks only for a session that overtook itself or has closed.
THEOREM OnlyOvertaking == JointSpec => OnlyOvertakingBreaks
<1>1. Inv /\ Carried /\ Calm /\ [JointNext]_joint =>
        [pc = "callback" /\ poison' # poison => overtaken \/ hungUp]_joint
  <2> SUFFICES ASSUME Inv, Carried, Calm, JointNext, pc = "callback", poison' # poison,
                      ~overtaken, ~hungUp
               PROVE FALSE
    BY DEF joint, vars
  <2>1. CASE TakeAnswer
    <3>1. waiting # <<>> /\ down # <<>>
      BY <2>1 DEF TakeAnswer, Take, Calm, Busy
    <3>2. \E f \in Answers : down = <<f>> /\ Accepts(cb, f)
      BY <3>1 DEF Calm, Answering, Empty
    <3>3. ~IsCommand(Head(down)) /\ Accepts(cb, Head(down))
      BY <3>2, Single, Parity
    <3>4. Answered \/ AnsweredWithGarbage
      BY <2>1, <3>3 DEF TakeAnswer
    <3> QED BY <3>4, AnswerEffect
  <2>2. CASE EndOfInput
    BY <2>2 DEF EndOfInput, Calm
  <2>3. CASE Serve
    BY <2>3, ServeEffect DEF Serve, BadCommand
  <2>4. CASE SendCallback
    BY <2>4, CallEffect DEF SendCallback
  <2>5. CASE SendReply
    BY <2>5, ReplyEffect DEF SendReply
  <2>6. CASE Work
    BY <2>6, WorkEffect
  <2>7. CASE Send \/ Receive \/ AnswerCallback \/ CloseSession \/ Ended
    BY <2>7 DEF Send, Receive, AnswerCallback, CloseSession, Ended, Ask, joint, vars
  <2>8. CASE StopReading
    BY <2>8 DEF StopReading
  <2> QED BY <2>1, <2>2, <2>3, <2>4, <2>5, <2>6, <2>7, <2>8 DEF JointNext
<1> QED BY <1>1, CalmInside, PTL DEF JointSpec, OnlyOvertakingBreaks
-----------------------------------------------------------------------------
\* The order of commands and replies.
\*
\* While the session listens, its commands stand in one line: n replies in its
\* pipe, the command serve() is working on, and those the Host has yet to read.

\* What serve() is doing is what a command of kind k asks for.
Serves(k) ==
  /\ export # "none" => export = IF k = "shutdown" THEN "unload" ELSE k
  /\ outcome = "result" => k = "invoke"
  /\ outcome \in {"ok", "close"} => k # "invoke" /\ Confirmed(k) = PhaseOf(state)

\* The n replies come before every callback and answer the oldest commands.
Upward(n) ==
  /\ n <= Len(waiting)
  /\ \A i \in 1..Len(up) : IsCommand(up[i]) <=> i <= n
  /\ \A i \in 1..n : Matches(up[i], waiting[i])

\* serve() works on the next one.
Serving(n) ==
  Busy /\ ~closing =>
    n < Len(waiting) /\ waiting[n + 1].id = serving /\ Serves(waiting[n + 1].kind)

\* The rest is in the other pipe, perhaps behind the answer to a callback;
\* behind a command such an answer comes too late.
InHand == IF Busy /\ ~closing THEN 1 ELSE 0
Unread == IF down # <<>> /\ ~IsCommand(Head(down)) THEN Tail(down) ELSE down
Downward(n) ==
  ~poison /\ pc # "failed" /\ Commands(Unread) =>
    /\ Len(waiting) = n + InHand + Len(Unread)
    /\ \A i \in 1..Len(Unread) : waiting[n + InHand + i] = Unread[i]

\* The last success in the pipe, or else what the session believes, is what
\* the Host has confirmed last.
Heard(n) ==
  /\ (\A i \in 1..n : up[i].kind # "ok") => belief = told
  /\ \A i \in 1..n :
       up[i].kind = "ok" /\ (\A j \in (i + 1)..n : up[j].kind # "ok")
         => told = Confirmed(waiting[i].kind)

Order ==
  /\ hungUp => up = <<>>
  /\ eof => hungUp
  /\ ~hungUp => \E n \in 0..Len(up) : Upward(n) /\ Serving(n) /\ Downward(n) /\ Heard(n)

\* What the Host has confirmed last is where it is, but for a success that is
\* about to be confirmed and for the way out.
Confirms ==
  /\ pc \in {"reading", "guest", "callback", "closed"} /\ ~closing => told = PhaseOf(state)
  /\ outcome \in {"result", "error", "unsendable", "fatal"} => told = PhaseOf(state)

\* What is no command in the pipe up is a callback.
Asks(s) ==
  \A i \in 1..Len(s) : ~IsCommand(s[i]) => s[i] \in [id : Evens, kind : CallbackKinds]

\* The session's books.
Books ==
  /\ sent \in 0..CommandLimit /\ Len(waiting) <= Window
  /\ waiting \in Seq([id : Nat, kind : Kinds])
  /\ \A i \in 1..Len(waiting) : waiting[i].id = CommandId(sent - Len(waiting) + i - 1)
  /\ Asks(up)
  /\ asked \in [id : Evens, kind : CallbackKinds \cup {"none"}]
  /\ belief \in {"absent", "loaded", "enabled", "disabled", "gone"}
  /\ hungUp \in BOOLEAN /\ overtaken \in BOOLEAN

LEMMA Appended ==
  ASSUME NEW S, NEW s \in Seq(S), NEW f \in S
  PROVE  /\ Append(s, f) \in Seq(S) /\ Len(Append(s, f)) = Len(s) + 1 /\ Len(s) \in Nat
         /\ Append(s, f)[Len(s) + 1] = f
         /\ \A i \in 1..Len(s) : Append(s, f)[i] = s[i]
         /\ \A i \in 1..Len(Append(s, f)) : i \in 1..Len(s) \/ i = Len(s) + 1
  OBVIOUS

LEMMA Shifted ==
  ASSUME NEW S, NEW s \in Seq(S), s # <<>>
  PROVE  /\ Tail(s) \in Seq(S) /\ Len(Tail(s)) = Len(s) - 1 /\ Len(s) \in Nat \ {0}
         /\ Head(s) = s[1] /\ Head(s) \in S
         /\ \A i \in 1..Len(Tail(s)) : i + 1 \in 1..Len(s) /\ Tail(s)[i] = s[i + 1]
  OBVIOUS

\* A command is read behind what is unread, the answer to a callback is not.
LEMMA UnreadGrows ==
  ASSUME Carried, NEW f \in Down, down' = Append(down, f)
  PROVE  /\ IsCommand(f) => Unread' = Append(Unread, f)
         /\ ~IsCommand(f) => Unread' = Unread \/ ~Commands(Unread')
<1>1. /\ down \in Seq(Down) /\ down' \in Seq(Down) /\ down' # <<>>
      /\ Len(down') = Len(down) + 1 /\ Len(down) \in Nat
      /\ down'[Len(down) + 1] = f /\ \A i \in 1..Len(down) : down'[i] = down[i]
  BY Appended DEF Carried
<1>2. CASE down = <<>>
  <2>1. Head(down') = f /\ Tail(down') = <<>> /\ down' = <<f>>
    BY <1>2, Single
  <2> QED BY <1>2, <2>1 DEF Unread
<1>3. CASE down # <<>>
  <2>1. Head(down') = Head(down) /\ Tail(down') = Append(Tail(down), f)
    BY <1>1, <1>3
  <2>2. Unread' = Append(Unread, f) /\ Unread \in Seq(Down)
    BY <1>1, <1>3, <2>1, Shifted DEF Unread
  <2>3. ~IsCommand(f) => ~Commands(Append(Unread, f))
    BY <2>2, Appended DEF Commands
  <2> QED BY <2>2, <2>3 DEF Commands
<1> QED BY <1>2, <1>3

LEMMA UnreadCommands ==
  ASSUME NEW s \in Seq(Down), Commands(s) PROVE (down = s => Unread = s)
  BY TailsAre DEF Unread

-----------------------------------------------------------------------------
\* The Host confirms where it is.
LEMMA ConfirmsStep == Inv /\ Confirms /\ [Next]_vars => Confirms'
<1> SUFFICES ASSUME Inv, Confirms, [Next]_vars PROVE Confirms'
  OBVIOUS
<1> USE DEF Inv, TypeOK, Control, Connection, Ownership, LifecycleState, Exports, Confirms, PhaseOf
<1>1. CASE OutOfState
  BY <1>1 DEF OutOfState, Command, Handled
<1>2. CASE Hello
  BY <1>2 DEF Hello, Command, Handled, Requires, CommandTable, guestVars
<1>3. CASE Load
  BY <1>3 DEF Load, Command, Handled, Enter, Reportable
<1>4. CASE Shutdown
  BY <1>4 DEF Shutdown, Command, Handled, Enter
<1>5. CASE BadCommand
  BY <1>5 DEF BadCommand, guestVars
<1>6. CASE Returns
  BY <1>6 DEF Returns, Leave, GoOnClosing, Handled, Reportable, ReachedBy
<1>7. CASE ReportsError
  BY <1>7 DEF ReportsError, Leave, GoOnClosing, Handled, Reportable
<1>8. CASE Traps
  BY <1>8 DEF Traps, Trapped, Leave, GoOnClosing, Handled, Reportable, Poisons
<1>9. CASE BridgeRefused
  BY <1>9 DEF BridgeRefused
<1>10. CASE Answered
  BY <1>10 DEF Answered, Resume
<1>11. CASE Misanswered
  BY <1>11 DEF Misanswered, Resume
<1>12. CASE AnsweredWithGarbage
  BY <1>12 DEF AnsweredWithGarbage, Trapped, Leave, GoOnClosing, Handled, Reportable, Poisons
<1>13. CASE Reply
  BY <1>13 DEF Reply, MustStop
<1>14. CASE Stop
  BY <1>14 DEF Stop, MustStop
<1>15. CASE CloseOnEof
  BY <1>15 DEF CloseOnEof, guestVars
<1>16. CASE CloseDisable
  BY <1>16 DEF CloseDisable, Enter
<1>17. CASE CloseUnload
  BY <1>17 DEF CloseUnload, Enter, Taken
<1>18. CASE Return
  BY <1>18 DEF Return, guestVars
<1>19. CASE HangUp
  BY <1>19 DEF HangUp, Exited, guestVars
<1>20. CASE BreakPipe
  BY <1>20 DEF BreakPipe, Exited, guestVars
<1>21. CASE Terminated
  BY <1>21 DEF Terminated, vars
<1>22. CASE \E k \in {"enable", "invoke", "disable"} : CallGuest(k)
  BY <1>22 DEF CallGuest, Command, Handled, Enter
<1>23. CASE \E kind \in CallbackKinds : BridgeCall(kind)
  BY <1>23 DEF BridgeCall
<1>24. CASE UNCHANGED vars
  BY <1>24 DEF vars
<1> HIDE DEF Inv, TypeOK, Control, Connection, Ownership, LifecycleState, Exports, Confirms, PhaseOf
<1> QED
  BY <1>1, <1>2, <1>3, <1>4, <1>5, <1>6, <1>7, <1>8, <1>9, <1>10, <1>11, <1>12, <1>13,
     <1>14, <1>15, <1>16, <1>17, <1>18, <1>19, <1>20, <1>21, <1>22, <1>23, <1>24 DEF Next

-----------------------------------------------------------------------------
\* The line of commands.

LEMMA KindsAre == Kinds = {"hello", "load", "enable", "invoke", "disable", "shutdown"}
  BY DEF Kinds, CommandTable

LEMMA ReachedConfirms ==
  /\ Confirmed("load")' = PhaseOf(ReachedBy("load"))
  /\ Confirmed("enable")' = PhaseOf(ReachedBy("enable"))
  /\ Confirmed("disable")' = PhaseOf(ReachedBy("disable"))
  /\ Confirmed("shutdown")' = PhaseOf(ReachedBy("unload"))
BY DEF Confirmed, PhaseOf, ReachedBy

\* serve() begins what the command asks for.
LEMMA ServesBegins ==
  ASSUME Inv, NEW k \in Kinds, Perform(k)
  PROVE  Serves(k)' /\ told' = told
<1> USE DEF Inv, Control, Serves, Command, Handled, Enter, Reportable
<1>1. outcome = "none" /\ export = "none"
  BY DEF Perform, OutOfState, Hello, Load, CallGuest, Shutdown
<1>2. CASE OutOfState
  BY <1>1, <1>2 DEF OutOfState
<1>3. CASE k = "hello" /\ Hello
  BY <1>1, <1>3 DEF Hello, guestVars, Confirmed, PhaseOf
<1>4. CASE k = "load" /\ Load
  BY <1>1, <1>4 DEF Load
<1>5. CASE k \in {"enable", "invoke", "disable"} /\ CallGuest(k)
  BY <1>1, <1>5 DEF CallGuest
<1>6. CASE k = "shutdown" /\ Shutdown
  BY <1>1, <1>6 DEF Shutdown
<1> QED BY <1>2, <1>3, <1>4, <1>5, <1>6 DEF Perform

\* An export that ends, or an answer that ends it, leaves the reply it should.
LEMMA ServesGoesOn ==
  ASSUME Inv, NEW k \in Kinds, Serves(k), Busy, ~closing,
         Work \/ Answered \/ AnsweredWithGarbage \/ Misanswered
  PROVE  /\ pc' = "failed" \/ (Busy' /\ ~closing' /\ Serves(k)')
         /\ told' = told
<1> USE DEF Inv, TypeOK, Control, Ownership, Serves, Busy
<1>1. CASE Returns
  <2>1. /\ pc' = "handled" /\ ~closing' /\ export' = "none" /\ told' = told
        /\ state' = ReachedBy(export)
        /\ \/ export # "invoke" /\ outcome' \in {"ok", "close"}
           \/ export = "invoke" /\ outcome' \in {"result", "error", "unsendable"}
    BY <1>1 DEF Returns, Leave, GoOnClosing, Handled, Reportable
  <2>2. export = IF k = "shutdown" THEN "unload" ELSE k
    BY <1>1 DEF Returns
  <2>3. CASE k = "invoke"
    BY <2>1, <2>2, <2>3
  <2>4. CASE k # "invoke"
    <3>0. export \in Exports
      BY <1>1 DEF Returns
    <3>1. outcome' \in {"ok", "close"} /\ state' = ReachedBy(export) /\ export \in Exports
      BY <2>1, <2>2, <2>4, <3>0
    <3>2. Confirmed(k)' = PhaseOf(ReachedBy(export))
      <4>1. k \in {"load", "enable", "disable", "shutdown"}
        BY <2>2, <2>4, <3>1, KindsAre DEF Exports
      <4> QED BY <2>2, <4>1, ReachedConfirms
    <3>3. PhaseOf(state)' = PhaseOf(ReachedBy(export))
      BY Zenon, <3>1 DEF PhaseOf
    <3> QED BY <2>1, <2>4, <3>1, <3>2, <3>3
  <2> QED BY <2>3, <2>4
<1>2. CASE ReportsError
  BY <1>2 DEF ReportsError, Leave, GoOnClosing, Handled, Reportable
<1>3. CASE Traps \/ AnsweredWithGarbage
  BY <1>3 DEF Traps, AnsweredWithGarbage, Trapped, Leave, GoOnClosing, Handled, Reportable
<1>4. CASE BridgeRefused
  BY <1>4 DEF BridgeRefused
<1>5. CASE Answered \/ Misanswered
  BY <1>5 DEF Answered, Misanswered, Resume
<1>6. CASE Stop
  BY <1>6 DEF Stop
<1>7. CASE CloseOnEof \/ CloseDisable \/ CloseUnload \/ Return
  BY <1>7 DEF CloseOnEof, CloseDisable, CloseUnload, Return
<1> QED BY <1>1, <1>2, <1>3, <1>4, <1>5, <1>6, <1>7 DEF Work, GuestEnds

\* A Host that serves nothing and sees no end of its input does not begin to.
LEMMA IdleStays ==
  ASSUME Inv, ~Busy, ~eof, Work
  PROVE  ~Busy' /\ told' = told /\ pc' # "failed"
BY DEF Inv, Control, Connection, Busy, Work, GuestEnds, Returns, ReportsError, Traps, Trapped, BridgeRefused,
       Stop, CloseOnEof, CloseDisable, CloseUnload, Return

LEMMA HostEof ==
  ASSUME Inv, Serve \/ TakeAnswer \/ SendCallback \/ SendReply \/ Work
  PROVE  UNCHANGED eof /\ (closing' /\ ~closing => eof)
<1>1. CASE Serve
  BY <1>1, ServeEffect DEF Serve, BadCommand
<1>2. CASE TakeAnswer
  BY <1>2 DEF TakeAnswer, Answered, AnsweredWithGarbage, Misanswered, Resume, Trapped, Leave
<1>3. CASE SendCallback
  BY <1>3, CallEffect DEF SendCallback
<1>4. CASE SendReply
  BY <1>4, ReplyEffect DEF SendReply
<1>5. CASE Work
  BY <1>5 DEF Work, GuestEnds, Returns, ReportsError, Traps, Trapped, Leave,
              BridgeRefused, Stop, CloseOnEof, CloseDisable, CloseUnload, Return
<1> QED BY <1>1, <1>2, <1>3, <1>4, <1>5

LEMMA AsksNothing == Asks(<<>>)
BY DEF Asks

LEMMA AsksGrows ==
  ASSUME NEW s \in Seq(Frames), NEW f \in Frames, Asks(s),
         IsCommand(f) \/ f \in [id : Evens, kind : CallbackKinds]
  PROVE  Asks(Append(s, f))
<1> DEFINE t == Append(s, f)
<1>1. /\ Len(s) \in Nat /\ t[Len(s) + 1] = f /\ \A i \in 1..Len(s) : t[i] = s[i]
      /\ \A i \in 1..Len(t) : i \in 1..Len(s) \/ i = Len(s) + 1
  BY Appended
<1> HIDE DEF t
<1>2. ASSUME NEW i \in 1..Len(t), ~IsCommand(t[i])
      PROVE  t[i] \in [id : Evens, kind : CallbackKinds]
  <2>1. CASE i \in 1..Len(s)
    <3>1. t[i] = s[i]
      BY <1>1, <2>1
    <3> QED BY <1>2, <2>1, <3>1 DEF Asks
  <2>2. CASE i = Len(s) + 1
    <3>1. t[i] = f
      BY <1>1, <2>2
    <3> QED BY <1>2, <3>1
  <2> QED BY <1>1, <2>1, <2>2
<1>3. Asks(t)
  BY <1>2 DEF Asks
<1> QED BY <1>3 DEF t

LEMMA AsksShifts ==
  ASSUME NEW s \in Seq(Frames), s # <<>>, Asks(s)
  PROVE  /\ Asks(Tail(s))
         /\ ~IsCommand(Head(s)) => Head(s) \in [id : Evens, kind : CallbackKinds]
<1> DEFINE t == Tail(s)
<1>1. /\ 1 \in 1..Len(s) /\ Head(s) = s[1]
      /\ \A i \in 1..Len(t) : i + 1 \in 1..Len(s) /\ t[i] = s[i + 1]
  BY Shifted
<1>2. ~IsCommand(Head(s)) => Head(s) \in [id : Evens, kind : CallbackKinds]
  BY <1>1, Zenon DEF Asks
<1> HIDE DEF t
<1>3. ASSUME NEW i \in 1..Len(t), ~IsCommand(t[i])
      PROVE  t[i] \in [id : Evens, kind : CallbackKinds]
  <2>1. i + 1 \in 1..Len(s) /\ t[i] = s[i + 1]
    BY <1>1
  <2> DEFINE j == i + 1
  <2>2. j \in 1..Len(s) /\ t[i] = s[j]
    BY <2>1
  <2> HIDE DEF j
  <2> QED BY <1>3, <2>2, Zenon DEF Asks
<1>4. Asks(t)
  BY <1>3, Zenon DEF Asks
<1> QED BY <1>2, <1>4 DEF t

\* The Host's own steps leave the books alone.
LEMMA BooksKept ==
  ASSUME Books, Carried, UNCHANGED session,
         NEW f \in Frames, IsCommand(f) \/ f \in [id : Evens, kind : CallbackKinds],
         up' \in {up, Append(up, f)}
  PROVE  Books'
<1>1. Asks(up)
  BY DEF Books
<1>2. Asks(Append(up, f))
  BY <1>1, AsksGrows DEF Carried
<1>3. Asks(up')
  BY <1>1, <1>2
<1> QED BY <1>3 DEF Books, session

\* The session's books stay in order.
LEMMA BooksStep == Inv /\ Carried /\ Books /\ Order /\ [JointNext]_joint => Books'
<1> SUFFICES ASSUME Inv, Carried, Books, Order, [JointNext]_joint PROVE Books'
  OBVIOUS
<1>1. CASE Serve \/ TakeAnswer \/ EndOfInput \/ Work \/ StopReading \/ Ended \/ UNCHANGED joint
  BY <1>1 DEF Serve, TakeAnswer, EndOfInput, Work, StopReading, Ended, joint, session, Books
<1>2. CASE SendCallback
  <2>1. PICK kind \in CallbackKinds : BridgeCall(kind) /\ Put(cb')
    BY <1>2 DEF SendCallback
  <2>2. UNCHANGED session /\ up' \in {up, Append(up, cb')}
    BY <2>1 DEF Put
  <2>3. cb' \in Frames /\ cb' \in [id : Evens, kind : CallbackKinds]
    BY <2>1, CallEffect DEF BridgeCall, Inv, TypeOK
  <2>4. PICK f \in Frames : f = cb'
    BY <2>3
  <2>5. f \in [id : Evens, kind : CallbackKinds] /\ up' \in {up, Append(up, f)}
    BY <2>2, <2>3, <2>4
  <2> QED BY <2>2, <2>5, BooksKept
<1>3. CASE SendReply
  <2> DEFINE f == [id |-> serving, kind |-> IF outcome = "close" THEN "ok" ELSE outcome]
  <2>1. Reply /\ UNCHANGED session /\ up' \in {up, Append(up, f)}
    BY <1>3 DEF SendReply, Put
  <2>2. f \in Frames /\ IsCommand(f)
    BY <2>1, ReplyEffect DEF Frames, IsCommand, Carried, Inv, Control
  <2> HIDE DEF f
  <2> QED BY <2>1, <2>2, BooksKept
<1> USE DEF Books
<1>4. CASE Send
  <2>1. PICK k \in Kinds : waiting' = Append(waiting, [id |-> CommandId(sent), kind |-> k])
    BY <1>4 DEF Send
  <2> DEFINE c == [id |-> CommandId(sent), kind |-> k]
  <2>2. c \in [id : Nat, kind : Kinds]
    BY Parity DEF Carried
  <2>3. /\ Len(waiting') = Len(waiting) + 1 /\ waiting'[Len(waiting) + 1] = c
        /\ \A i \in 1..Len(waiting) : waiting'[i] = waiting[i]
        /\ waiting' \in Seq([id : Nat, kind : Kinds]) /\ Len(waiting) \in Nat
    BY <2>1, <2>2, Appended
  <2>4. sent' = sent + 1 /\ sent' \in 0..CommandLimit /\ Len(waiting') <= Window
    BY <1>4, <2>3, SessionAssumption DEF Send
  <2>5. \A i \in 1..Len(waiting') : waiting'[i].id = CommandId(sent' - Len(waiting') + i - 1)
    <3> SUFFICES ASSUME NEW i \in 1..Len(waiting')
                 PROVE  waiting'[i].id = CommandId(sent' - Len(waiting') + i - 1)
      OBVIOUS
    <3>1. sent' - Len(waiting') + i - 1 = sent - Len(waiting) + i - 1
      BY <2>3, <2>4
    <3>2. CASE i \in 1..Len(waiting)
      BY <2>3, <3>1, <3>2
    <3>3. CASE i = Len(waiting) + 1
      <4>1. sent - Len(waiting) + i - 1 = sent
        BY <2>3, <3>3
      <4> QED BY <2>3, <3>1, <3>3, <4>1
    <3> QED BY <2>3, <3>2, <3>3
  <2>6. UNCHANGED <<up, asked, belief, hungUp>> /\ overtaken' \in BOOLEAN
    BY <1>4 DEF Send, Ask
  <2> QED BY <2>3, <2>4, <2>5, <2>6
<1>5. CASE Receive
  <2>1. /\ ~hungUp /\ up # <<>> /\ asked = NoCall /\ up' = Tail(up)
        /\ UNCHANGED <<sent, hungUp, overtaken>>
    BY <1>5 DEF Receive
  <2>2. /\ up \in Seq(Frames) /\ Len(up) \in Nat \ {0} /\ Head(up) = up[1] /\ Head(up) \in Frames
    BY <2>1, Shifted DEF Carried
  <2>3. Asks(up') /\ (~IsCommand(Head(up)) => Head(up) \in [id : Evens, kind : CallbackKinds])
    BY <2>1, <2>2, AsksShifts
  <2>4. CASE IsCommand(Head(up))
    <3>1. PICK n \in 0..Len(up) : Upward(n)
      BY <2>1 DEF Order
    <3>2. n >= 1 /\ waiting # <<>>
      BY <2>2, <2>4, <3>1 DEF Upward
    <3>3. /\ waiting' = Tail(waiting) /\ UNCHANGED asked
          /\ belief' = IF Head(up).kind = "ok" THEN Confirmed(Head(waiting).kind) ELSE belief
      BY <1>5, <2>4 DEF Receive
    <3>4. /\ waiting' \in Seq([id : Nat, kind : Kinds]) /\ Len(waiting') = Len(waiting) - 1
          /\ Len(waiting) \in Nat /\ Window \in Nat
          /\ \A i \in 1..Len(waiting') : i + 1 \in 1..Len(waiting) /\ waiting'[i] = waiting[i + 1]
      BY <3>2, <3>3, Shifted, SessionAssumption
    <3>5. \A i \in 1..Len(waiting') : waiting'[i].id = CommandId(sent' - Len(waiting') + i - 1)
      <4> SUFFICES ASSUME NEW i \in 1..Len(waiting')
                   PROVE  waiting'[i].id = CommandId(sent' - Len(waiting') + i - 1)
        OBVIOUS
      <4>1. sent - Len(waiting) + (i + 1) - 1 = sent' - Len(waiting') + i - 1
        BY <2>1, <3>4
      <4>2. waiting[i + 1].id = CommandId(sent - Len(waiting) + (i + 1) - 1)
        BY <3>4
      <4> QED BY <3>4, <4>1, <4>2
    <3>6. belief' \in {"absent", "loaded", "enabled", "disabled", "gone"}
      BY <3>3 DEF Confirmed
    <3> QED BY <2>1, <2>3, <3>3, <3>4, <3>5, <3>6
  <2>5. CASE ~IsCommand(Head(up))
    <3>1. asked' = Head(up) /\ UNCHANGED <<waiting, belief>>
      BY <1>5, <2>5 DEF Receive
    <3>2. Head(up) \in [id : Evens, kind : CallbackKinds]
      BY <2>3, <2>5
    <3> QED BY <2>1, <2>3, <3>1, <3>2
  <2> QED BY <2>4, <2>5
<1>6. CASE AnswerCallback
  BY <1>6, NoCallTyped DEF AnswerCallback, Ask
<1>7. CASE CloseSession
  <2>1. /\ hungUp' = TRUE /\ up' = <<>>
        /\ UNCHANGED <<sent, waiting, asked, belief, overtaken>>
    BY <1>7 DEF CloseSession
  <2> QED BY <2>1, AsksNothing
<1> QED BY <1>1, <1>2, <1>3, <1>4, <1>5, <1>6, <1>7 DEF JointNext

\* What the Host writes and what the session reads apart, the replies and
\* what they confirm stay as they are.
LEMMA Keeps ==
  ASSUME NEW n, UNCHANGED <<up, waiting, belief, told>>
  PROVE  (Upward(n)' <=> Upward(n)) /\ (Heard(n)' <=> Heard(n))
BY DEF Upward, Heard, Matches, IsCommand, Confirmed

LEMMA ServesKeeps ==
  ASSUME NEW k, UNCHANGED <<export, outcome, state, belief>>
  PROVE  Serves(k)' <=> Serves(k)
BY DEF Serves, Confirmed, PhaseOf

LEMMA LineTyped ==
  ASSUME Books, NEW n \in Nat, n < Len(waiting)
  PROVE  waiting[n + 1] \in [id : Nat, kind : Kinds] /\ waiting[n + 1].kind \in Kinds
<1> DEFINE S == [id : Nat, kind : Kinds]
<1>1. waiting \in Seq(S) /\ Len(waiting) \in Nat
  BY DEF Books
<1>2. n + 1 \in 1..Len(waiting)
  BY <1>1
<1> HIDE DEF S
<1>3. waiting[n + 1] \in S
  BY <1>1, <1>2
<1> QED BY <1>3 DEF S

\* The command serve() takes moves from the one pipe into its hands.
LEMMA OrderServe ==
  ASSUME Inv, Carried, Carried', Token, Books, NEW n \in Nat, ~hungUp, ~closing', Serve,
         Upward(n), Serving(n), Downward(n), Heard(n)
  PROVE  (Upward(n) /\ Serving(n) /\ Downward(n) /\ Heard(n))'
<1>1. /\ down # <<>> /\ down' = Tail(down) /\ serving' = Head(down).id
      /\ UNCHANGED <<up, asked, waiting, belief>>
  BY DEF Serve, Take, session
<1>2. pc = "reading" /\ ~poison /\ ~closing
  BY ServeEffect DEF Serve, BadCommand, Inv, Connection, Control
<1>3. /\ down \in Seq(Down) /\ Head(down) \in Down /\ Tail(down) \in Seq(Down)
      /\ Commands(down) /\ IsCommand(Head(down)) /\ Commands(Tail(down))
  BY <1>1, <1>2, TailsAre DEF Carried, Token
<1>4. Unread = down /\ Unread' = Tail(down)
  BY <1>1, <1>3, TailsAre DEF Unread
<1>5. Head(down) \in [id : Nat, kind : Kinds] /\ Perform(Head(down).kind)
  BY <1>3, Parity DEF Serve, Down
<1> DEFINE c == Head(down)
<1>6. PICK k \in Kinds : c.kind = k
  BY <1>5
<1>6a. Serves(k)' /\ UNCHANGED told
  BY <1>5, <1>6, ServesBegins
<1>7. ~Busy /\ Busy' /\ pc # "failed"
  BY <1>2, <1>5, ServeEffect DEF Busy
<1>8. InHand = 0 /\ InHand' = 1
  BY <1>7 DEF InHand
<1>9. /\ Len(waiting) = n + Len(down)
      /\ \A i \in 1..Len(down) : waiting[n + i] = down[i]
  BY <1>2, <1>3, <1>4, <1>7, <1>8 DEF Downward
<1>10. /\ Len(Tail(down)) = Len(down) - 1 /\ Len(down) \in Nat \ {0} /\ Head(down) = down[1]
       /\ \A i \in 1..Len(Tail(down)) : i + 1 \in 1..Len(down) /\ Tail(down)[i] = down[i + 1]
  BY <1>1, <1>3, Shifted
<1>11. Upward(n)' /\ Heard(n)'
  BY <1>1, <1>6a, Keeps
<1>12. n < Len(waiting) /\ waiting[n + 1] = Head(down)
  BY <1>9, <1>10
<1>13. Serving(n)'
  <2>1. n < Len(waiting') /\ waiting'[n + 1].id = serving' /\ waiting'[n + 1].kind = k
    BY <1>1, <1>6, <1>12
  <2> QED BY <1>6a, <2>1 DEF Serving
<1>14. Downward(n)'
  <2>1. Len(waiting') = n + 1 + Len(Tail(down))
    BY <1>1, <1>9, <1>10
  <2>2. \A i \in 1..Len(Tail(down)) : waiting'[n + 1 + i] = Tail(down)[i]
    <3> SUFFICES ASSUME NEW i \in 1..Len(Tail(down)) PROVE waiting[n + 1 + i] = Tail(down)[i]
      BY <1>1
    <3>1. i + 1 \in 1..Len(down) /\ Tail(down)[i] = down[i + 1] /\ i \in Nat
      BY <1>10
    <3>2. waiting[n + (i + 1)] = down[i + 1]
      BY <1>9, <3>1
    <3>3. n + (i + 1) = n + 1 + i
      BY <3>1
    <3> QED BY <3>1, <3>2, <3>3
  <2> QED BY <1>4, <1>8, <2>1, <2>2 DEF Downward
<1> QED BY <1>11, <1>13, <1>14

\* The answer to a callback goes from before the commands, and an export that
\* goes on or ends keeps the command it serves.
LEMMA OrderAnswer ==
  ASSUME Inv, Carried, Token, Books, NEW n \in Nat, ~hungUp, ~closing, ~closing', TakeAnswer,
         Upward(n), Serving(n), Downward(n), Heard(n)
  PROVE  (Upward(n) /\ Serving(n) /\ Downward(n) /\ Heard(n))'
<1>1. /\ down # <<>> /\ down' = Tail(down) /\ UNCHANGED <<up, asked, waiting, belief, serving>>
  BY DEF TakeAnswer, Take, KeptId, session
<1>2. Misanswered \/ Answered \/ AnsweredWithGarbage
  BY DEF TakeAnswer
<1>3. Busy /\ pc = "callback"
  BY <1>2, AnswerEffect, MisansweredEffect DEF Busy
<1>4. n < Len(waiting) /\ waiting[n + 1].id = serving /\ Serves(waiting[n + 1].kind)
  BY <1>3 DEF Serving
<1>5. PICK k \in Kinds : waiting[n + 1].kind = k
  BY <1>4, LineTyped
<1>6. told' = told /\ (pc' = "failed" \/ (Busy' /\ Serves(k)'))
  BY <1>1, <1>2, <1>3, <1>4, <1>5, ServesGoesOn
<1>7. Upward(n)' /\ Heard(n)'
  BY <1>1, <1>6, Keeps
<1>8. Serving(n)'
  <2>1. n < Len(waiting') /\ waiting'[n + 1].id = serving' /\ waiting'[n + 1].kind = k
    BY <1>1, <1>4, <1>5
  <2> QED BY <1>6, <2>1 DEF Serving, Busy
<1>9. ASSUME ~poison' PROVE UNCHANGED <<Unread, poison>>
  <2>1. ~IsCommand(Head(down)) /\ (Answered \/ AnsweredWithGarbage)
    BY <1>9, MisansweredEffect DEF TakeAnswer
  <2>2. OneOther(down)
    BY <1>1, <1>3, <1>9, <2>1, AnswerEffect, TailsAre DEF Carried, Token
  <2>3. Commands(Tail(down)) /\ Tail(down) \in Seq(Down)
    BY <1>1, <2>1, <2>2, TailsAre DEF Carried
  <2>4. Unread = Tail(down) /\ Unread' = Tail(down)
    BY <1>1, <2>1, <2>3, TailsAre DEF Unread
  <2> QED BY <2>1, <2>4, AnswerEffect
<1>10. Downward(n)'
  <2>1. CASE poison' \/ pc' = "failed"
    BY <2>1 DEF Downward
  <2>2. CASE ~poison' /\ pc' # "failed"
    <3>1. InHand = 1 /\ InHand' = 1
      BY <1>3, <1>6, <2>2 DEF InHand
    <3> QED BY <1>1, <1>3, <1>9, <2>2, <3>1 DEF Downward, Commands
  <2> QED BY <2>1, <2>2
<1> QED BY <1>7, <1>8, <1>10

LEMMA OrderCall ==
  ASSUME Inv, Carried, Books, NEW n \in 0..Len(up), ~hungUp, SendCallback,
         Upward(n), Serving(n), Downward(n), Heard(n)
  PROVE  n \in 0..Len(up') /\ (Upward(n) /\ Serving(n) /\ Downward(n) /\ Heard(n))'
<1>1. PICK kind \in CallbackKinds : BridgeCall(kind) /\ Put(cb')
  BY DEF SendCallback
<1>2. UNCHANGED <<down, serving, waiting, belief>> /\ up' = Append(up, cb')
  BY <1>1 DEF Put, session
<1>3. /\ pc = "guest" /\ pc' = "callback" /\ cb' \in Frames /\ ~IsCommand(cb')
      /\ UNCHANGED <<poison, closing>>
  BY <1>1, CallEffect
<1>4. UNCHANGED <<export, outcome, state, told>>
  BY <1>1 DEF BridgeCall
<1>5. /\ Len(up') = Len(up) + 1 /\ Len(up) \in Nat /\ up'[Len(up) + 1] = cb'
      /\ \A i \in 1..Len(up) : up'[i] = up[i]
      /\ \A i \in 1..Len(up') : i \in 1..Len(up) \/ i = Len(up) + 1
  BY <1>2, <1>3, Appended DEF Carried
<1>6. \A i \in 1..n : up'[i] = up[i]
  BY <1>5
<1>7. Upward(n)'
  BY <1>2, <1>3, <1>5, <1>6 DEF Upward, Matches, IsCommand
<1>8. Heard(n)'
  BY <1>2, <1>4, <1>6 DEF Heard, Confirmed
<1>9. Serving(n)'
  BY <1>2, <1>3, <1>4, ServesKeeps DEF Serving, Busy
<1>10. UNCHANGED <<Unread, InHand>>
  BY <1>2, <1>3 DEF Unread, InHand, Busy
<1>11. Downward(n)'
  BY <1>2, <1>3, <1>10 DEF Downward, Commands
<1> QED BY <1>5, <1>7, <1>8, <1>9, <1>11

\* The reply is the next of the session's line.
LEMMA OrderReply ==
  ASSUME Inv, Carried, Token, Books, NEW n \in 0..Len(up), ~hungUp, ~closing, SendReply,
         Upward(n), Serving(n), Downward(n), Heard(n)
  PROVE  /\ n + 1 \in 0..Len(up')
         /\ (Upward(n + 1) /\ Serving(n + 1) /\ Downward(n + 1) /\ Heard(n + 1))'
<1> DEFINE f == [id |-> serving, kind |-> IF outcome = "close" THEN "ok" ELSE outcome]
           k == waiting[n + 1].kind
<1>1. Reply /\ UNCHANGED <<down, serving, waiting, belief>> /\ up' = Append(up, f)
  BY DEF SendReply, Put, session
<1>2. /\ pc = "handled" /\ pc' \in {"reading", "closed"} /\ ~poison
      /\ UNCHANGED <<poison, closing>> /\ outcome \in {"ok", "result", "error", "close"}
  BY <1>1, ReplyEffect DEF Reply, MustStop
<1>3. told' = IF outcome \in {"ok", "close"} THEN PhaseOf(state) ELSE told
  BY <1>1 DEF Reply
<1>4. f \in Frames /\ IsCommand(f)
  BY <1>2 DEF Frames, IsCommand, Carried
<1>5. n = Len(up)
  <2>1. Commands(up) /\ Len(up) \in Nat
    BY <1>2 DEF Token, Carried
  <2>2. n < Len(up) => n + 1 \in 1..Len(up) /\ ~(n + 1 <= n)
    BY <2>1
  <2> QED BY <2>1, <2>2 DEF Commands, Upward
<1>6. n < Len(waiting) /\ waiting[n + 1].id = serving /\ Serves(k)
  BY <1>2 DEF Serving, Busy
<1>7. /\ f.id = waiting[n + 1].id
      /\ f.kind = "result" => outcome = "result"
      /\ f.kind = "ok" <=> outcome \in {"ok", "close"}
  BY <1>2, <1>6
<1>8. Matches(f, waiting[n + 1])
  BY <1>6, <1>7 DEF Matches, Serves
<1>9. f.kind = "ok" => told' = Confirmed(k)
  BY <1>3, <1>6, <1>7 DEF Serves
<1>10. f.kind # "ok" => told' = told
  BY <1>3, <1>7
<1>11. f \in Frames /\ IsCommand(f)
  BY <1>4
<1> HIDE DEF f
<1>12. /\ Len(up') = n + 1 /\ n \in Nat /\ up'[n + 1] = f
       /\ \A i \in 1..n : up'[i] = up[i] /\ i \in 1..Len(up)
       /\ \A i \in 1..(n + 1) : i \in 1..n \/ i = n + 1
  BY <1>1, <1>5, <1>11, Appended DEF Carried
<1>13. Upward(n + 1)'
  <2>1. n + 1 <= Len(waiting')
    BY <1>1, <1>6, <1>12 DEF Books
  <2>2. \A i \in 1..Len(up') : IsCommand(up'[i]) /\ i <= n + 1
    BY <1>11, <1>12 DEF Upward, IsCommand
  <2>3. \A i \in 1..(n + 1) : Matches(up'[i], waiting'[i])
    BY <1>1, <1>8, <1>12 DEF Upward, Matches
  <2> QED BY <2>1, <2>2, <2>3 DEF Upward, IsCommand, Matches
<1>14. Serving(n + 1)'
  BY <1>2 DEF Serving, Busy
<1>15. Downward(n + 1)'
  <2>1. InHand = 1 /\ InHand' = 0 /\ Unread' = Unread /\ pc # "failed"
    BY <1>1, <1>2 DEF InHand, Busy, Unread
  <2>2. n + 1 + 0 = n + 1
    BY <1>12
  <2> QED BY <1>1, <1>2, <2>1, <2>2 DEF Downward, Commands
<1>16. Heard(n + 1)'
  <2>1. n + 1 \in 1..(n + 1) /\ \A i \in 1..n : i \in 1..(n + 1)
    BY <1>12
  <2>2. (\A i \in 1..(n + 1) : up'[i].kind # "ok") => belief' = told'
    BY <1>1, <1>10, <1>12, <2>1 DEF Heard
  <2>3. ASSUME NEW i \in 1..(n + 1), up'[i].kind = "ok",
               \A j \in (i + 1)..(n + 1) : up'[j].kind # "ok"
        PROVE  told' = Confirmed(waiting[i].kind)
    <3>1. CASE i = n + 1
      BY <1>9, <1>12, <2>3, <3>1
    <3>2. CASE i \in 1..n
      <4>1. f.kind # "ok" /\ \A j \in (i + 1)..n : up[j].kind # "ok"
        BY <1>12, <2>3, <3>2
      <4> QED BY <1>10, <1>12, <2>3, <3>2, <4>1 DEF Heard
    <3> QED BY <1>12, <3>1, <3>2
  <2>4. \A x : Confirmed(x)' = Confirmed(x)
    BY <1>1 DEF Confirmed
  <2> QED BY <1>1, <2>2, <2>3, <2>4 DEF Heard
<1> QED BY <1>12, <1>13, <1>14, <1>15, <1>16

LEMMA OrderWork ==
  ASSUME Inv, Carried, Books, NEW n \in Nat, ~hungUp, ~eof, ~closing, ~closing', Work,
         Upward(n), Serving(n), Downward(n), Heard(n)
  PROVE  (Upward(n) /\ Serving(n) /\ Downward(n) /\ Heard(n))'
<1>1. UNCHANGED <<down, up, serving, waiting, belief>>
  BY DEF Work, session
<1>2. poison => poison'
  BY WorkEffect
<1>3. CASE Busy
  <2>1. n < Len(waiting) /\ waiting[n + 1].id = serving /\ Serves(waiting[n + 1].kind)
    BY <1>3 DEF Serving
  <2>2. PICK k \in Kinds : waiting[n + 1].kind = k
    BY <2>1, LineTyped
  <2>3. told' = told /\ (pc' = "failed" \/ (Busy' /\ Serves(k)'))
    BY <1>3, <2>1, <2>2, ServesGoesOn
  <2>4. Upward(n)' /\ Heard(n)'
    BY <1>1, <2>3, Keeps
  <2>5. Serving(n)'
    <3>1. n < Len(waiting') /\ waiting'[n + 1].id = serving' /\ waiting'[n + 1].kind = k
      BY <1>1, <2>1, <2>2
    <3> QED BY <2>3, <3>1 DEF Serving, Busy
  <2>6. Downward(n)'
    <3>1. CASE pc' = "failed"
      BY <3>1 DEF Downward
    <3>2. CASE pc' # "failed"
      <4>1. InHand = 1 /\ InHand' = 1 /\ Unread' = Unread /\ pc # "failed"
        BY <1>1, <1>3, <2>3, <3>2 DEF InHand, Unread, Busy
      <4> QED BY <1>1, <1>2, <4>1 DEF Downward, Commands
    <3> QED BY <3>1, <3>2
  <2> QED BY <2>4, <2>5, <2>6
<1>4. CASE ~Busy
  <2>1. ~Busy' /\ told' = told /\ pc' # "failed"
    BY <1>4, IdleStays
  <2>2. pc # "failed"
    BY DEF Work, GuestEnds, Returns, ReportsError, Traps, BridgeRefused, Stop, CloseOnEof,
           CloseDisable, CloseUnload, Return
  <2>3. Upward(n)' /\ Heard(n)'
    BY <1>1, <2>1, Keeps
  <2>4. InHand = 0 /\ InHand' = 0 /\ Unread' = Unread
    BY <1>1, <1>4, <2>1 DEF InHand, Unread
  <2>5. Downward(n)'
    BY <1>1, <1>2, <2>2, <2>4 DEF Downward, Commands
  <2> QED BY <2>1, <2>3, <2>5 DEF Serving
<1> QED BY <1>3, <1>4

\* A new command goes to the end of the line and of the pipe.
LEMMA OrderSend ==
  ASSUME Carried, Books, NEW n \in 0..Len(up), Send,
         Upward(n), Serving(n), Downward(n), Heard(n)
  PROVE  (Upward(n) /\ Serving(n) /\ Downward(n) /\ Heard(n))'
<1>1. PICK k \in Kinds : /\ down' = Append(down, [id |-> CommandId(sent), kind |-> k])
                        /\ waiting' = Append(waiting, [id |-> CommandId(sent), kind |-> k])
  BY DEF Send, Ask
<1> DEFINE c == [id |-> CommandId(sent), kind |-> k]
           S == [id : Nat, kind : Kinds]
<1>2. UNCHANGED <<vars, up, serving, belief>>
  BY DEF Send, Ask
<1>3. c \in Down /\ c \in S /\ IsCommand(c)
  BY Parity DEF Down, IsCommand, Carried
<1>4. down' = Append(down, c) /\ waiting' = Append(waiting, c) /\ waiting \in Seq(S)
  BY <1>1 DEF Books
<1> HIDE DEF c, S
<1>5. /\ Len(waiting') = Len(waiting) + 1 /\ Len(waiting) \in Nat
      /\ waiting'[Len(waiting) + 1] = c
      /\ \A i \in 1..Len(waiting) : waiting'[i] = waiting[i]
  BY <1>3, <1>4, Appended
<1>6. n \in Nat /\ n <= Len(waiting) /\ \A i \in 1..n : waiting'[i] = waiting[i]
  <2>1. n <= Len(waiting) /\ n \in Nat
    BY DEF Upward, Carried
  <2> QED BY <1>5, <2>1
<1>7. Upward(n)'
  <2>1. n <= Len(waiting')
    BY <1>5, <1>6
  <2> QED BY <1>2, <1>6, <2>1 DEF Upward, Matches, IsCommand
<1>8. Heard(n)'
  BY <1>2, <1>6 DEF Heard, Confirmed, vars
<1>9. Serving(n)'
  <2>1. n < Len(waiting) => n < Len(waiting') /\ waiting'[n + 1] = waiting[n + 1]
    BY <1>5, <1>6
  <2>2. \A x : Serves(x)' <=> Serves(x)
    BY <1>2 DEF Serves, Confirmed, vars, PhaseOf
  <2>3. UNCHANGED <<Busy, closing>>
    BY <1>2 DEF vars, Busy
  <2> QED BY <1>2, <2>1, <2>2, <2>3 DEF Serving
<1>10. Downward(n)'
  <2>1. Unread' = Append(Unread, c)
    BY <1>3, <1>4, UnreadGrows
  <2>2. Unread \in Seq(Down)
    BY Shifted DEF Unread, Carried
  <2>3. /\ Len(Unread') = Len(Unread) + 1 /\ Len(Unread) \in Nat
        /\ Unread'[Len(Unread) + 1] = c
        /\ \A i \in 1..Len(Unread) : Unread'[i] = Unread[i] /\ i \in 1..Len(Unread')
        /\ \A i \in 1..Len(Unread') : i \in 1..Len(Unread) \/ i = Len(Unread) + 1
    BY <1>3, <2>1, <2>2, Appended
  <2>4. InHand' = InHand /\ InHand \in {0, 1} /\ UNCHANGED <<poison, pc>>
    BY <1>2 DEF InHand, vars, Busy
  <2> SUFFICES ASSUME ~poison, pc # "failed", Commands(Unread')
               PROVE  /\ Len(waiting') = n + InHand + Len(Unread')
                      /\ \A i \in 1..Len(Unread') : waiting'[n + InHand + i] = Unread'[i]
    BY <2>4 DEF Downward, Commands
  <2>5. Commands(Unread)
    BY <2>3 DEF Commands, IsCommand
  <2>6. /\ Len(waiting) = n + InHand + Len(Unread)
        /\ \A i \in 1..Len(Unread) : waiting[n + InHand + i] = Unread[i]
    BY <2>5 DEF Downward
  <2>7. ASSUME NEW i \in 1..Len(Unread') PROVE waiting'[n + InHand + i] = Unread'[i]
    <3>1. CASE i \in 1..Len(Unread)
      <4>1. n + InHand + i \in 1..Len(waiting)
        BY <1>6, <2>3, <2>4, <2>6, <3>1
      <4> QED BY <1>5, <2>3, <2>6, <3>1, <4>1
    <3>2. CASE i = Len(Unread) + 1
      <4>1. n + InHand + i = Len(waiting) + 1
        BY <1>6, <2>3, <2>4, <2>6, <3>2
      <4> QED BY <1>5, <2>3, <3>2, <4>1
    <3> QED BY <2>3, <2>7, <3>1, <3>2
  <2>8. Len(waiting') = n + InHand + Len(Unread')
    BY <1>5, <1>6, <2>3, <2>4, <2>6
  <2> QED BY <2>7, <2>8
<1> QED BY <1>7, <1>8, <1>9, <1>10

\* A reply is taken off the line together with its command.
LEMMA OrderReceive ==
  ASSUME Carried, Books, NEW n \in 0..Len(up), ~hungUp, Receive, IsCommand(Head(up)),
         Upward(n), Serving(n), Downward(n), Heard(n)
  PROVE  /\ n - 1 \in 0..Len(up')
         /\ (Upward(n - 1) /\ Serving(n - 1) /\ Downward(n - 1) /\ Heard(n - 1))'
<1> DEFINE S == [id : Nat, kind : Kinds]
<1>1. /\ up # <<>> /\ up' = Tail(up) /\ waiting' = Tail(waiting)
      /\ belief' = IF Head(up).kind = "ok" THEN Confirmed(Head(waiting).kind) ELSE belief
      /\ UNCHANGED <<vars, down, serving>>
  BY DEF Receive
<1>2. /\ Len(up') = Len(up) - 1 /\ Len(up) \in Nat \ {0} /\ Head(up) = up[1]
      /\ \A i \in 1..Len(up') : i + 1 \in 1..Len(up) /\ up'[i] = up[i + 1]
  BY <1>1, Shifted DEF Carried
<1>3. n \in Nat \ {0} /\ n <= Len(waiting) /\ n <= Len(up)
  BY <1>2 DEF Upward
<1>4. waiting \in Seq(S) /\ waiting # <<>>
  BY <1>3 DEF Books
<1> HIDE DEF S
<1>5. /\ Len(waiting') = Len(waiting) - 1 /\ Len(waiting) \in Nat \ {0}
      /\ Head(waiting) = waiting[1]
      /\ \A i \in 1..Len(waiting') : waiting'[i] = waiting[i + 1]
  BY <1>1, <1>4, Shifted
<1> DEFINE m == n - 1
<1>6. /\ m \in Nat /\ n = m + 1 /\ m <= Len(up') /\ m <= Len(waiting')
  BY <1>2, <1>3, <1>5
<1>7. \A i \in 1..m : /\ i + 1 \in 1..n /\ up'[i] = up[i + 1] /\ waiting'[i] = waiting[i + 1]
  BY <1>2, <1>5, <1>6
<1>8. \A i \in 1..n : i = 1 \/ (i - 1 \in 1..m /\ (i - 1) + 1 = i)
  BY <1>6
<1>9. \A k \in Kinds : k # "invoke" => Confirmed(k)' = Confirmed(k)
  BY KindsAre DEF Confirmed
<1> HIDE DEF m
<1>10. Upward(m)'
  <2>1. ASSUME NEW i \in 1..Len(up') PROVE IsCommand(up'[i]) <=> i <= m
    <3>1. i + 1 \in 1..Len(up) /\ up'[i] = up[i + 1]
      BY <1>2
    <3>2. IsCommand(up[i + 1]) <=> i + 1 <= n
      BY <3>1 DEF Upward
    <3> QED BY <1>6, <3>1, <3>2
  <2>2. \A i \in 1..m : Matches(up'[i], waiting'[i])
    BY <1>7 DEF Upward, Matches
  <2> QED BY <1>6, <2>1, <2>2 DEF Upward, IsCommand, Matches
<1>11. Serving(m)'
  <2>1. ASSUME Busy, ~closing
        PROVE  /\ m < Len(waiting') /\ waiting'[m + 1].id = serving
               /\ \E k \in Kinds : waiting'[m + 1].kind = k /\ Serves(k)'
    <3>1. n < Len(waiting) /\ waiting[n + 1].id = serving /\ Serves(waiting[n + 1].kind)
      BY <2>1 DEF Serving
    <3>2. PICK k \in Kinds : waiting[n + 1].kind = k
      BY <1>3, <3>1, LineTyped
    <3>3. m + 1 \in 1..Len(waiting') /\ waiting'[m + 1] = waiting[n + 1] /\ m < Len(waiting')
      BY <1>5, <1>6, <3>1
    <3>4. Serves(k)'
      BY <1>1, <1>9, <3>1, <3>2 DEF Serves, vars, PhaseOf
    <3>5. waiting'[m + 1].id = serving /\ waiting'[m + 1].kind = k
      BY <3>1, <3>2, <3>3
    <3> QED BY <3>3, <3>4, <3>5
  <2>2. UNCHANGED <<Busy, closing, serving>>
    BY <1>1 DEF Busy, vars
  <2> QED BY <2>1, <2>2 DEF Serving
<1>12. Downward(m)'
  <2>1. UNCHANGED <<Unread, InHand, poison, pc>> /\ InHand \in {0, 1}
    BY <1>1 DEF Unread, InHand, vars, Busy
  <2> SUFFICES ASSUME ~poison, pc # "failed", Commands(Unread)
               PROVE  /\ Len(waiting') = m + InHand + Len(Unread)
                      /\ \A i \in 1..Len(Unread) : waiting'[m + InHand + i] = Unread[i]
    BY <2>1 DEF Downward, Commands
  <2>2. Len(Unread) \in Nat
    BY Shifted DEF Unread, Carried
  <2>3. /\ Len(waiting) = n + InHand + Len(Unread)
        /\ \A i \in 1..Len(Unread) : waiting[n + InHand + i] = Unread[i]
    BY DEF Downward
  <2>4. ASSUME NEW i \in 1..Len(Unread) PROVE waiting'[m + InHand + i] = Unread[i]
    <3>1. /\ m + InHand + i \in 1..Len(waiting')
          /\ (m + InHand + i) + 1 = n + InHand + i
      BY <1>5, <1>6, <2>1, <2>2, <2>3
    <3>2. waiting'[m + InHand + i] = waiting[n + InHand + i]
      BY <1>5, <3>1
    <3> QED BY <2>3, <3>2
  <2> QED BY <1>5, <1>6, <2>1, <2>2, <2>3, <2>4
<1>13. Heard(m)'
  <2>1. told' = told
    BY <1>1 DEF vars
  <2>2. ASSUME \A i \in 1..m : up'[i].kind # "ok" PROVE belief' = told
    <3>1. \A i \in 2..n : up[i].kind # "ok"
      <4> SUFFICES ASSUME NEW i \in 2..n PROVE up[i].kind # "ok"
        OBVIOUS
      <4>1. i - 1 \in 1..m /\ (i - 1) + 1 = i
        BY <1>6
      <4> QED BY <1>7, <2>2, <4>1
    <3>2. CASE Head(up).kind = "ok"
      <4>1. 1 \in 1..n /\ up[1].kind = "ok" /\ 1 + 1 = 2
        BY <1>2, <1>3, <3>2
      <4>2. told = Confirmed(waiting[1].kind)
        BY <3>1, <4>1 DEF Heard
      <4> QED BY <1>1, <1>5, <3>2, <4>2
    <3>3. CASE Head(up).kind # "ok"
      <4>1. \A i \in 1..n : up[i].kind # "ok"
        BY <1>2, <1>8, <3>1, <3>3, <1>3
      <4> QED BY <1>1, <3>3, <4>1 DEF Heard
    <3> QED BY <3>2, <3>3
  <2>3. ASSUME NEW i \in 1..m, up'[i].kind = "ok", \A j \in (i + 1)..m : up'[j].kind # "ok"
        PROVE  told = Confirmed(waiting[i].kind)'
    <3>1. i + 1 \in 1..n /\ up[i + 1].kind = "ok" /\ waiting'[i] = waiting[i + 1]
      BY <1>7, <2>3
    <3>2. \A j \in ((i + 1) + 1)..n : up[j].kind # "ok"
      <4> SUFFICES ASSUME NEW j \in ((i + 1) + 1)..n PROVE up[j].kind # "ok"
        OBVIOUS
      <4>1. j - 1 \in (i + 1)..m /\ j - 1 \in 1..m /\ (j - 1) + 1 = j
        BY <1>6
      <4> QED BY <1>7, <2>3, <4>1
    <3>3. told = Confirmed(waiting[i + 1].kind)
      BY <3>1, <3>2 DEF Heard
    <3>4. waiting[i + 1].kind # "invoke"
      BY <3>1 DEF Upward, Matches
    <3>5. i < Len(waiting) /\ i \in Nat
      BY <1>3, <3>1, <1>5
    <3>6. PICK k \in Kinds : waiting[i + 1].kind = k
      BY <3>5, LineTyped
    <3>7. told = Confirmed(k) /\ k # "invoke" /\ waiting'[i].kind = k
      BY <3>1, <3>3, <3>4, <3>6
    <3> QED BY <1>9, <3>7
  <2> QED BY <2>1, <2>2, <2>3 DEF Heard
<1> QED BY <1>6, <1>10, <1>11, <1>12, <1>13 DEF m

LEMMA OrderAsked ==
  ASSUME Carried, NEW n \in 0..Len(up),
         (Receive /\ ~IsCommand(Head(up))) \/ AnswerCallback,
         Upward(n), Serving(n), Downward(n), Heard(n)
  PROVE  n \in 0..Len(up') /\ (Upward(n) /\ Serving(n) /\ Downward(n) /\ Heard(n))'
<1>1. UNCHANGED <<vars, serving, waiting, belief>>
  BY DEF Receive, AnswerCallback, Ask
<1>2. Serving(n)'
  <2>1. \A x : Serves(x)' <=> Serves(x)
    BY <1>1 DEF Serves, Confirmed, vars, PhaseOf
  <2>2. UNCHANGED <<Busy, closing>>
    BY <1>1 DEF vars, Busy
  <2> QED BY <1>1, <2>1, <2>2 DEF Serving
<1>3. UNCHANGED <<InHand, poison, pc, told>>
  BY <1>1 DEF InHand, vars, Busy
<1>4. CASE Receive /\ ~IsCommand(Head(up))
  <2>1. up # <<>> /\ up' = Tail(up) /\ UNCHANGED down
    BY <1>4 DEF Receive
  <2>2. /\ Len(up') = Len(up) - 1 /\ Len(up) \in Nat \ {0} /\ Head(up) = up[1]
        /\ \A i \in 1..Len(up') : i + 1 \in 1..Len(up) /\ up'[i] = up[i + 1]
    BY <2>1, Shifted DEF Carried
  <2>3. n = 0
    <3>1. 1 \in 1..Len(up) /\ ~IsCommand(up[1])
      BY <1>4, <2>2
    <3>2. ~(1 <= n)
      BY <3>1 DEF Upward
    <3> QED BY <2>2, <3>2
  <2>4. Upward(n)'
    <3>1. ASSUME NEW i \in 1..Len(up') PROVE ~IsCommand(up'[i]) /\ ~(i <= n)
      <4>1. i + 1 \in 1..Len(up) /\ up'[i] = up[i + 1] /\ ~(i + 1 <= n)
        BY <2>2, <2>3
      <4>2. IsCommand(up[i + 1]) <=> i + 1 <= n
        BY <4>1 DEF Upward
      <4> QED BY <2>3, <4>1, <4>2
    <3>2. n <= Len(waiting')
      BY <1>1 DEF Upward
    <3> QED BY <2>3, <3>1, <3>2 DEF Upward, IsCommand
  <2>5. Heard(n)'
    BY <1>1, <1>3, <2>3 DEF Heard
  <2>6. Downward(n)'
    BY <1>1, <1>3, <2>1 DEF Downward, Unread, Commands
  <2> QED BY <1>2, <2>2, <2>3, <2>4, <2>5, <2>6
<1>5. CASE AnswerCallback
  <2>1. PICK f \in Answers : down' = Append(down, f)
    BY <1>5 DEF AnswerCallback, Ask
  <2>2. UNCHANGED up /\ f \in Down /\ ~IsCommand(f)
    BY <1>5, Parity DEF AnswerCallback, Ask, Down
  <2>3. Upward(n)' /\ Heard(n)'
    BY <1>1, <1>3, <2>2, Keeps
  <2>4. Unread' = Unread \/ ~Commands(Unread')
    BY <2>1, <2>2, UnreadGrows
  <2>5. Downward(n)'
    BY <1>1, <1>3, <2>4 DEF Downward, Commands
  <2> QED BY <1>2, <2>2, <2>3, <2>5
<1> QED BY <1>4, <1>5

LEMMA OrderStep ==
  ASSUME Inv, Inv', Carried, Carried', Token, Books, Order, [JointNext]_joint
  PROVE  Order'
<1>1. hungUp' => up' = <<>>
  <2>1. CASE hungUp
    BY <2>1 DEF Order, JointNext, Serve, TakeAnswer, EndOfInput, SendCallback, SendReply,
                Work, Put, Send, Receive, AnswerCallback, Ask, CloseSession, StopReading,
                Ended, joint, session
  <2>2. CASE ~hungUp /\ ~CloseSession
    BY <2>2 DEF JointNext, Serve, TakeAnswer, EndOfInput, SendCallback, SendReply,
                Work, Put, Send, Receive, AnswerCallback, Ask, StopReading,
                Ended, joint, session
  <2>3. CASE CloseSession
    BY <2>3 DEF CloseSession
  <2> QED BY <2>1, <2>2, <2>3
<1>2. hungUp => hungUp'
  BY DEF JointNext, Serve, TakeAnswer, EndOfInput, SendCallback, SendReply, Work, Put, Send,
         Receive, AnswerCallback, Ask, CloseSession, StopReading, Ended, joint, session
<1>3. eof' => hungUp'
  <2>1. eof => hungUp'
    BY <1>2 DEF Order
  <2>2. CASE Serve \/ TakeAnswer \/ SendCallback \/ SendReply \/ Work
    <3>1. eof' = eof
      BY <2>2, HostEof
    <3> QED BY <2>1, <3>1
  <2>3. CASE EndOfInput
    BY <1>2, <2>1, <2>3 DEF EndOfInput, Misanswered, Resume
  <2>4. CASE Send \/ Receive \/ AnswerCallback \/ CloseSession \/ StopReading \/ Ended \/ UNCHANGED joint
    BY <2>1, <2>4 DEF Send, Receive, AnswerCallback, Ask, CloseSession, StopReading, BreakPipe,
                      Ended, joint, vars
  <2> QED BY <2>2, <2>3, <2>4 DEF JointNext
<1>4. SUFFICES ASSUME ~hungUp'
               PROVE  \E n \in 0..Len(up') : (Upward(n) /\ Serving(n) /\ Downward(n) /\ Heard(n))'
  BY <1>1, <1>3 DEF Order
<1>5. ~hungUp /\ ~eof /\ ~closing /\ ~closing'
  BY <1>2, <1>3, <1>4 DEF Order, Inv, Connection
<1>6. PICK n \in 0..Len(up) : Upward(n) /\ Serving(n) /\ Downward(n) /\ Heard(n)
  BY <1>5 DEF Order
<1>7. n \in Nat
  BY <1>6
<1>8. CASE Serve
  BY <1>5, <1>6, <1>7, <1>8, OrderServe DEF Serve
<1>9. CASE TakeAnswer
  BY <1>5, <1>6, <1>7, <1>9, OrderAnswer DEF TakeAnswer
<1>10. CASE EndOfInput
  BY <1>5, <1>10 DEF EndOfInput
<1>11. CASE SendCallback
  BY <1>5, <1>6, <1>11, OrderCall
<1>12. CASE SendReply
  BY <1>5, <1>6, <1>12, OrderReply
<1>13. CASE Work
  BY <1>5, <1>6, <1>7, <1>13, OrderWork DEF Work
<1>14. CASE Send
  <2>1. up' = up
    BY <1>14 DEF Send, Ask
  <2> QED BY <1>6, <1>14, <2>1, OrderSend
<1>15. CASE Receive
  <2>1. CASE IsCommand(Head(up))
    BY <1>5, <1>6, <1>15, <2>1, OrderReceive
  <2>2. CASE ~IsCommand(Head(up))
    BY <1>6, <1>15, <2>2, OrderAsked
  <2> QED BY <2>1, <2>2
<1>16. CASE AnswerCallback
  BY <1>6, <1>16, OrderAsked
<1>17. CASE CloseSession
  BY <1>4, <1>17 DEF CloseSession
<1>18. CASE StopReading
  BY <1>5, <1>18 DEF StopReading
<1>19. CASE Ended \/ UNCHANGED joint
  <2>1. UNCHANGED joint
    BY <1>19 DEF Ended
  <2>2. Serving(n)'
    BY <1>6, <2>1 DEF Serving, Serves, Confirmed, PhaseOf, Busy, joint, vars, session
  <2>3. Downward(n)'
    BY <1>6, <2>1 DEF Downward, Unread, InHand, Busy, Commands, joint, vars, session
  <2>4. Upward(n)' /\ Heard(n)' /\ up' = up
    BY <1>6, <2>1, Keeps DEF joint, vars, session
  <2> QED BY <2>2, <2>3, <2>4
<1> QED BY <1>8, <1>9, <1>10, <1>11, <1>12, <1>13, <1>14, <1>15, <1>16, <1>17, <1>18, <1>19
        DEF JointNext

-----------------------------------------------------------------------------
LEMMA OrderInside == JointSpec => [](Inv /\ Carried /\ Token /\ Books /\ Confirms /\ Order)
<1>1. JointInit => Books /\ Confirms /\ Order
  <2> SUFFICES ASSUME JointInit PROVE Books /\ Confirms /\ Order
    OBVIOUS
  <2>1. Confirms
    BY DEF JointInit, Init, Confirms, PhaseOf
  <2>2. Books
    <3>1. waiting = <<>> /\ up = <<>> /\ sent = 0 /\ asked = NoCall
          /\ belief = "absent" /\ hungUp = FALSE /\ overtaken = FALSE
      BY DEF JointInit
    <3>2. 0 \in 0..CommandLimit /\ 0 <= Window
      BY SessionAssumption
    <3>3. Len(waiting) = 0 /\ Len(up) = 0 /\ waiting \in Seq([id : Nat, kind : Kinds])
      BY <3>1
    <3>4. 1..Len(waiting) = {} /\ 1..Len(up) = {}
      BY <3>3
    <3>5. asked \in [id : Evens, kind : CallbackKinds \cup {"none"}]
      BY <3>1, NoCallTyped
    <3>6. sent \in 0..CommandLimit /\ Len(waiting) <= Window
      BY <3>1, <3>2, <3>3
    <3>7. Asks(up)
      BY <3>1, AsksNothing
    <3> QED BY Zenon, <3>1, <3>3, <3>4, <3>5, <3>6, <3>7 DEF Books
  <2>3. Upward(0) /\ Serving(0) /\ Downward(0) /\ Heard(0)
    BY DEF JointInit, Init, Upward, Serving, Downward, Heard, Busy, InHand, Unread
  <2> QED BY <2>1, <2>2, <2>3 DEF Order, JointInit, Init
<1>2. Inv /\ Confirms /\ [JointNext]_joint => Confirms'
  BY ConfirmsStep, StepsOfHost
<1>3. Inv /\ Inv' /\ Carried /\ Carried' /\ Token /\ Books /\ Order /\ [JointNext]_joint => Order'
  BY OrderStep
<1> QED BY <1>1, <1>2, <1>3, TokenInside, BooksStep, PTL DEF JointSpec

\* The session's books are in order, whatever its window.
THEOREM JointTypeCorrect == JointSpec => []JointTypeOK
<1>1. Inv /\ Carried /\ Books => JointTypeOK
  <2> SUFFICES ASSUME Inv, Carried, Books PROVE JointTypeOK
    OBVIOUS
  <2>1. \A i \in 1..Len(waiting) : waiting[i].kind \in Kinds
    <3> DEFINE S == [id : Nat, kind : Kinds]
    <3>1. waiting \in Seq(S)
      BY DEF Books
    <3> HIDE DEF S
    <3>2. \A i \in 1..Len(waiting) : waiting[i] \in S
      BY <3>1
    <3> QED BY <3>2 DEF S
  <2> QED BY <2>1 DEF JointTypeOK, Inv, Carried, Down, Books
<1> QED BY <1>1, OrderInside, PTL

\* The replies in the pipe answer the oldest commands, each its own.
THEOREM RepliesMatch == JointSpec => []RepliesInOrder
<1>1. Carried /\ Order => RepliesInOrder
  <2> SUFFICES ASSUME Carried, Order, NEW i \in 1..Len(up), IsCommand(up[i])
               PROVE  /\ \A j \in 1..i : IsCommand(up[j])
                      /\ i <= Len(waiting) /\ Matches(up[i], waiting[i])
    BY DEF RepliesInOrder
  <2>1. ~hungUp
    BY DEF Order
  <2>2. PICK n \in 0..Len(up) : Upward(n)
    BY <2>1 DEF Order
  <2>3. i <= n /\ Len(up) \in Nat
    BY <2>2 DEF Upward, Carried
  <2>4. \A j \in 1..i : j \in 1..Len(up) /\ j <= n
    BY <2>3
  <2>5. i <= Len(waiting)
    BY <2>2, <2>3 DEF Upward
  <2> QED BY <2>2, <2>3, <2>4, <2>5 DEF Upward
<1> QED BY <1>1, OrderInside, PTL

\* A session that waits for nothing knows where the Host is.
THEOREM BeliefsAgree == JointSpec => []BeliefAgrees
<1>1. Inv /\ Confirms /\ Order => BeliefAgrees
  <2> SUFFICES ASSUME Inv, Confirms, Order, waiting = <<>>, ~hungUp, ~Exited
               PROVE  belief = PhaseOf(state)
    BY DEF BeliefAgrees
  <2>1. PICK n \in 0..Len(up) : Upward(n) /\ Serving(n) /\ Heard(n)
    BY DEF Order
  <2>2. n = 0 /\ ~closing
    BY <2>1 DEF Upward, Order, Inv, Connection
  <2>3. pc \in {"reading", "closed"}
    BY <2>1, <2>2 DEF Serving, Busy, Inv, TypeOK, Control, Exited
  <2>4. belief = told
    BY <2>1, <2>2 DEF Heard
  <2> QED BY <2>2, <2>3, <2>4 DEF Confirms
<1> QED BY <1>1, OrderInside, PTL

\* What the payload goes through between the two is the promised lifecycle.
THEOREM PromiseKept == JointSpec => Promise
  BY HostInside, Implements, PTL
================================================================================
