--------------------------- MODULE LaunchHookProofs ---------------------------
(***************************************************************************)
(* The guest of LaunchHook and the Host never part.  The invariant says    *)
(* what the Host's phase is while an export runs, and where the guest's    *)
(* state stands before and after the export has moved it.                  *)
(***************************************************************************)
EXTENDS LaunchHook, TLAPS

\* The phase in which an export runs, and what a hang-up leaves to be run.
PhaseFits ==
  /\ running = "load" => phase = "absent"
  /\ running = "enable" => phase = "loaded"
  /\ running \in {"invoke", "disable"} => phase = "enabled"
  /\ running = "unload" => phase = "gone"
  /\ hangup = "stop" => phase = "enabled" /\ running \in {"none", "disable"}
  /\ hangup = "drop" => running \in {"none", "unload"}

\* Where the guest's state stands while an export runs.
StepFits ==
  /\ step = "idle" <=> running = "none"
  /\ step = "entered" => guest = Moves(running)[1]
  /\ step = "moved" => guest = Moves(running)[2]
  /\ step # "invalid-state"

IInv == HookTypeOK /\ PhaseFits /\ StepFits /\ StatesAgree

\* What Moves is for each export.
LEMMA MovesAre ==
  /\ Moves("load") = <<"CREATED", "LOADED">>
  /\ Moves("enable") = <<"LOADED", "ENABLED">>
  /\ Moves("disable") = <<"ENABLED", "LOADED">>
  /\ Moves("unload") = <<"LOADED", "CREATED">>
  /\ Moves("invoke") = <<"ENABLED", "ENABLED">>
BY DEF Moves

\* The invariant holds at first and is kept by every step of guest and Host.
LEMMA Invariance == HookSpec => []IInv
<1>1. HookInit => IInv
  BY DEF HookInit, Init, IInv, HookTypeOK, TypeOK, PhaseFits, StepFits, StatesAgree,
         Phases, Exports, States
<1>2. IInv /\ [HookNext]_hook => IInv'
  <2> SUFFICES ASSUME IInv, [HookNext]_hook PROVE IInv'
    OBVIOUS
  <2> USE MovesAre DEF IInv, HookTypeOK, TypeOK, PhaseFits, StepFits, StatesAgree,
         Phases, Exports, States
  <2>1. CASE Entered
    <3>1. ASSUME NEW x \in Exports, Command(x) PROVE IInv'
      BY <2>1, <3>1 DEF Entered, Command, Enter, From, Fresh
    <3>2. CASE StopOnHangUp
      BY <2>1, <3>2 DEF Entered, StopOnHangUp, Enter, Fresh
    <3>3. CASE DropOnHangUp
      BY <2>1, <3>3 DEF Entered, DropOnHangUp, Enter, Fresh
    <3> QED BY <2>1, <3>1, <3>2, <3>3 DEF Entered
  <2>2. CASE Transition
    BY <2>2 DEF Transition, vars
  <2>3. CASE Ended
    <3>1. CASE step = "moved" /\ Succeed
      BY <2>3, <3>1 DEF Ended, Succeed, To
    <3>2. CASE Fail /\ step \in {"invalid-state", IF running = "invoke" THEN "moved"
                                                              ELSE "invalid-state"}
      BY <2>3, <3>2 DEF Ended, Fail
    <3>3. CASE Trap
      BY <2>3, <3>3 DEF Ended, Trap
    <3> QED BY <2>3, <3>1, <3>2, <3>3 DEF Ended
  <2>4. CASE Elsewhere
    <3>1. CASE Confirm
      BY <2>4, <3>1 DEF Elsewhere, Confirm
    <3>2. CASE Discard
      BY <2>4, <3>2 DEF Elsewhere, Discard
    <3>3. CASE HangUp
      BY <2>4, <3>3 DEF Elsewhere, HangUp
    <3>4. CASE Exit
      BY <2>4, <3>4 DEF Elsewhere, Exit
    <3> QED BY <2>4, <3>1, <3>2, <3>3, <3>4 DEF Elsewhere
  <2>5. CASE HookOver \/ UNCHANGED hook
    BY <2>5 DEF HookOver, hook, vars
  <2> QED BY <2>1, <2>2, <2>3, <2>4, <2>5 DEF HookNext
<1> QED BY <1>1, <1>2, PTL DEF HookSpec

\* The Host's promise and the guest's own state keep their types.
THEOREM TypeCorrect == HookSpec => []HookTypeOK
<1>1. IInv => HookTypeOK
  BY DEF IInv
<1> QED BY <1>1, Invariance, PTL

\* The guest never meets a call its own state refuses, and between two exports
\* Host and guest agree on the payload's state.
THEOREM Agree == HookSpec => []StatesAgree
<1>1. IInv => StatesAgree
  BY DEF IInv
<1> QED BY <1>1, Invariance, PTL
===============================================================================
