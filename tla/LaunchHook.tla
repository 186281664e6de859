------------------------------ MODULE LaunchHook ------------------------------
(***************************************************************************)
(* The launch-hook example's own lifecycle (examples/launch-hook/src/      *)
(* lib.rs): a static STATE moved by compare_exchange, in a guest that the  *)
(* Host drives as PayloadLifecycle promises.  Every export changes STATE   *)
(* and then returns; a trap may come before, between or after, and what    *)
(* becomes of STATE then is not looked at by anyone.                       *)
(*                                                                         *)
(* What `invoke` makes of its input is HookEvent's.                        *)
(***************************************************************************)
EXTENDS PayloadLifecycle

VARIABLES
  guest,  \* STATE, the static of the instance that was made last
  step    \* of the export on the stack: "idle", "entered", "moved", "invalid-state"

hook == <<vars, guest, step>>

States == {"CREATED", "LOADED", "ENABLED"}

HookInit == Init /\ guest = "CREATED" /\ step = "idle"

\* Each load runs in a fresh instance.
Fresh == "CREATED"

\* The Host enters an export.
Entered ==
  /\ \/ \E x \in Exports : Command(x)
     \/ StopOnHangUp \/ DropOnHangUp
  /\ step' = "entered"
  /\ guest' = IF running' = "load" THEN Fresh ELSE guest

\* Mutant: disable goes back to the very beginning.
DisableResets(x) ==
  CASE x = "load"    -> <<"CREATED", "LOADED">>
    [] x = "enable"  -> <<"LOADED", "ENABLED">>
    [] x = "disable" -> <<"ENABLED", "CREATED">>
    [] x = "unload"  -> <<"LOADED", "CREATED">>
    [] x = "invoke"  -> <<"ENABLED", "ENABLED">>
Moves(x) ==
  CASE x = "load"    -> <<"CREATED", "LOADED">>
    [] x = "enable"  -> <<"LOADED", "ENABLED">>
    [] x = "disable" -> <<"ENABLED", "LOADED">>
    [] x = "unload"  -> <<"LOADED", "CREATED">>
    [] x = "invoke"  -> <<"ENABLED", "ENABLED">>

\* transition(), and the look invoke() takes at STATE.
Transition ==
  /\ running # "none" /\ step = "entered"
  /\ IF guest = Moves(running)[1]
       THEN guest' = Moves(running)[2] /\ step' = "moved"
       ELSE step' = "invalid-state" /\ UNCHANGED guest
  /\ UNCHANGED vars

\* Only invoke() has other errors to report than "invalid-state".
Ended ==
  /\ \/ step = "moved" /\ Succeed
     \/ Fail /\ step \in {"invalid-state", IF running = "invoke" THEN "moved"
                                                              ELSE "invalid-state"}
     \/ Trap
  /\ step' = "idle"
  /\ UNCHANGED guest

\* The Host does something else.
Elsewhere ==
  /\ Confirm \/ Discard \/ HangUp \/ Exit
  /\ UNCHANGED <<guest, step>>

HookOver == ~alive /\ UNCHANGED hook

HookNext == Entered \/ Transition \/ Ended \/ Elsewhere \/ HookOver

HookSpec == HookInit /\ [][HookNext]_hook

-----------------------------------------------------------------------------
\* Properties.

HookTypeOK ==
  /\ TypeOK
  /\ guest \in States
  /\ step \in {"idle", "entered", "moved", "invalid-state"}

\* The Host never drives this guest into a refusal of its own: however calls
\* fail, trap, are repeated or cut short by a hang-up, the state the guest
\* keeps and the state the Host keeps never part.  Between two exports what
\* the Host has confirmed is what the guest believes, and a disable at a
\* hang-up, whose outcome the Host does not keep, has reached the guest before
\* its unload.
StatesAgree ==
  /\ step # "invalid-state"
  /\ running = "none" =>
       /\ phase \in {"loaded", "disabled"} => guest = "LOADED"
       /\ phase = "enabled" => guest = IF hangup = "drop" THEN "LOADED" ELSE "ENABLED"
=============================================================================
