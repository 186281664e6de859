--------------------------- MODULE PayloadLifecycle ---------------------------
(***************************************************************************)
(* What the process Host promises about one payload, whatever the launcher *)
(* sends and however the payload behaves:                                  *)
(*   - the exports of the guest are entered one at a time and in lifecycle *)
(*     order (trait GuestEngine, server.rs);                               *)
(*   - a guest whose store trapped is never entered again;                 *)
(*   - a guest is unloaded at most once, and after a hang-up of the        *)
(*     launcher an enabled guest is offered `disable` first;               *)
(*   - while the launcher is connected, each success is confirmed to it    *)
(*     before the next export is entered.                                  *)
(***************************************************************************)

VARIABLES
  phase,    \* how far the payload has got
  running,  \* the guest export being executed, or "none"
  told,     \* the phase last confirmed to the launcher
  hangup,   \* "no" | "stop": disable is due | "drop": unload is due
  alive     \* the Host process runs

vars == <<phase, running, told, hangup, alive>>

Phases == {"absent", "loaded", "enabled", "disabled", "broken", "gone"}
Exports == {"load", "enable", "invoke", "disable", "unload"}

TypeOK ==
  /\ phase \in Phases
  /\ running \in Exports \cup {"none"}
  /\ told \in Phases
  /\ hangup \in {"no", "stop", "drop"}
  /\ alive \in BOOLEAN

Init ==
  /\ phase = "absent"
  /\ running = "none"
  /\ told = "absent"
  /\ hangup = "no"
  /\ alive = TRUE

(* The phases from which an export may be entered on a launcher's command, *)
(* and the phase its success leads to.                                     *)
From(x) == CASE x = "load"    -> {"absent"}
             [] x = "enable"  -> {"loaded"}
             [] x = "invoke"  -> {"enabled"}
             [] x = "disable" -> {"enabled"}
             [] x = "unload"  -> {"loaded", "disabled"}

To(x) == CASE x = "load"    -> "loaded"
           [] x = "enable"  -> "enabled"
           [] x = "invoke"  -> "enabled"
           [] x = "disable" -> "disabled"
           [] x = "unload"  -> "gone"

(* Entering unload gives the payload up: it is gone whatever unload says.  *)
Enter(x) ==
  /\ running' = x
  /\ phase' = IF x = "unload" THEN "gone" ELSE phase

Command(x) ==
  /\ alive /\ hangup = "no" /\ running = "none"
  /\ phase \in From(x)
  /\ told = phase
  /\ Enter(x)
  /\ UNCHANGED <<told, hangup, alive>>

(* After a hang-up the outcome of `disable` is not looked at.               *)
Succeed ==
  /\ alive /\ running # "none"
  /\ running' = "none"
  /\ phase' = IF hangup = "stop" THEN phase ELSE To(running)
  /\ hangup' = IF hangup = "stop" THEN "drop" ELSE hangup
  /\ UNCHANGED <<told, alive>>

(* The export reports a failure of its own and the payload stays usable.   *)
Fail ==
  /\ alive /\ running # "none"
  /\ running' = "none"
  /\ hangup' = IF hangup = "stop" THEN "drop" ELSE hangup
  /\ UNCHANGED <<phase, told, alive>>

(* The store traps.  A payload still being loaded is dropped with it.      *)
Trap ==
  /\ alive /\ running # "none"
  /\ running' = "none"
  /\ phase' = IF running \in {"load", "unload"} THEN phase ELSE "broken"
  /\ hangup' = IF hangup = "stop" THEN "drop" ELSE hangup
  /\ UNCHANGED <<told, alive>>

Confirm ==
  /\ alive /\ hangup = "no" /\ running = "none"
  /\ phase # "broken"
  /\ told' = phase
  /\ UNCHANGED <<phase, running, hangup, alive>>

(* A payload that trapped, or was never loaded, goes without being entered. *)
Discard ==
  /\ alive /\ running = "none"
  /\ phase = "broken" \/ (phase = "absent" /\ hangup = "drop")
  /\ phase' = "gone"
  /\ UNCHANGED <<running, told, hangup, alive>>

HangUp ==
  /\ alive /\ hangup = "no" /\ running = "none"
  /\ hangup' = IF phase = "enabled" THEN "stop" ELSE "drop"
  /\ UNCHANGED <<phase, running, told, alive>>

StopOnHangUp ==
  /\ alive /\ hangup = "stop" /\ running = "none"
  /\ Enter("disable")
  /\ UNCHANGED <<told, hangup, alive>>

DropOnHangUp ==
  /\ alive /\ hangup = "drop" /\ running = "none"
  /\ phase \in {"loaded", "enabled", "disabled"}
  /\ Enter("unload")
  /\ UNCHANGED <<told, hangup, alive>>

Exit ==
  /\ alive /\ running = "none"
  /\ alive' = FALSE
  /\ UNCHANGED <<phase, running, told, hangup>>

Next ==
  \/ \E x \in Exports : Command(x)
  \/ Succeed \/ Fail \/ Trap
  \/ Confirm \/ Discard
  \/ HangUp \/ StopOnHangUp \/ DropOnHangUp
  \/ Exit

Spec == Init /\ [][Next]_vars
===============================================================================
