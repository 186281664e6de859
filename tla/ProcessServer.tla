---------------------------- MODULE ProcessServer ----------------------------
(***************************************************************************)
(* The process Host's command loop: `ProcessServer` and `ProcessBridge`    *)
(* (crates/aura-wasm-host/src/server.rs) with the `WasmGuestEngine` they   *)
(* drive (guest_engine.rs).  One thread reads a command frame from stdin,  *)
(* runs it, and writes one reply to stdout; while a guest export runs, the *)
(* same thread sends callbacks on stdout and reads their answers from the  *)
(* same stdin.                                                             *)
(*                                                                         *)
(* The launcher is the environment: any frame the protocol crate can       *)
(* decode, and any undecodable one, may arrive at any read.  The guest is  *)
(* arbitrary: at any point it calls the bridge, returns, fails or traps.   *)
(***************************************************************************)
EXTENDS Naturals

CONSTANT IdLimit   \* i64::MAX, scaled down: the largest request id

ASSUME IdLimitAssumption == IdLimit \in Nat /\ IdLimit >= 3

VARIABLES
  pc,       \* where the serving thread is
  state,    \* ProcessServer.state: LifecycleState
  plugin,   \* WasmGuestEngine.plugin: "none", "live", or "broken" (poisoned)
  export,   \* the guest export on the stack, or "none"
  outcome,  \* what handle() returned, while its reply is due
  poison,   \* ProcessServer.poison is Some
  nextId,   \* ProcessBridge.next_callback_id
  cb,       \* the outstanding callback
  closing,  \* close_on_eof() is running
  eof,      \* stdin is closed and drained
  broken,   \* writes to stdout fail
  owed,     \* history: the command being served has had no reply
  lost,     \* history: a callback consumed a command frame
  told      \* history: the payload's phase last confirmed to the launcher

vars == <<pc, state, plugin, export, outcome, poison, nextId, cb, closing,
          eof, broken, owed, lost, told>>

guestVars == <<plugin, export, nextId, cb>>
pipeVars  == <<eof, broken>>

LifecycleState ==
  {"AwaitHello", "AwaitLoad", "Loaded", "Enabled", "Disabled", "Closed"}
Exports == {"load", "enable", "invoke", "disable", "unload"}
CallbackKinds == {"invoke", "handle"}
NoCall == [id |-> 0, kind |-> "none"]

(* AtomicU64::fetch_add(2) wraps at 2^64, twice the signed range.          *)
Modulus == 2 * (IdLimit + 1)
NextId(n) == IF n + 2 >= Modulus THEN n + 2 - Modulus ELSE n + 2

Evens == {n \in 0..(Modulus - 1) : n % 2 = 0}

\* Mutant: an id beyond the signed range accepted.
NoUpperBound(id) == id > 0
ValidId(id) == id > 0 /\ id <= IdLimit

(* Even frames: the answers to callbacks, and bridge requests, which only  *)
(* the child may send.  "garbage" is output that is no Bridge Value.       *)
Answers == [id     : {n \in Evens : ValidId(n)},
            kind   : {"result", "error", "request"},
            output : {"empty", "value", "garbage"}]

TypeOK ==
  /\ pc \in {"reading", "guest", "callback", "handled",
             "disabling", "unloading", "closed", "done", "failed"}
  /\ state \in LifecycleState
  /\ plugin \in {"none", "live", "broken"}
  /\ export \in Exports \cup {"none"}
  /\ outcome \in {"none", "ok", "result", "close", "error", "unsendable", "fatal"}
  /\ nextId \in Evens
  /\ cb \in [id : Evens, kind : CallbackKinds \cup {"none"}]
  /\ poison \in BOOLEAN /\ closing \in BOOLEAN
  /\ eof \in BOOLEAN /\ broken \in BOOLEAN
  /\ owed \in BOOLEAN /\ lost \in BOOLEAN
  /\ told \in {"absent", "loaded", "enabled", "disabled", "gone"}

Init ==
  /\ pc = "reading"
  /\ state = "AwaitHello"
  /\ plugin = "none"
  /\ export = "none"
  /\ outcome = "none"
  /\ poison = FALSE
  /\ nextId = 2
  /\ cb = NoCall
  /\ closing = FALSE
  /\ eof = FALSE /\ broken = FALSE
  /\ owed = FALSE /\ lost = FALSE
  /\ told = "absent"

-----------------------------------------------------------------------------
(* serve(): one command is read and handed to handle().                    *)

Command ==
  /\ pc = "reading" /\ ~eof
  /\ owed' = TRUE
  /\ UNCHANGED <<poison, closing, eof, broken, lost, told>>

Handled(o) == pc' = "handled" /\ outcome' = o

(* A failure that is reported: its message may exceed what a frame takes.  *)
Reportable == {"error", "unsendable"}

CommandTable == [hello    |-> {"AwaitHello"},
                 load     |-> {"AwaitLoad"},
                 enable   |-> {"Loaded"},
                 invoke   |-> {"Enabled"},
                 disable  |-> {"Enabled"},
                 shutdown |-> {"Loaded", "Disabled"}]
Kinds == DOMAIN CommandTable

\* Mutant: a Load accepted while Loaded.
ReloadsLoaded(k)  == CommandTable[k] \cup (IF k = "load" THEN {"Loaded"} ELSE {})
Requires(k) == CommandTable[k]

OutOfState ==
  /\ Command
  /\ \E k \in Kinds : state \notin Requires(k)
  /\ Handled("error")
  /\ UNCHANGED <<state, plugin, export, nextId, cb>>

Hello ==
  /\ Command
  /\ state \in Requires("hello")
  /\ state' = "AwaitLoad"
  /\ Handled("ok")
  /\ UNCHANGED guestVars

(* The guest export x is entered.                                          *)
Enter(x) ==
  /\ pc' = "guest"
  /\ export' = x
  /\ UNCHANGED <<state, outcome, cb>>

(* The descriptor, the engine or the component is refused before the guest *)
(* runs, or a fresh bridge numbers its callbacks from 2 and load() starts. *)
Load ==
  /\ Command
  /\ state \in Requires("load")
  /\ \/ /\ \E o \in Reportable \cup {"fatal"} : Handled(o)
        /\ UNCHANGED <<state, plugin, export, nextId, cb>>
     \/ /\ Enter("load")
        /\ nextId' = 2
        /\ UNCHANGED plugin

(* enable, invoke and disable reach the guest through plugin_mut() and     *)
(* WasmPlugin::call; the input of invoke is decoded before either.         *)
CallGuest(k) ==
  /\ Command
  /\ state \in Requires(k)
  /\ UNCHANGED <<plugin, nextId>>
  /\ \/ plugin = "live" /\ Enter(k)
     \/ /\ plugin = "none" \/ k = "invoke"
        /\ Handled("error")
        /\ UNCHANGED <<state, export, cb>>
     \/ /\ plugin = "broken"
        /\ Handled("fatal")
        /\ UNCHANGED <<state, export, cb>>

(* WasmGuestEngine::unload takes the plugin out before it calls it.        *)
\* Mutant: unload() that leaves the plugin in its place.
Borrowed == plugin
Taken == "none"

Shutdown ==
  /\ Command
  /\ state \in Requires("shutdown")
  /\ plugin' = Taken
  /\ UNCHANGED nextId
  /\ \/ plugin = "live" /\ Enter("unload")
     \/ plugin # "live" /\ Handled(IF plugin = "none" THEN "error" ELSE "fatal")
                        /\ UNCHANGED <<state, export, cb>>

(* read_frame refuses the bytes, or the frame is even or of a child-only   *)
(* kind: serve() returns an error.                                         *)
BadCommand ==
  /\ pc = "reading" /\ ~eof
  /\ pc' = "failed"
  /\ UNCHANGED <<state, outcome, poison, closing, eof, broken, owed, lost, told>>
  /\ UNCHANGED guestVars

-----------------------------------------------------------------------------
(* The guest export ends: the rest of GuestEngine, of handle() and, at a   *)
(* hang-up, of close_on_eof(), which ignores how it went.                  *)

Leave ==
  /\ export' = "none"
  /\ cb' = NoCall
  /\ UNCHANGED <<nextId, poison, closing, eof, broken, owed, lost, told>>

ReachedBy(x) == CASE x = "load"    -> "Loaded"
                  [] x = "enable"  -> "Enabled"
                  [] x = "invoke"  -> "Enabled"
                  [] x = "disable" -> "Disabled"
                  [] x = "unload"  -> "Closed"

\* Mutant: a failed disable() tried again.
RetriesDisable ==
  /\ closing
  /\ pc' = IF export = "disable" THEN "disabling" ELSE "closed"
  /\ state' = IF export = "disable" THEN state ELSE "Closed"
  /\ UNCHANGED outcome
GoOnClosing ==
  /\ closing
  /\ pc' = IF export = "disable" THEN "unloading" ELSE "closed"
  /\ state' = IF export = "disable" THEN state ELSE "Closed"
  /\ UNCHANGED outcome

Returns ==
  /\ pc = "guest" /\ Leave
  /\ plugin' = IF export = "load" THEN "live" ELSE plugin
  /\ \/ GoOnClosing
     \/ /\ ~closing
        /\ state' = ReachedBy(export)
        /\ \/ export # "invoke" /\ Handled(IF export = "unload" THEN "close" ELSE "ok")
           \/ export = "invoke" /\ \E o \in {"result"} \cup Reportable : Handled(o)

(* The export returns Err: "guest-error", and the plugin stays as it is.   *)
\* Mutant: a lifecycle state that moves on although the guest said no.
MovesOnAnyway ==
  /\ pc = "guest" /\ Leave
  /\ UNCHANGED plugin
  /\ \/ GoOnClosing
     \/ ~closing /\ state' = ReachedBy(export) /\ Handled("error")
ReportsError ==
  /\ pc = "guest" /\ Leave
  /\ UNCHANGED plugin
  /\ \/ GoOnClosing
     \/ ~closing /\ UNCHANGED state /\ \E o \in Reportable : Handled(o)

(* WasmPlugin::call poisons the store.  Which error code the trap's text   *)
(* yields is not known here: "invalid-value" is no fatal one.              *)
Poisons == IF plugin = "live" THEN "broken" ELSE plugin

Trapped ==
  /\ Leave
  /\ plugin' = Poisons
  /\ \/ GoOnClosing
     \/ /\ ~closing
        /\ UNCHANGED state
        /\ \E o \in Reportable \cup {"fatal"} : Handled(o)

Traps == pc = "guest" /\ Trapped

GuestEnds == Returns \/ ReportsError \/ Traps

-----------------------------------------------------------------------------
(* ProcessBridge: a callback is written, and the next frame must answer it. *)

BridgeCall(kind) ==
  /\ pc = "guest"
  /\ ValidId(nextId) /\ ~broken
  /\ nextId' = NextId(nextId)
  /\ pc' = "callback"
  /\ cb' = [id |-> nextId, kind |-> kind]
  /\ UNCHANGED <<state, plugin, export, outcome, poison, closing, eof, broken,
                 owed, lost, told>>

(* The id is out of range, the guest's arguments are no valid message, or  *)
(* the write fails: protocol_failure() poisons and the guest goes on.      *)
BridgeRefused ==
  /\ pc = "guest"
  /\ nextId' = NextId(nextId)
  /\ poison' = TRUE
  /\ UNCHANGED <<pc, state, plugin, export, outcome, cb, closing, eof, broken,
                 owed, lost, told>>

\* Mutant: an error is no answer.
RejectsErrors(call, f) ==
  f.id = call.id /\ f.kind = "result" /\ (call.kind = "handle" => f.output = "empty")
Accepts(call, f) ==
  /\ f.id = call.id
  /\ \/ f.kind = "error"
     \/ f.kind = "result" /\ (call.kind = "handle" => f.output = "empty")

Resume ==
  /\ pc = "callback"
  /\ cb' = NoCall
  /\ UNCHANGED <<plugin, nextId, closing, eof, broken, owed, told>>

Answered ==
  /\ Resume /\ ~eof
  /\ \E f \in Answers :
        /\ Accepts(cb, f)
        /\ f.kind = "result" /\ cb.kind = "invoke" => f.output = "value"
  /\ pc' = "guest"
  /\ UNCHANGED <<state, export, outcome, poison, lost>>

\* Mutant: a failed exchange that is forgotten.
Ignored == poison
Poisoned == TRUE

(* Any other frame, an unreadable one, or the end of the stream.           *)
Misanswered ==
  /\ Resume
  /\ poison' = Poisoned
  /\ pc' = "guest"
  /\ UNCHANGED <<state, export, outcome>>
  /\ \/ ~eof /\ lost' = TRUE                                      \* a command
     \/ ~eof /\ (\E f \in Answers : ~Accepts(cb, f)) /\ UNCHANGED lost
     \/ UNCHANGED lost                              \* unreadable, or the end

(* The output is no Bridge Value: the import traps the guest.              *)
AnsweredWithGarbage ==
  /\ pc = "callback" /\ ~eof
  /\ \E f \in Answers : Accepts(cb, f) /\ f.kind = "result" /\ f.output # "value"
  /\ cb.kind = "invoke"
  /\ Trapped

-----------------------------------------------------------------------------
(* serve() after handle(): a poisoned connection, a fatal error, a reply   *)
(* that makes no valid frame and a failed write all end the process.       *)

PhaseOf(s) == CASE s \in {"AwaitHello", "AwaitLoad"} -> "absent"
                [] s = "Loaded"   -> "loaded"
                [] s = "Enabled"  -> "enabled"
                [] s = "Disabled" -> "disabled"
                [] s = "Closed"   -> "gone"

\* Mutant: serve() that does not look at the poison.
StopsOnErrorOnly == outcome \in {"fatal", "unsendable"} \/ broken
MustStop == poison \/ outcome \in {"fatal", "unsendable"} \/ broken

\* Mutant: an error that is not reported.
AnswersSuccessOnly ==
  /\ pc = "handled" /\ ~MustStop
  /\ pc' = IF outcome = "close" THEN "closed" ELSE "reading"
  /\ owed' = (outcome = "error")
  /\ told' = IF outcome \in {"ok", "close"} THEN PhaseOf(state) ELSE told
  /\ outcome' = "none"
  /\ UNCHANGED <<state, plugin, export, poison, nextId, cb, closing, eof, broken, lost>>
Reply ==
  /\ pc = "handled" /\ ~MustStop
  /\ pc' = IF outcome = "close" THEN "closed" ELSE "reading"
  /\ owed' = FALSE
  /\ told' = IF outcome \in {"ok", "close"} THEN PhaseOf(state) ELSE told
  /\ outcome' = "none"
  /\ UNCHANGED <<state, plugin, export, poison, nextId, cb, closing, eof, broken, lost>>

Stop ==
  /\ pc = "handled" /\ MustStop
  /\ pc' = "failed"
  /\ outcome' = "none"
  /\ UNCHANGED <<state, plugin, export, poison, nextId, cb, closing, eof, broken,
                 owed, lost, told>>

-----------------------------------------------------------------------------
(* close_on_eof(): disable() if Enabled, then unload(), results ignored.   *)

\* Mutant: close_on_eof() that leaves a disabled payload.
SkipsDisabled == {"Loaded", "Enabled"}
UnloadsOnEof == {"Loaded", "Enabled", "Disabled"}

CloseOnEof ==
  /\ pc = "reading" /\ eof
  /\ closing' = TRUE
  /\ pc' = IF state = "Enabled" THEN "disabling" ELSE "unloading"
  /\ UNCHANGED <<state, outcome, poison, eof, broken, owed, lost, told>>
  /\ UNCHANGED guestVars

CloseDisable ==
  /\ pc = "disabling"
  /\ \/ plugin = "live" /\ Enter("disable")
     \/ /\ plugin # "live"
        /\ pc' = "unloading"
        /\ UNCHANGED <<state, outcome, export, cb>>
  /\ UNCHANGED <<plugin, nextId, poison, closing, eof, broken, owed, lost, told>>

CloseUnload ==
  /\ pc = "unloading"
  /\ \/ plugin = "live" /\ state \in UnloadsOnEof /\ Enter("unload")
     \/ /\ plugin # "live" \/ state \notin UnloadsOnEof
        /\ pc' = "closed"
        /\ state' = "Closed"
        /\ UNCHANGED <<outcome, export, cb>>
  /\ plugin' = IF state \in UnloadsOnEof THEN Taken ELSE plugin
  /\ UNCHANGED <<nextId, poison, closing, eof, broken, owed, lost, told>>

(* serve() returns Ok.                                                     *)
Return ==
  /\ pc = "closed"
  /\ pc' = "done"
  /\ UNCHANGED <<state, outcome, poison, closing, eof, broken, owed, lost, told>>
  /\ UNCHANGED guestVars

-----------------------------------------------------------------------------
(* The launcher closes its end of stdin, or stops reading stdout.          *)

Exited == pc \in {"done", "failed"}

HangUp ==
  /\ ~Exited /\ ~eof
  /\ eof' = TRUE
  /\ UNCHANGED <<pc, state, outcome, poison, closing, broken, owed, lost, told>>
  /\ UNCHANGED guestVars

BreakPipe ==
  /\ ~Exited /\ ~broken
  /\ broken' = TRUE
  /\ UNCHANGED <<pc, state, outcome, poison, closing, eof, owed, lost, told>>
  /\ UNCHANGED guestVars

Terminated == Exited /\ UNCHANGED vars

Next ==
  \/ OutOfState \/ Hello \/ Load \/ Shutdown \/ BadCommand
  \/ \E k \in {"enable", "invoke", "disable"} : CallGuest(k)
  \/ Returns \/ ReportsError \/ Traps
  \/ \E kind \in CallbackKinds : BridgeCall(kind)
  \/ BridgeRefused \/ Answered \/ Misanswered \/ AnsweredWithGarbage
  \/ Reply \/ Stop
  \/ CloseOnEof \/ CloseDisable \/ CloseUnload \/ Return
  \/ HangUp \/ BreakPipe
  \/ Terminated

(* The serving thread runs whenever it is not waiting for the launcher:    *)
(* nothing is assumed of a read before the end of stdin.  A guest export   *)
(* ends if it gets to run again and again: its fuel is finite and trapping *)
(* is always possible (WasmPlugin shows that a call ends).                 *)
Fairness ==
  /\ WF_vars(Reply \/ Stop)
  /\ WF_vars(CloseOnEof \/ CloseDisable \/ CloseUnload \/ Return)
  /\ WF_vars(eof /\ Misanswered)
  /\ SF_vars(GuestEnds)

Spec == Init /\ [][Next]_vars
FairSpec == Spec /\ Fairness

-----------------------------------------------------------------------------
(* Properties.                                                             *)

(* When the Host comes back for a command, and when it exits cleanly, each *)
(* command it read has been answered: also those frames that a callback    *)
(* took from the pipe (serve(), ProcessBridge::call).                      *)
EveryCommandAnswered == pc \in {"reading", "closed", "done"} => ~owed /\ ~lost

(* Once a callback exchange went wrong no reply is ever written: the       *)
(* launcher cannot take the failed command for a success (serve() looks at *)
(* poison before it looks at the result).                                  *)
PoisonNeverAnswers == [][poison => (owed => owed') /\ told' = told]_vars

(* Within one bridge no callback id is used twice, and none above i64::MAX *)
(* is sent: the counter goes down only for a new bridge or, wrapping, once *)
(* the connection is poisoned (ProcessBridge::call).                       *)
CallbackIdsFresh ==
  [][/\ nextId' < nextId => poison \/ export' = "load"
     /\ cb' # cb /\ cb'.id # 0 => cb'.id = nextId /\ cb'.id <= IdLimit]_vars

(* The lifecycle state the commands are judged by never claims a payload   *)
(* that is not there, except after an unload that failed: an enabled       *)
(* payload always exists, an unloaded one never does.                      *)
StateMatchesPlugin ==
  pc = "reading" =>
    /\ state = "Enabled" => plugin # "none"
    /\ state \in {"AwaitHello", "AwaitLoad", "Closed"} => plugin = "none"

(* A clean exit leaves no payload behind that was not offered its unload.  *)
CleanExitReleases == pc = "done" => plugin = "none" /\ state = "Closed"

(* After an unload that failed the payload is gone and the Host accepts no *)
(* command any more: it answers each with an error until stdin ends.       *)
Wedged == pc = "reading" /\ state \in {"Loaded", "Disabled"} /\ plugin = "none"
WedgedOnlyRefuses ==
  [](Wedged => [](export = "none" /\ outcome \in {"none", "error"}))

(* What the launcher and the payload see is the promised lifecycle.        *)
Phase == IF plugin = "broken" THEN "broken"
         ELSE IF plugin = "live" THEN PhaseOf(state)
         ELSE IF state \in {"AwaitHello", "AwaitLoad"} THEN "absent" ELSE "gone"
HangUpPhase ==
  CASE ~closing -> "no"
    [] closing /\ plugin = "live" /\ (pc = "disabling" \/ export = "disable") -> "stop"
    [] OTHER -> "drop"
Lifecycle == INSTANCE PayloadLifecycle WITH
  phase <- Phase, running <- export, hangup <- HangUpPhase, alive <- ~Exited
Promise == Lifecycle!Spec

(* Once stdin has ended the process ends, whatever the payload does: its   *)
(* callbacks cannot block any more.                                        *)
HangUpEndsProcess == eof ~> Exited

(* A command is answered or the process exits, unless a callback waits     *)
(* forever for an answer the launcher does not send.                       *)
CommandSettled == []<>(pc # "callback") => (owed ~> (~owed \/ Exited))

(* "One bounded failure reported by the Wasm process Host" (HostError,     *)
(* error.rs): a guest that says no, and stays as it is, is reported; only  *)
(* a fatal error or a broken connection ends the process under it          *)
(* (require_guest, guest_engine.rs).                                       *)
RecoverableErrorIsReported ==
  [][plugin = "live" /\ pc = "handled" /\ pc' = "failed" =>
       poison \/ broken \/ outcome = "fatal"]_vars
=============================================================================
