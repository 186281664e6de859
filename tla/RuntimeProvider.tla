--------------------------- MODULE RuntimeProvider ---------------------------
(***************************************************************************)
(* The launcher's side: `WasmRuntimeProvider`, which owns one child        *)
(* process per payload, and `WasmRuntimeHostPlugin`, which registers it    *)
(* (host-plugin/src/main/java/dev/hmclce/runtime/wasm).  Launcher threads  *)
(* call both; every method is `synchronized`, and the monitor is held for  *)
(* the whole conversation with the child.                                  *)
(*                                                                         *)
(* External: the threads' choice of calls; Aura's RuntimeProcessSession,   *)
(* of which the code uses that start() fails without leaving a process     *)
(* behind, that shutdown() returns only when the process is gone, and that *)
(* close() ends it and does not throw; and the registration, whose close() *)
(* either closes the provider or throws.                                   *)
(***************************************************************************)
EXTENDS Naturals

CONSTANTS
  Threads,    \* launcher threads
  Providers,  \* provider objects onLoad() may construct
  Payloads,   \* sessions, under the UUID loadPayload() gives them
  Nobody,     \* no thread, no provider, no payload
  CallLimit   \* bound: calls the threads make in all

ASSUME CallersAssumption ==
  /\ Nobody \notin Threads \cup Providers \cup Payloads
  /\ CallLimit \in Nat

VARIABLES
  call,          \* per thread: the call it is making and how far it is
  calls,         \* calls begun so far
  hostOwner,     \* owner of the plugin's monitor
  registration,  \* WasmRuntimeHostPlugin.registration: its provider
  created,       \* providers constructed so far
  owner,         \* owner of each provider's monitor
  sessions,      \* WasmRuntimeProvider.sessions
  child,         \* per session: its process
  home           \* history: the provider that started the session

vars == <<call, calls, hostOwner, registration, created, owner, sessions,
          child, home>>
hostVars == <<hostOwner, registration, created>>

Uses       == {"enable", "disable", "invoke", "hook"}
OnPayload  == Uses \cup {"unload"}
Operations == OnPayload \cup {"load", "close"}
Stages     == {"idle", "host", "entry", "body", "session", "fallback", "sweep"}

NoCall == [op |-> "none", at |-> "idle", on |-> Nobody, arg |-> Nobody,
           todo |-> {}]

\* The stages in which a thread is inside a synchronized provider method.
Inside(t) == call[t].at \in {"body", "session", "fallback", "sweep"}

Init ==
  /\ call = [t \in Threads |-> NoCall]
  /\ calls = 0
  /\ hostOwner = Nobody
  /\ registration = Nobody
  /\ created = {}
  /\ owner = [p \in Providers |-> Nobody]
  /\ sessions = [p \in Providers |-> {}]
  /\ child = [s \in Payloads |-> "none"]
  /\ home = [s \in Payloads |-> Nobody]

-----------------------------------------------------------------------------
\* The plugin.

Begins(t) ==
  /\ call[t].at = "idle"
  /\ calls < CallLimit
  /\ calls' = calls + 1

\* onLoad(): refused while a registration is held (its other failures, a
\* missing executable or a refused registration, change nothing).
OnLoad(t) ==
  /\ Begins(t)
  /\ hostOwner = Nobody
  /\ registration = Nobody
  /\ \E p \in Providers \ created :
       registration' = p /\ created' = created \cup {p}
  /\ UNCHANGED <<call, hostOwner, owner, sessions, child, home>>

\* onUnload() forgets the registration before it closes it.
OnUnload(t) ==
  /\ Begins(t)
  /\ hostOwner = Nobody
  /\ registration # Nobody
  /\ registration' = Nobody
  /\ hostOwner' = t
  /\ call' = [call EXCEPT ![t] = [NoCall EXCEPT !.op = "close", !.at = "host",
                                                !.on = registration]]
  /\ UNCHANGED <<created, owner, sessions, child, home>>

\* closing.close() throws: nothing was closed and the plugin cannot retry.
CloseThrows(t) ==
  /\ call[t].at = "host"
  /\ hostOwner' = Nobody
  /\ call' = [call EXCEPT ![t] = NoCall]
  /\ UNCHANGED <<calls, registration, created, owner, sessions, child, home>>

\* closing.close() calls the provider's close().
CloseProvider(t) ==
  /\ call[t].at = "host"
  /\ call' = [call EXCEPT ![t].at = "entry"]
  /\ UNCHANGED <<calls, hostVars, owner, sessions, child, home>>

-----------------------------------------------------------------------------
\* The provider's monitor.

\* A launcher thread calls a method of any provider it was ever given.
Call(t) ==
  /\ Begins(t)
  /\ \E o \in Operations, p \in created :
     \E s \in IF o \in OnPayload THEN Payloads ELSE {Nobody} :
       call' = [call EXCEPT ![t] = [NoCall EXCEPT !.op = o, !.at = "entry",
                                                  !.on = p, !.arg = s]]
  /\ UNCHANGED <<hostVars, owner, sessions, child, home>>

\* Mutant: a provider without `synchronized`.
Unsynchronized(p) == TRUE

Free(p) == owner[p] = Nobody

Enter(t) ==
  /\ call[t].at = "entry"
  /\ Free(call[t].on)
  /\ owner' = [owner EXCEPT ![call[t].on] = t]
  /\ call' = [call EXCEPT ![t].at = "body"]
  /\ UNCHANGED <<calls, hostVars, sessions, child, home>>

\* Leaving the method leaves its monitor, and onUnload()'s with it.
Return(t) ==
  /\ owner' = [owner EXCEPT ![call[t].on] = Nobody]
  /\ call' = [call EXCEPT ![t] = NoCall]
  /\ hostOwner' = IF hostOwner = t THEN Nobody ELSE hostOwner
  /\ UNCHANGED <<calls, registration, created>>

\* A session call is answered, or not: the method goes on in `at`.
Continue(t, at) ==
  /\ call' = [call EXCEPT ![t].at = at]
  /\ UNCHANGED <<calls, hostVars, owner>>

-----------------------------------------------------------------------------
\* The provider's methods.

Ended(s) == [child EXCEPT ![s] = "ended"]

\* loadPayload(): the process exists before start() returns.
StartSession(t) ==
  /\ call[t].at = "body" /\ call[t].op = "load"
  /\ \E s \in Payloads :
       /\ child[s] = "none"
       /\ child' = [child EXCEPT ![s] = "running"]
       /\ home' = [home EXCEPT ![s] = call[t].on]
       /\ call' = [call EXCEPT ![t].at = "session", ![t].arg = s]
  /\ UNCHANGED <<calls, hostVars, owner, sessions>>

\* requireSession(): only sessions of this provider are known.
Known(t) == call[t].arg \in sessions[call[t].on]

\* An unknown handle, or a Hook without a token or a positive deadline.
Refuse(t) ==
  /\ call[t].at = "body" /\ call[t].op \in OnPayload
  /\ ~Known(t) \/ call[t].op = "hook"
  /\ Return(t)
  /\ UNCHANGED <<sessions, child, home>>

\* start() spawns nothing.
NotStarted(t) ==
  /\ call[t].at = "body" /\ call[t].op = "load"
  /\ Return(t)
  /\ UNCHANGED <<sessions, child, home>>

\* Mutant: unloadPayload() that drops the session after a clean shutdown only.
KeepsOnFailure(t) == sessions

\* unloadPayload() drops the session before it shuts it down.
Dropped(t) ==
  IF call[t].op = "unload"
    THEN [sessions EXCEPT ![call[t].on] = @ \ {call[t].arg}]
    ELSE sessions

UseSession(t) ==
  /\ call[t].at = "body" /\ call[t].op \in OnPayload
  /\ Known(t)
  /\ sessions' = Dropped(t)
  /\ Continue(t, "session")
  /\ UNCHANGED <<child, home>>

\* What loadPayload() puts into the map.
Started(t) == call[t].arg

Succeed(t) ==
  /\ call[t].at = "session"
  /\ child[call[t].arg] = "running"
  /\ sessions' = IF call[t].op = "load"
                   THEN [sessions EXCEPT ![call[t].on] = @ \cup {Started(t)}]
                   ELSE sessions
  /\ child' = IF call[t].op = "unload" THEN Ended(call[t].arg) ELSE child
  /\ Return(t)
  /\ UNCHANGED home

\* An IOException goes to the caller ...
Fail(t) ==
  /\ call[t].at = "session" /\ call[t].op # "unload"
  /\ child' = IF call[t].op = "load" THEN Ended(call[t].arg) ELSE child
  /\ Return(t)
  /\ UNCHANGED <<sessions, home>>

\* ... but unloadPayload() catches it.
ShutdownFails(t) ==
  /\ call[t].at = "session" /\ call[t].op = "unload"
  /\ Continue(t, "fallback")
  /\ UNCHANGED <<sessions, child, home>>

\* Mutant: unloadPayload() without the close() in its catch.
RethrowsOnly(t) ==
  call[t].at = "fallback" /\ Return(t) /\ UNCHANGED <<sessions, child, home>>

\* unloadPayload()'s catch: close the session, throw the exception again.
Fallback(t) ==
  /\ call[t].at = "fallback"
  /\ child' = Ended(call[t].arg)
  /\ Return(t)
  /\ UNCHANGED <<sessions, home>>

\* Mutant: close() that only forgets the sessions.
ForgetsOnly(p) == {}

\* close() goes through sessions.values() ...
Remaining(p) == sessions[p]

Sweep(t) ==
  /\ call[t].at = "body" /\ call[t].op = "close"
  /\ call' = [call EXCEPT ![t].at = "sweep",
                          ![t].todo = Remaining(call[t].on)]
  /\ UNCHANGED <<calls, hostVars, owner, sessions, child, home>>

SweepOne(t) ==
  /\ call[t].at = "sweep"
  /\ \E s \in call[t].todo :
       /\ child' = Ended(s)
       /\ call' = [call EXCEPT ![t].todo = @ \ {s}]
  /\ UNCHANGED <<calls, hostVars, owner, sessions, home>>

\* ... and then clears it.
Clear(t) ==
  /\ call[t].at = "sweep" /\ call[t].todo = {}
  /\ sessions' = [sessions EXCEPT ![call[t].on] = {}]
  /\ Return(t)
  /\ UNCHANGED <<child, home>>

\* The process dies, or Aura's supervisor kills it.
ChildEnds(s) ==
  /\ child[s] = "running"
  /\ child' = Ended(s)
  /\ UNCHANGED <<call, calls, hostVars, owner, sessions, home>>

-----------------------------------------------------------------------------
\* Mutant: invokePayload() without a deadline.
HookOnly == {"hook"}

\* The calls the provider gives a deadline; the others RuntimeProcessSession
\* bounds by itself.
Deadlined == {"invoke", "hook"}

Supervised == {"load", "enable", "disable", "unload"}

Expire(t) ==
  /\ call[t].op \in Deadlined \cup Supervised
  /\ Fail(t) \/ ShutdownFails(t)

Step(t) ==
  \/ OnLoad(t) \/ OnUnload(t) \/ CloseThrows(t) \/ CloseProvider(t)
  \/ Call(t) \/ Enter(t)
  \/ StartSession(t) \/ NotStarted(t) \/ Refuse(t) \/ UseSession(t)
  \/ Succeed(t) \/ Fail(t) \/ ShutdownFails(t) \/ Fallback(t)
  \/ Sweep(t) \/ SweepOne(t) \/ Clear(t)

Next == (\E t \in Threads : Step(t)) \/ (\E s \in Payloads : ChildEnds(s))

Spec == Init /\ [][Next]_vars

\* A thread inside a method goes on.  Java's monitors are not fair: a thread
\* at the entry is let in only because CallLimit bounds its competitors.
GoesOn(t) ==
  \/ CloseThrows(t) \/ CloseProvider(t) \/ Enter(t)
  \/ StartSession(t) \/ NotStarted(t) \/ Refuse(t) \/ UseSession(t)
  \/ Expire(t) \/ Fallback(t) \/ Sweep(t) \/ SweepOne(t) \/ Clear(t)

FairSpec == Spec /\ \A t \in Threads : WF_vars(GoesOn(t))

-----------------------------------------------------------------------------
\* Properties.

CallType == [op : Operations \cup {"none"}, at : Stages,
             on : Providers \cup {Nobody}, arg : Payloads \cup {Nobody},
             todo : SUBSET Payloads]

\* The provider's state keeps its type.
TypeOK ==
  /\ call \in [Threads -> CallType]
  /\ calls \in 0..CallLimit
  /\ hostOwner \in Threads \cup {Nobody}
  /\ registration \in Providers \cup {Nobody}
  /\ created \subseteq Providers
  /\ owner \in [Providers -> Threads \cup {Nobody}]
  /\ sessions \in [Providers -> SUBSET Payloads]
  /\ child \in [Payloads -> {"none", "running", "ended"}]
  /\ home \in [Payloads -> Providers \cup {Nobody}]

\* The sessions a thread is talking to or about to close.
InHand(t) ==
  CASE call[t].at \in {"session", "fallback"} -> {call[t].arg}
    [] call[t].at = "sweep" -> call[t].todo
    [] OTHER -> {}

\* A session speaks with one thread at a time: while a child is being asked
\* something, nobody else asks, shuts down or closes it, through whichever
\* provider, unload or host shutdown it might be.
SessionExclusive ==
  \A t, u \in Threads : t # u => InHand(t) \cap InHand(u) = {}

\* No orphans: a running child is in its provider's map, or in the hands of
\* the thread that is starting it or shutting it down.
NoOrphan ==
  \A s \in Payloads : child[s] = "running" =>
    \/ s \in sessions[home[s]]
    \/ \E t \in Threads : s \in InHand(t) /\ call[t].op \in {"load", "unload"}

Returns(t) == Inside(t) /\ call'[t].at = "idle"

\* However unloadPayload() ends, once it found the session: the process is
\* gone and the handle is unknown from then on.
UnloadReleases ==
  [][\A t \in Threads :
       Returns(t) /\ call[t].op = "unload" /\ call[t].at # "body" =>
         /\ child'[call[t].arg] # "running"
         /\ call[t].arg \notin sessions'[call[t].on]]_vars

\* When close() returns, every process its provider ever started is gone: a
\* load that was under way has either finished before or not begun.
CloseEndsAll ==
  [][\A t \in Threads : Returns(t) /\ call[t].op = "close" =>
       \A s \in Payloads :
         home[s] = call[t].on => child'[s] # "running"]_vars

\* Every call returns, onUnload() holding the plugin's monitor while it waits
\* for the provider's included: no child can hold a launcher thread for ever.
CallsReturn ==
  \A t \in Threads : call[t].at # "idle" ~> call[t].at = "idle"
=============================================================================
