------------------------------ MODULE HookEvent ------------------------------
(***************************************************************************)
(* What the launch-hook example makes of the callbacks it is invoked with  *)
(* (examples/launch-hook/src/lib.rs, LaunchHook::invoke, once enabled):    *)
(* the launcher's value goes over the wire of BridgeValue, is changed in   *)
(* place, and goes back the same way, under the same limits.               *)
(*                                                                         *)
(* The names and texts of the contract are one atom each.                  *)
(***************************************************************************)
EXTENDS BridgeValue

VARIABLE reply   \* operation, "ok" or "error", and the wire or the error code

hook == <<vars, reply>>

Operations == {"aura.patch.v1", "hook.before-game-launch", "other"}
NoReply == [operation |-> "none", kind |-> "none", wire |-> <<>>, code |-> "none"]

\* The limits leave room for the smallest of the replies, of two texts.
ASSUME RoomAssumption ==
  MaxDepth >= 1 /\ MaxString >= 1 /\ MaxEntries >= 2 /\ MaxContent >= 3 /\ MaxValues >= 3

contractVersion == <<1>>  point == <<2>>    data == <<3>>          plan == <<4>>
command == <<5>>          mode == <<6>>     jvmArguments == <<7>>  action == <<8>>
protectedSecrets == <<9>> schemaVersion == <<10>>

Text(s)   == [kind |-> "string", s |-> s]
Whole(n) == [kind |-> "integer", n |-> n]
Map(s)    == [kind |-> "map", entries |-> s]
Entry(k, v) == [key |-> k, val |-> v]

beforeGameLaunch == Text(<<21>>)   structuredJava == Text(<<22>>)
replace == Text(<<23>>)            unchanged == Text(<<24>>)
ExampleArgument == Text(<<25>>)

-----------------------------------------------------------------------------
Find(v, k) == {i \in 1..Len(v.entries) : v.entries[i].key = k}

\* require_map() or map_mut(), and then field_mut() or take_field().
Has(v, k) == v.kind = "map" /\ Find(v, k) # {}
Field(v, k) == v.entries[CHOOSE i \in Find(v, k) : TRUE].val
\* require_integer(), require_string(), field_is_string().
Is(v, k, x) == Has(v, k) /\ Field(v, k) = x

With(v, k, x) ==
  [v EXCEPT !.entries[CHOOSE i \in Find(v, k) : TRUE].val = x]

Command(d) == Field(Field(d, plan), command)

\* What the hook needs of an event before it looks at the mode.
InContract(event) ==
  /\ Is(event, contractVersion, Whole(1))
  /\ Is(event, point, beforeGameLaunch)
  /\ Has(event, data)
  /\ Has(Field(event, data), plan)
  /\ Has(Field(Field(event, data), plan), command)
  /\ Command(Field(event, data)).kind = "map"

Structured(event) == Is(Command(Field(event, data)), mode, structuredJava)

HasArguments(event) ==
  /\ Has(Command(Field(event, data)), jvmArguments)
  /\ Field(Command(Field(event, data)), jvmArguments).kind = "array"

\* Mutant: the command built anew from the fields that are known.
Rebuilt(d) ==
  With(d, plan, With(Field(d, plan), command, Map(<<
    Entry(mode, structuredJava),
    Entry(jvmArguments,
      [Field(Command(d), jvmArguments) EXCEPT !.items = Append(@, ExampleArgument)])>>)))
\* One argument pushed, in place.
Pushed(d) ==
  With(d, plan, With(Field(d, plan), command, With(Command(d), jvmArguments,
    [Field(Command(d), jvmArguments) EXCEPT !.items = Append(@, ExampleArgument)])))

Unchanged == Map(<<Entry(contractVersion, Whole(1)), Entry(action, unchanged)>>)
Replace(d) == Map(<<Entry(contractVersion, Whole(1)), Entry(action, replace),
                    Entry(data, d), Entry(protectedSecrets, Map(<<>>))>>)
PatchResult == Map(<<Entry(schemaVersion, Whole(1)), Entry(action, unchanged)>>)

Error(c) == [kind |-> "error", wire |-> <<>>, code |-> c]

\* Mutant: whatever was written before the limit.
Truncated(v) == [kind |-> "ok", wire |-> Encode(v).out, code |-> "none"]
\* bridge_error() of what to_wire() refuses: "invalid-argument".
Wire(v) ==
  IF Encode(v).ok THEN [kind |-> "ok", wire |-> Encode(v).out, code |-> "none"]
  ELSE Error("invalid-argument")

Hook(event) ==
  IF ~InContract(event) THEN Error("invalid-argument")
  ELSE IF ~Structured(event) THEN Wire(Unchanged)
  ELSE IF ~HasArguments(event) THEN Error("invalid-argument")
  ELSE Wire(Replace(Pushed(Field(event, data))))

Patch(request) ==
  IF Is(request, schemaVersion, Whole(1)) THEN Wire(PatchResult)
  ELSE Error("invalid-argument")

\* LaunchHook::invoke.
Invoke ==
  /\ stage = "arrived" /\ reply = NoReply
  /\ \E o \in Operations :
        LET r == CASE o = "aura.patch.v1" -> Patch(got)
                   [] o = "hook.before-game-launch" -> Hook(got)
                   [] o = "other" -> Error("invalid-argument")
        IN  reply' = [operation |-> o, kind |-> r.kind, wire |-> r.wire, code |-> r.code]
  /\ UNCHANGED vars

HookInit == Init /\ reply = NoReply

HookNext ==
  \/ Next /\ UNCHANGED reply
  \/ Invoke

HookSpec == HookInit /\ [][HookNext]_hook

-----------------------------------------------------------------------------
\* Properties.

Launch == reply.operation = "hook.before-game-launch"
Outcome == Decoded(reply.wire)

\* "Hook returns replace only for structured-java commands and preserves
\* unknown fields. Other command modes return unchanged.": whatever the
\* launcher reads in a replacement is what it sent, at every depth, but for one
\* argument at the end; and any other mode, or none, is left alone.
PlanWithout(d) == With(d, plan, With(Field(d, plan), command,
                       With(Command(d), jvmArguments, Map(<<>>))))
ReplacedWell ==
  LET sent == Field(value, data)
      back == Field(Outcome, data)
      old  == Field(Command(sent), jvmArguments).items
  IN  /\ Is(Command(sent), mode, structuredJava)
      /\ PlanWithout(back) = PlanWithout(sent)
      /\ Field(Command(back), jvmArguments).items = Append(old, ExampleArgument)
ReplacesOneThing ==
  /\ Launch /\ reply.kind = "ok" =>
       /\ Complete(Decode(reply.wire))
       /\ Is(Outcome, action, replace) => ReplacedWell
  /\ Launch /\ InContract(value) /\ ~Structured(value) =>
       reply.kind = "ok" /\ Is(Outcome, action, unchanged)

\* An event the hook should replace fails for one reason only: the reply,
\* with its four fields and one argument more, is beyond the limits the event
\* itself just met.  It is then refused whole.
RefusesOnlyTheOversized ==
  Launch /\ InContract(value) /\ Structured(value) /\ HasArguments(value) =>
    (reply.kind = "error" <=> ~WithinLimits(Replace(Pushed(Field(value, data)))))
=============================================================================
