------------------------ MODULE RuntimeProviderProofs ------------------------
(***************************************************************************)
(* What the Java provider guarantees for any number of launcher threads,   *)
(* providers, payloads and calls.  Everything rests on who holds which     *)
(* monitor: a session is in the hands of the owner of its provider's       *)
(* monitor or in nobody's.                                                 *)
(***************************************************************************)
EXTENDS RuntimeProvider, TLAPS

\* A call's stage says what it is about.
Shape ==
  \A t \in Threads :
    /\ call[t].at # "idle" => call[t].on \in Providers
    /\ call[t].at \in {"host", "sweep"} => call[t].op = "close"
    /\ call[t].op \in OnPayload => call[t].arg \in Payloads
    /\ call[t].at = "session" =>
         call[t].arg \in Payloads /\ call[t].op \in OnPayload \cup {"load"}
    /\ call[t].at = "fallback" => call[t].op = "unload"

\* A monitor's owner is inside a method of that provider, and the reverse.
Monitor ==
  /\ \A t \in Threads : Inside(t) => owner[call[t].on] = t
  /\ \A p \in Providers : owner[p] # Nobody =>
       Inside(owner[p]) /\ call[owner[p]].on = p

\* A session belongs to the provider that started it.
Homes ==
  /\ \A s \in Payloads : child[s] # "none" => home[s] \in Providers
  /\ \A p \in Providers : \A s \in sessions[p] :
       home[s] = p /\ child[s] # "none"
  /\ \A t \in Threads : \A s \in InHand(t) :
       home[s] = call[t].on /\ child[s] # "none"

\* What a thread has in hand, it has taken from the map or not put there yet;
\* close() has what it has not closed.
Hands ==
  /\ \A t \in Threads : call[t].at \in {"session", "fallback"} =>
       (call[t].arg \in sessions[call[t].on] <=> call[t].op \in Uses)
  /\ \A t \in Threads : call[t].at = "sweep" =>
       \A s \in sessions[call[t].on] :
         s \in call[t].todo \/ child[s] # "running"

Inv == TypeOK /\ Shape /\ Monitor /\ Homes /\ Hands /\ NoOrphan

-----------------------------------------------------------------------------

\* The call records the methods build are call records.
LEMMA CallTypes ==
  /\ NoCall \in CallType
  /\ \A o \in Operations, a \in Stages, p \in Providers,
        s \in Payloads \cup {Nobody} :
       [NoCall EXCEPT !.op = o, !.at = a, !.on = p, !.arg = s] \in CallType
  /\ \A p \in Providers :
       [NoCall EXCEPT !.op = "close", !.at = "host", !.on = p] \in CallType
  /\ \A c \in CallType, a \in Stages : [c EXCEPT !.at = a] \in CallType
  /\ \A c \in CallType, s \in Payloads :
       [c EXCEPT !.at = "session", !.arg = s] \in CallType
  /\ \A c \in CallType, S \in SUBSET Payloads :
       [c EXCEPT !.at = "sweep", !.todo = S] \in CallType
  /\ \A c \in CallType : \A s : [c EXCEPT !.todo = @ \ {s}] \in CallType
BY DEF NoCall, CallType, Stages, Operations, OnPayload, Uses

LEMMA InvInit == Init => Inv
BY CallersAssumption DEF Init, NoCall, Inv, TypeOK, Shape, Monitor, Homes,
  Hands, NoOrphan, CallType, Inside, InHand, Operations, OnPayload, Uses, Stages

\* Each method's step keeps each part of the invariant.
LEMMA InvStep == Inv /\ [Next]_vars => Inv'
<1> SUFFICES ASSUME Inv, [Next]_vars PROVE Inv'
  OBVIOUS
<1> USE CallersAssumption DEF Inv
<1>1. ASSUME NEW t \in Threads, OnLoad(t) PROVE Inv'
  <2>1. TypeOK'
    <3>1. call' \in [Threads -> CallType]
      BY <1>1, CallTypes DEF OnLoad, Begins, TypeOK, Shape, Stages, Operations,
        OnPayload, Uses
    <3> QED BY <1>1, <3>1 DEF OnLoad, Begins, TypeOK, Shape, OnPayload, Uses
  <2>2. Shape'
    BY <1>1 DEF OnLoad, Begins, TypeOK, Shape, OnPayload, Uses
  <2>3. Monitor'
    BY <1>1 DEF OnLoad, Begins, TypeOK, Shape, Monitor, Inside
  <2>4. Homes'
    BY <1>1 DEF OnLoad, Begins, TypeOK, Shape, Monitor, Homes, Inside, InHand
  <2>5. Hands'
    BY <1>1 DEF OnLoad, Begins, TypeOK, Shape, Monitor, Homes, Hands, Inside,
      InHand, OnPayload, Uses
  <2>6. NoOrphan'
    BY <1>1 DEF OnLoad, Begins, TypeOK, Shape, Monitor, Homes, Hands, NoOrphan,
      Inside, InHand, OnPayload, Uses
  <2> QED BY <2>1, <2>2, <2>3, <2>4, <2>5, <2>6
<1>2. ASSUME NEW t \in Threads, OnUnload(t) PROVE Inv'
  <2>1. TypeOK'
    <3>1. call' \in [Threads -> CallType]
      BY <1>2, CallTypes DEF OnUnload, Begins, TypeOK, Shape, Stages,
        Operations, OnPayload, Uses
    <3> QED BY <1>2, <3>1 DEF OnUnload, Begins, TypeOK, Shape, OnPayload, Uses
  <2>2. Shape'
    BY <1>2 DEF OnUnload, Begins, NoCall, TypeOK, Shape, OnPayload, Uses
  <2>3. Monitor'
    BY <1>2 DEF OnUnload, Begins, NoCall, TypeOK, Shape, Monitor, Inside
  <2>4. Homes'
    BY <1>2 DEF OnUnload, Begins, NoCall, TypeOK, Shape, Monitor, Homes,
      Inside, InHand
  <2>5. Hands'
    BY <1>2 DEF OnUnload, Begins, NoCall, TypeOK, Shape, Monitor, Homes, Hands,
      Inside, InHand, OnPayload, Uses
  <2>6. NoOrphan'
    BY <1>2 DEF OnUnload, Begins, NoCall, TypeOK, Shape, Monitor, Homes, Hands,
      NoOrphan, Inside, InHand, OnPayload, Uses
  <2> QED BY <2>1, <2>2, <2>3, <2>4, <2>5, <2>6
<1>3. ASSUME NEW t \in Threads, CloseThrows(t) PROVE Inv'
  <2>1. TypeOK'
    <3>1. call' \in [Threads -> CallType]
      BY <1>3, CallTypes DEF CloseThrows, TypeOK, Shape, Stages, Operations,
        OnPayload, Uses
    <3> QED BY <1>3, <3>1 DEF CloseThrows, TypeOK, Shape, OnPayload, Uses
  <2>2. Shape'
    BY <1>3 DEF CloseThrows, NoCall, TypeOK, Shape, OnPayload, Uses
  <2>3. Monitor'
    BY <1>3 DEF CloseThrows, NoCall, TypeOK, Shape, Monitor, Inside
  <2>4. Homes'
    BY <1>3 DEF CloseThrows, NoCall, TypeOK, Shape, Monitor, Homes, Inside,
      InHand
  <2>5. Hands'
    BY <1>3 DEF CloseThrows, NoCall, TypeOK, Shape, Monitor, Homes, Hands,
      Inside, InHand, OnPayload, Uses
  <2>6. NoOrphan'
    BY <1>3 DEF CloseThrows, NoCall, TypeOK, Shape, Monitor, Homes, Hands,
      NoOrphan, Inside, InHand, OnPayload, Uses
  <2> QED BY <2>1, <2>2, <2>3, <2>4, <2>5, <2>6
<1>4. ASSUME NEW t \in Threads, CloseProvider(t) PROVE Inv'
  <2>1. TypeOK'
    <3>1. call' \in [Threads -> CallType]
      BY <1>4, CallTypes DEF CloseProvider, hostVars, TypeOK, Shape, Stages,
        Operations, OnPayload, Uses
    <3> QED BY <1>4, <3>1 DEF CloseProvider, hostVars, TypeOK, Shape,
      OnPayload, Uses
  <2>2. Shape'
    BY <1>4 DEF CloseProvider, hostVars, TypeOK, Shape, OnPayload, Uses
  <2>3. Monitor'
    BY <1>4 DEF CloseProvider, hostVars, TypeOK, Shape, Monitor, Inside
  <2>4. Homes'
    BY <1>4 DEF CloseProvider, hostVars, TypeOK, Shape, Monitor, Homes, Inside,
      InHand
  <2>5. Hands'
    BY <1>4 DEF CloseProvider, hostVars, TypeOK, Shape, Monitor, Homes, Hands,
      Inside, InHand, OnPayload, Uses
  <2>6. NoOrphan'
    BY <1>4 DEF CloseProvider, hostVars, TypeOK, Shape, Monitor, Homes, Hands,
      NoOrphan, Inside, InHand, OnPayload, Uses
  <2> QED BY <2>1, <2>2, <2>3, <2>4, <2>5, <2>6
<1>5. ASSUME NEW t \in Threads, Call(t) PROVE Inv'
  <2>1. TypeOK'
    <3>1. call' \in [Threads -> CallType]
      <4>1. PICK o \in Operations, p \in created, s \in Payloads \cup {Nobody} :
              call' = [call EXCEPT ![t] =
                [NoCall EXCEPT !.op = o, !.at = "entry", !.on = p, !.arg = s]]
        BY <1>5 DEF Call
      <4>2. [NoCall EXCEPT !.op = o, !.at = "entry", !.on = p, !.arg = s]
              \in CallType
        BY CallTypes DEF TypeOK, Stages
      <4> QED BY <4>1, <4>2 DEF TypeOK
    <3> QED BY <1>5, <3>1 DEF Call, Begins, hostVars, Operations, TypeOK,
      Shape, OnPayload, Uses
  <2>2. Shape'
    BY <1>5 DEF Call, Begins, NoCall, hostVars, Operations, TypeOK, Shape,
      OnPayload, Uses
  <2>3. Monitor'
    BY <1>5 DEF Call, Begins, NoCall, hostVars, Operations, TypeOK, Shape,
      Monitor, Inside
  <2>4. Homes'
    BY <1>5 DEF Call, Begins, NoCall, hostVars, Operations, TypeOK, Shape,
      Monitor, Homes, Inside, InHand
  <2>5. Hands'
    BY <1>5 DEF Call, Begins, NoCall, hostVars, Operations, TypeOK, Shape,
      Monitor, Homes, Hands, Inside, InHand, OnPayload, Uses
  <2>6. NoOrphan'
    BY <1>5 DEF Call, Begins, NoCall, hostVars, Operations, TypeOK, Shape,
      Monitor, Homes, Hands, NoOrphan, Inside, InHand, OnPayload, Uses
  <2> QED BY <2>1, <2>2, <2>3, <2>4, <2>5, <2>6
<1>6. ASSUME NEW t \in Threads, Enter(t) PROVE Inv'
  <2>1. TypeOK'
    <3>1. call' \in [Threads -> CallType]
      BY <1>6, CallTypes DEF Enter, Free, hostVars, TypeOK, Shape, Stages,
        Operations, OnPayload, Uses
    <3> QED BY <1>6, <3>1 DEF Enter, Free, hostVars, TypeOK, Shape, OnPayload,
      Uses
  <2>2. Shape'
    BY <1>6 DEF Enter, Free, hostVars, TypeOK, Shape, OnPayload, Uses
  <2>3. Monitor'
    BY <1>6 DEF Enter, Free, hostVars, TypeOK, Shape, Monitor, Inside
  <2>4. Homes'
    BY <1>6 DEF Enter, Free, hostVars, TypeOK, Shape, Monitor, Homes, Inside,
      InHand
  <2>5. Hands'
    BY <1>6 DEF Enter, Free, hostVars, TypeOK, Shape, Monitor, Homes, Hands,
      Inside, InHand, OnPayload, Uses
  <2>6. NoOrphan'
    BY <1>6 DEF Enter, Free, hostVars, TypeOK, Shape, Monitor, Homes, Hands,
      NoOrphan, Inside, InHand, OnPayload, Uses
  <2> QED BY <2>1, <2>2, <2>3, <2>4, <2>5, <2>6
<1>7. ASSUME NEW t \in Threads, StartSession(t) PROVE Inv'
  <2>1. TypeOK'
    <3>1. call' \in [Threads -> CallType]
      <4>1. PICK s \in Payloads :
              call' = [call EXCEPT ![t].at = "session", ![t].arg = s]
        BY <1>7 DEF StartSession
      <4>2. [call[t] EXCEPT !.at = "session", !.arg = s] \in CallType
        BY CallTypes DEF TypeOK
      <4>3. call' = [call EXCEPT ![t] = [call[t] EXCEPT !.at = "session", !.arg = s]]
        BY <4>1 DEF TypeOK
      <4> QED BY <4>2, <4>3 DEF TypeOK
    <3> QED BY <1>7, <3>1 DEF StartSession, hostVars, TypeOK, Shape, OnPayload,
      Uses
  <2>2. Shape'
    BY <1>7 DEF StartSession, hostVars, TypeOK, Shape, OnPayload, Uses
  <2>3. Monitor'
    BY <1>7 DEF StartSession, hostVars, TypeOK, Shape, Monitor, Inside
  <2>4. Homes'
    BY <1>7 DEF StartSession, hostVars, TypeOK, Shape, Monitor, Homes, Inside,
      InHand
  <2>5. Hands'
    BY <1>7 DEF StartSession, hostVars, TypeOK, Shape, Monitor, Homes, Hands,
      Inside, InHand, OnPayload, Uses
  <2>6. NoOrphan'
    BY <1>7 DEF StartSession, hostVars, TypeOK, Shape, Monitor, Homes, Hands,
      NoOrphan, Inside, InHand, OnPayload, Uses
  <2> QED BY <2>1, <2>2, <2>3, <2>4, <2>5, <2>6
<1>8. ASSUME NEW t \in Threads, NotStarted(t) PROVE Inv'
  <2>1. TypeOK'
    <3>1. call' \in [Threads -> CallType]
      BY <1>8, CallTypes DEF NotStarted, Return, TypeOK, Shape, Stages,
        Operations, OnPayload, Uses
    <3> QED BY <1>8, <3>1 DEF NotStarted, Return, TypeOK, Shape, OnPayload,
      Uses
  <2>2. Shape'
    BY <1>8 DEF NotStarted, Return, NoCall, TypeOK, Shape, OnPayload, Uses
  <2>3. Monitor'
    BY <1>8 DEF NotStarted, Return, NoCall, TypeOK, Shape, Monitor, Inside
  <2>4. Homes'
    BY <1>8 DEF NotStarted, Return, NoCall, TypeOK, Shape, Monitor, Homes,
      Inside, InHand
  <2>5. Hands'
    BY <1>8 DEF NotStarted, Return, NoCall, TypeOK, Shape, Monitor, Homes,
      Hands, Inside, InHand, OnPayload, Uses
  <2>6. NoOrphan'
    BY <1>8 DEF NotStarted, Return, NoCall, TypeOK, Shape, Monitor, Homes,
      Hands, NoOrphan, Inside, InHand, OnPayload, Uses
  <2> QED BY <2>1, <2>2, <2>3, <2>4, <2>5, <2>6
<1>9. ASSUME NEW t \in Threads, Refuse(t) PROVE Inv'
  <2>1. TypeOK'
    <3>1. call' \in [Threads -> CallType]
      BY <1>9, CallTypes DEF Refuse, Return, TypeOK, Shape, Stages, Operations,
        OnPayload, Uses
    <3> QED BY <1>9, <3>1 DEF Refuse, Return, TypeOK, Shape, OnPayload, Uses
  <2>2. Shape'
    BY <1>9 DEF Refuse, Return, NoCall, TypeOK, Shape, OnPayload, Uses
  <2>3. Monitor'
    BY <1>9 DEF Refuse, Return, NoCall, TypeOK, Shape, Monitor, Inside
  <2>4. Homes'
    BY <1>9 DEF Refuse, Return, NoCall, TypeOK, Shape, Monitor, Homes, Inside,
      InHand
  <2>5. Hands'
    BY <1>9 DEF Refuse, Return, NoCall, TypeOK, Shape, Monitor, Homes, Hands,
      Inside, InHand, OnPayload, Uses
  <2>6. NoOrphan'
    BY <1>9 DEF Refuse, Return, NoCall, TypeOK, Shape, Monitor, Homes, Hands,
      NoOrphan, Inside, InHand, OnPayload, Uses
  <2> QED BY <2>1, <2>2, <2>3, <2>4, <2>5, <2>6
<1>10. ASSUME NEW t \in Threads, UseSession(t) PROVE Inv'
  <2>1. TypeOK'
    <3>1. call' \in [Threads -> CallType]
      BY <1>10, CallTypes DEF UseSession, Known, Dropped, Continue, hostVars,
        TypeOK, Shape, Stages, Operations, OnPayload, Uses
    <3> QED BY <1>10, <3>1 DEF UseSession, Known, Dropped, Continue, hostVars,
      TypeOK, Shape, OnPayload, Uses
  <2>2. Shape'
    BY <1>10 DEF UseSession, Known, Dropped, Continue, hostVars, TypeOK, Shape,
      OnPayload, Uses
  <2>3. Monitor'
    BY <1>10 DEF UseSession, Known, Dropped, Continue, hostVars, TypeOK, Shape,
      Monitor, Inside
  <2>4. Homes'
    BY <1>10 DEF UseSession, Known, Dropped, Continue, hostVars, TypeOK, Shape,
      Monitor, Homes, Inside, InHand
  <2>5. Hands'
    BY <1>10 DEF UseSession, Known, Dropped, Continue, hostVars, TypeOK, Shape,
      Monitor, Homes, Hands, Inside, InHand, OnPayload, Uses
  <2>6. NoOrphan'
    BY <1>10 DEF UseSession, Known, Dropped, Continue, hostVars, TypeOK, Shape,
      Monitor, Homes, Hands, NoOrphan, Inside, InHand, OnPayload, Uses
  <2> QED BY <2>1, <2>2, <2>3, <2>4, <2>5, <2>6
<1>11. ASSUME NEW t \in Threads, Succeed(t) PROVE Inv'
  <2>1. TypeOK'
    <3>1. call' \in [Threads -> CallType]
      BY <1>11, CallTypes DEF Succeed, Ended, Started, Return, TypeOK, Shape,
        Stages, Operations, OnPayload, Uses
    <3> QED BY <1>11, <3>1 DEF Succeed, Ended, Started, Return, TypeOK, Shape,
      OnPayload, Uses
  <2>2. Shape'
    BY <1>11 DEF Succeed, Ended, Started, Return, NoCall, TypeOK, Shape,
      OnPayload, Uses
  <2>3. Monitor'
    BY <1>11 DEF Succeed, Ended, Started, Return, NoCall, TypeOK, Shape,
      Monitor, Inside
  <2>4. Homes'
    BY <1>11 DEF Succeed, Ended, Started, Return, NoCall, TypeOK, Shape,
      Monitor, Homes, Inside, InHand
  <2>5. Hands'
    BY <1>11 DEF Succeed, Ended, Started, Return, NoCall, TypeOK, Shape,
      Monitor, Homes, Hands, Inside, InHand, OnPayload, Uses
  <2>6. NoOrphan'
    BY <1>11 DEF Succeed, Ended, Started, Return, NoCall, TypeOK, Shape,
      Monitor, Homes, Hands, NoOrphan, Inside, InHand, OnPayload, Uses
  <2> QED BY <2>1, <2>2, <2>3, <2>4, <2>5, <2>6
<1>12. ASSUME NEW t \in Threads, Fail(t) PROVE Inv'
  <2>1. TypeOK'
    <3>1. call' \in [Threads -> CallType]
      BY <1>12, CallTypes DEF Fail, Ended, Return, TypeOK, Shape, Stages,
        Operations, OnPayload, Uses
    <3> QED BY <1>12, <3>1 DEF Fail, Ended, Return, TypeOK, Shape, OnPayload,
      Uses
  <2>2. Shape'
    BY <1>12 DEF Fail, Ended, Return, NoCall, TypeOK, Shape, OnPayload, Uses
  <2>3. Monitor'
    BY <1>12 DEF Fail, Ended, Return, NoCall, TypeOK, Shape, Monitor, Inside
  <2>4. Homes'
    BY <1>12 DEF Fail, Ended, Return, NoCall, TypeOK, Shape, Monitor, Homes,
      Inside, InHand
  <2>5. Hands'
    BY <1>12 DEF Fail, Ended, Return, NoCall, TypeOK, Shape, Monitor, Homes,
      Hands, Inside, InHand, OnPayload, Uses
  <2>6. NoOrphan'
    BY <1>12 DEF Fail, Ended, Return, NoCall, TypeOK, Shape, Monitor, Homes,
      Hands, NoOrphan, Inside, InHand, OnPayload, Uses
  <2> QED BY <2>1, <2>2, <2>3, <2>4, <2>5, <2>6
<1>13. ASSUME NEW t \in Threads, ShutdownFails(t) PROVE Inv'
  <2>1. TypeOK'
    <3>1. call' \in [Threads -> CallType]
      BY <1>13, CallTypes DEF ShutdownFails, Continue, hostVars, TypeOK, Shape,
        Stages, Operations, OnPayload, Uses
    <3> QED BY <1>13, <3>1 DEF ShutdownFails, Continue, hostVars, TypeOK,
      Shape, OnPayload, Uses
  <2>2. Shape'
    BY <1>13 DEF ShutdownFails, Continue, hostVars, TypeOK, Shape, OnPayload,
      Uses
  <2>3. Monitor'
    BY <1>13 DEF ShutdownFails, Continue, hostVars, TypeOK, Shape, Monitor,
      Inside
  <2>4. Homes'
    BY <1>13 DEF ShutdownFails, Continue, hostVars, TypeOK, Shape, Monitor,
      Homes, Inside, InHand
  <2>5. Hands'
    BY <1>13 DEF ShutdownFails, Continue, hostVars, TypeOK, Shape, Monitor,
      Homes, Hands, Inside, InHand, OnPayload, Uses
  <2>6. NoOrphan'
    BY <1>13 DEF ShutdownFails, Continue, hostVars, TypeOK, Shape, Monitor,
      Homes, Hands, NoOrphan, Inside, InHand, OnPayload, Uses
  <2> QED BY <2>1, <2>2, <2>3, <2>4, <2>5, <2>6
<1>14. ASSUME NEW t \in Threads, Fallback(t) PROVE Inv'
  <2>1. TypeOK'
    <3>1. call' \in [Threads -> CallType]
      BY <1>14, CallTypes DEF Fallback, Ended, Return, TypeOK, Shape, Stages,
        Operations, OnPayload, Uses
    <3> QED BY <1>14, <3>1 DEF Fallback, Ended, Return, TypeOK, Shape,
      OnPayload, Uses
  <2>2. Shape'
    BY <1>14 DEF Fallback, Ended, Return, NoCall, TypeOK, Shape, OnPayload,
      Uses
  <2>3. Monitor'
    BY <1>14 DEF Fallback, Ended, Return, NoCall, TypeOK, Shape, Monitor,
      Inside
  <2>4. Homes'
    BY <1>14 DEF Fallback, Ended, Return, NoCall, TypeOK, Shape, Monitor,
      Homes, Inside, InHand
  <2>5. Hands'
    BY <1>14 DEF Fallback, Ended, Return, NoCall, TypeOK, Shape, Monitor,
      Homes, Hands, Inside, InHand, OnPayload, Uses
  <2>6. NoOrphan'
    BY <1>14 DEF Fallback, Ended, Return, NoCall, TypeOK, Shape, Monitor,
      Homes, Hands, NoOrphan, Inside, InHand, OnPayload, Uses
  <2> QED BY <2>1, <2>2, <2>3, <2>4, <2>5, <2>6
<1>15. ASSUME NEW t \in Threads, Sweep(t) PROVE Inv'
  <2>1. TypeOK'
    <3>1. call' \in [Threads -> CallType]
      BY <1>15, CallTypes DEF Sweep, Remaining, hostVars, TypeOK, Shape,
        Stages, Operations, OnPayload, Uses
    <3> QED BY <1>15, <3>1 DEF Sweep, Remaining, hostVars, TypeOK, Shape,
      OnPayload, Uses
  <2>2. Shape'
    BY <1>15 DEF Sweep, Remaining, hostVars, TypeOK, Shape, OnPayload, Uses
  <2>3. Monitor'
    BY <1>15 DEF Sweep, Remaining, hostVars, TypeOK, Shape, Monitor, Inside
  <2>4. Homes'
    BY <1>15 DEF Sweep, Remaining, hostVars, TypeOK, Shape, Monitor, Homes,
      Inside, InHand
  <2>5. Hands'
    BY <1>15 DEF Sweep, Remaining, hostVars, TypeOK, Shape, Monitor, Homes,
      Hands, Inside, InHand, OnPayload, Uses
  <2>6. NoOrphan'
    BY <1>15 DEF Sweep, Remaining, hostVars, TypeOK, Shape, Monitor, Homes,
      Hands, NoOrphan, Inside, InHand, OnPayload, Uses
  <2> QED BY <2>1, <2>2, <2>3, <2>4, <2>5, <2>6
<1>16. ASSUME NEW t \in Threads, SweepOne(t) PROVE Inv'
  <2>1. TypeOK'
    <3>1. call' \in [Threads -> CallType]
      <4>1. PICK s : call' = [call EXCEPT ![t].todo = @ \ {s}]
        BY <1>16 DEF SweepOne
      <4>2. [call[t] EXCEPT !.todo = @ \ {s}] \in CallType
        BY CallTypes DEF TypeOK
      <4> QED BY <4>1, <4>2 DEF TypeOK
    <3> QED BY <1>16, <3>1 DEF SweepOne, Ended, hostVars, TypeOK, Shape,
      OnPayload, Uses
  <2>2. Shape'
    BY <1>16 DEF SweepOne, Ended, hostVars, TypeOK, Shape, OnPayload, Uses
  <2>3. Monitor'
    BY <1>16 DEF SweepOne, Ended, hostVars, TypeOK, Shape, Monitor, Inside
  <2>4. Homes'
    BY <1>16 DEF SweepOne, Ended, hostVars, TypeOK, Shape, Monitor, Homes,
      Inside, InHand
  <2>5. Hands'
    BY <1>16 DEF SweepOne, Ended, hostVars, TypeOK, Shape, Monitor, Homes,
      Hands, Inside, InHand, OnPayload, Uses
  <2>6. NoOrphan'
    BY <1>16 DEF SweepOne, Ended, hostVars, TypeOK, Shape, Monitor, Homes,
      Hands, NoOrphan, Inside, InHand, OnPayload, Uses
  <2> QED BY <2>1, <2>2, <2>3, <2>4, <2>5, <2>6
<1>17. ASSUME NEW t \in Threads, Clear(t) PROVE Inv'
  <2>1. TypeOK'
    <3>1. call' \in [Threads -> CallType]
      BY <1>17, CallTypes DEF Clear, Return, TypeOK, Shape, Stages, Operations,
        OnPayload, Uses
    <3> QED BY <1>17, <3>1 DEF Clear, Return, TypeOK, Shape, OnPayload, Uses
  <2>2. Shape'
    BY <1>17 DEF Clear, Return, NoCall, TypeOK, Shape, OnPayload, Uses
  <2>3. Monitor'
    BY <1>17 DEF Clear, Return, NoCall, TypeOK, Shape, Monitor, Inside
  <2>4. Homes'
    BY <1>17 DEF Clear, Return, NoCall, TypeOK, Shape, Monitor, Homes, Inside,
      InHand
  <2>5. Hands'
    BY <1>17 DEF Clear, Return, NoCall, TypeOK, Shape, Monitor, Homes, Hands,
      Inside, InHand, OnPayload, Uses
  <2>6. NoOrphan'
    BY <1>17 DEF Clear, Return, NoCall, TypeOK, Shape, Monitor, Homes, Hands,
      NoOrphan, Inside, InHand, OnPayload, Uses
  <2> QED BY <2>1, <2>2, <2>3, <2>4, <2>5, <2>6
<1>18. ASSUME NEW s \in Payloads, ChildEnds(s) PROVE Inv'
  <2>1. TypeOK'
    BY <1>18 DEF ChildEnds, Ended, hostVars, TypeOK
  <2>2. Shape'
    BY <1>18 DEF ChildEnds, Ended, hostVars, TypeOK, Shape, OnPayload, Uses
  <2>3. Monitor'
    BY <1>18 DEF ChildEnds, Ended, hostVars, TypeOK, Shape, Monitor, Inside
  <2>4. Homes'
    BY <1>18 DEF ChildEnds, Ended, hostVars, TypeOK, Shape, Monitor, Homes,
      Inside, InHand
  <2>5. Hands'
    BY <1>18 DEF ChildEnds, Ended, hostVars, TypeOK, Shape, Monitor, Homes,
      Hands, Inside, InHand, OnPayload, Uses
  <2>6. NoOrphan'
    BY <1>18 DEF ChildEnds, Ended, hostVars, TypeOK, Shape, Monitor, Homes,
      Hands, NoOrphan, Inside, InHand, OnPayload, Uses
  <2> QED BY <2>1, <2>2, <2>3, <2>4, <2>5, <2>6
<1>19. CASE UNCHANGED vars
  BY <1>19 DEF vars, hostVars, TypeOK, Shape, Monitor, Homes, Hands, NoOrphan,
    Inside, InHand
<1> QED BY <1>1, <1>2, <1>3, <1>4, <1>5, <1>6, <1>7, <1>8, <1>9, <1>10, <1>11,
  <1>12, <1>13, <1>14, <1>15, <1>16, <1>17, <1>18, <1>19 DEF Next, Step

LEMMA Invariant == Spec => []Inv
BY InvInit, InvStep, PTL DEF Spec

-----------------------------------------------------------------------------

\* The provider's state keeps its type, for any threads, payloads and calls.
THEOREM TypeCorrect == Spec => []TypeOK
BY Invariant, PTL DEF Inv

\* A thread that has a session in hand is inside its provider.
LEMMA InHandInside ==
  ASSUME Inv, NEW t \in Threads, NEW s \in InHand(t)
  PROVE  s \in Payloads /\ home[s] = call[t].on /\ owner[home[s]] = t
<1>1. Inside(t)
  BY DEF InHand, Inside
<1>2. s \in Payloads
  <2>1. call[t] \in CallType
    BY DEF Inv, TypeOK
  <2>2. CASE call[t].at \in {"session", "fallback"}
    BY <2>2 DEF Inv, Shape, InHand, OnPayload
  <2>3. CASE call[t].at = "sweep"
    BY <2>1, <2>3 DEF CallType, InHand
  <2> QED BY <2>2, <2>3 DEF InHand
<1>3. home[s] = call[t].on
  BY DEF Inv, Homes
<1> QED BY <1>1, <1>2, <1>3 DEF Inv, Monitor

\* Only a thread's own step ends its call.
LEMMA OwnReturn ==
  ASSUME Inv, Next, NEW t \in Threads, Returns(t)
  PROVE  \/ NotStarted(t) \/ Refuse(t)
         \/ Succeed(t) \/ Fail(t) \/ Fallback(t) \/ Clear(t)
<1>1. call \in [Threads -> CallType] /\ call[t].at # "idle" /\ call'[t].at = "idle"
  BY DEF Inv, TypeOK, Returns, Inside
<1>2. PICK u \in Threads : Step(u)
  BY <1>1 DEF Next, ChildEnds
<1>3. call[u] \in CallType /\ (u # t => call'[t] = call[t])
  BY <1>1, <1>2 DEF Step, OnLoad, OnUnload, CloseThrows, CloseProvider, Call,
    Enter, StartSession, NotStarted, Refuse, UseSession, Succeed, Fail,
    ShutdownFails, Fallback, Sweep, SweepOne, Clear, Return, Continue
<1>4. u = t
  BY <1>1, <1>3
<1>5. Inside(t)
  BY DEF Returns
<1>6. ~(OnLoad(t) \/ OnUnload(t) \/ CloseThrows(t) \/ CloseProvider(t)
          \/ Call(t) \/ Enter(t))
  <2>1. call[t].at # "idle" /\ call[t].at # "host" /\ call[t].at # "entry"
    BY <1>5 DEF Inside
  <2>2. ~OnLoad(t) /\ ~OnUnload(t) /\ ~Call(t)
    BY <2>1, Zenon DEF OnLoad, OnUnload, Call, Begins
  <2>3. ~CloseThrows(t) /\ ~CloseProvider(t) /\ ~Enter(t)
    BY <2>1, Zenon DEF CloseThrows, CloseProvider, Enter
  <2> QED BY <2>2, <2>3
<1>7. ~(UseSession(t) \/ ShutdownFails(t))
  <2>1. ~UseSession(t)
    BY <1>1 DEF UseSession, Continue, CallType
  <2>2. ~ShutdownFails(t)
    BY <1>1 DEF ShutdownFails, Continue, CallType
  <2> QED BY <2>1, <2>2
<1>8. ~(StartSession(t) \/ Sweep(t) \/ SweepOne(t))
  <2>1. ~StartSession(t)
    BY <1>1 DEF StartSession, CallType
  <2>2. ~Sweep(t)
    BY <1>1 DEF Sweep, CallType
  <2>3. ~SweepOne(t)
    BY <1>1 DEF SweepOne, CallType
  <2> QED BY <2>1, <2>2, <2>3
<1> QED BY <1>2, <1>4, <1>6, <1>7, <1>8 DEF Step

\* One thread at a time speaks with a session: the monitor of the provider
\* that started it has one owner.
THEOREM Exclusive == Spec => []SessionExclusive
<1>1. Inv => SessionExclusive
  BY InHandInside, CallersAssumption DEF SessionExclusive
<1> QED BY <1>1, Invariant, PTL

\* A running child is in the map or in the hands of a thread that starts or
\* unloads it.
THEOREM Orphanless == Spec => []NoOrphan
BY Invariant, PTL DEF Inv

\* unloadPayload() leaves neither process nor handle.
THEOREM UnloadFrees == Spec => UnloadReleases
<1>1. Inv /\ [Next]_vars =>
        [\A t \in Threads :
           Returns(t) /\ call[t].op = "unload" /\ call[t].at # "body" =>
             /\ child'[call[t].arg] # "running"
             /\ call[t].arg \notin sessions'[call[t].on]]_vars
  <2> SUFFICES ASSUME Inv, Next, NEW t \in Threads, Returns(t),
                      call[t].op = "unload", call[t].at # "body"
               PROVE  /\ child'[call[t].arg] # "running"
                      /\ call[t].arg \notin sessions'[call[t].on]
    OBVIOUS
  <2>1. Succeed(t) \/ Fallback(t)
    BY OwnReturn DEF NotStarted, Refuse, Fail, Clear, Inv, Shape
  <2>2. call[t].arg \in Payloads /\ call[t].arg \notin sessions[call[t].on]
    BY <2>1 DEF Succeed, Fallback, Inv, Shape, Hands, Uses, OnPayload
  <2> QED
    BY <2>1, <2>2 DEF Succeed, Fallback, Ended, Inv, TypeOK
<1> QED BY <1>1, Invariant, PTL DEF Spec, UnloadReleases

\* close() ends every process its provider ever started.
THEOREM CloseEnds == Spec => CloseEndsAll
<1>1. Inv /\ [Next]_vars =>
        [\A t \in Threads : Returns(t) /\ call[t].op = "close" =>
           \A s \in Payloads :
             home[s] = call[t].on => child'[s] # "running"]_vars
  <2> SUFFICES ASSUME Inv, Next, NEW t \in Threads, Returns(t),
                      call[t].op = "close",
                      NEW s \in Payloads, home[s] = call[t].on
               PROVE  child'[s] # "running"
    OBVIOUS
  <2>1. Clear(t)
    BY OwnReturn DEF NotStarted, Refuse, Succeed, Fail, Fallback, Inv, Shape,
      OnPayload, Uses
  <2>2. owner[home[s]] = t
    BY <2>1 DEF Clear, Inv, Monitor, Inside
  <2>3. ASSUME child[s] = "running" PROVE s \in sessions[home[s]]
    <3>1. PICK u \in Threads :
            s \in sessions[home[s]]
              \/ (s \in InHand(u) /\ call[u].op \in {"load", "unload"})
      BY <2>3 DEF Inv, NoOrphan
    <3> QED BY <3>1, <2>2, InHandInside
  <2> QED BY <2>1, <2>3 DEF Clear, Inv, Hands
<1> QED BY <1>1, Invariant, PTL DEF Spec, CloseEndsAll
=============================================================================
