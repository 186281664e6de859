----------------------------- MODULE RuntimeHost -----------------------------
(***************************************************************************)
(* The two ends together: the process Host of ProcessServer and a launcher *)
(* session (AuraSession over Aura's RuntimeProcessSession), joined by the  *)
(* process's stdin and stdout.  Commands and answers to callbacks share    *)
(* one pipe, replies and callbacks the other.                              *)
(*                                                                         *)
(* The session keeps the protocol: odd ids that increase, and for each     *)
(* callback one answer of its kind.  It sends up to Window commands before *)
(* the first is answered: one under the provider's monitor, more after a   *)
(* deadline that gave a command up, or from a pipelining launcher.         *)
(***************************************************************************)
EXTENDS ProcessServer, Sequences

CONSTANTS
  Window,        \* commands that may be under way
  CommandLimit   \* bound: commands sent in all

ASSUME SessionAssumption == Window \in Nat \ {0} /\ CommandLimit \in Nat

VARIABLES
  down,       \* stdin of the process: commands and answers
  up,         \* its stdout: replies and callbacks
  serving,    \* serve()'s request_id
  sent,       \* commands sent so far
  waiting,    \* commands the session has had no reply to, the oldest first
  asked,      \* the callback the session is working on
  belief,     \* the payload's phase, from the replies received
  hungUp,     \* the session has closed its ends
  overtaken   \* history: a command was sent before the last one's reply

session == <<sent, waiting, asked, belief, hungUp, overtaken>>
joint == <<vars, down, up, serving, session>>

IsCommand(f) == f.id % 2 = 1
CommandId(n) == 2 * n + 1

JointInit ==
  /\ Init
  /\ down = <<>> /\ up = <<>>
  /\ serving = 0 /\ sent = 0
  /\ waiting = <<>>
  /\ asked = NoCall
  /\ belief = "absent"
  /\ hungUp = FALSE /\ overtaken = FALSE

-----------------------------------------------------------------------------
\* The Host takes the next frame.

Take == down # <<>> /\ down' = Tail(down)

Perform(k) ==
  \/ state \notin Requires(k) /\ OutOfState
  \/ k = "hello" /\ Hello
  \/ k = "load" /\ Load
  \/ k \in {"enable", "invoke", "disable"} /\ CallGuest(k)
  \/ k = "shutdown" /\ Shutdown

\* serve() reads a command and keeps its id; an answer nobody waits for is
\* the launcher's offence.
Serve ==
  /\ Take
  /\ IF IsCommand(Head(down))
       THEN Perform(Head(down).kind)
       ELSE BadCommand
  /\ serving' = Head(down).id
  /\ UNCHANGED <<up, session>>

\* Mutant: the reply carries the id of the last frame read.
LastRead == Head(down).id
\* An answer to a callback leaves serve()'s request_id alone.
KeptId == serving

Readable(f) == f.kind = "result" /\ cb.kind = "invoke" => f.output = "value"

\* ProcessBridge::call reads the frame behind its callback.
TakeAnswer ==
  /\ Take
  /\ LET f == Head(down) IN
       IF IsCommand(f) \/ ~Accepts(cb, f)
         THEN ~eof /\ Misanswered /\ lost' = (lost \/ IsCommand(f))
         ELSE IF Readable(f) THEN Answered ELSE AnsweredWithGarbage
  /\ serving' = KeptId
  /\ UNCHANGED <<up, session>>

\* Both ends of the pipe agree that it has ended, or a callback finds it so.
EndOfInput ==
  /\ down = <<>>
  /\ \/ hungUp /\ HangUp
     \/ eof /\ Misanswered /\ UNCHANGED lost
  /\ UNCHANGED <<down, up, serving, session>>

\* What is written for a session that has closed is never read.
Put(f) ==
  /\ up' = IF hungUp THEN up ELSE Append(up, f)
  /\ UNCHANGED <<down, serving, session>>

SendCallback ==
  \E kind \in CallbackKinds : BridgeCall(kind) /\ Put(cb')

\* Mutant: a failure that gets no reply.
AnswersSuccess ==
  /\ Reply
  /\ IF outcome = "error" THEN UNCHANGED <<down, up, serving, session>>
     ELSE Put([id |-> serving, kind |-> IF outcome = "close" THEN "ok" ELSE outcome])
SendReply ==
  /\ Reply
  /\ Put([id |-> serving, kind |-> IF outcome = "close" THEN "ok" ELSE outcome])

\* The steps of the Host that touch no pipe.
Work ==
  /\ GuestEnds \/ BridgeRefused \/ Stop \/ CloseOnEof \/ CloseDisable \/ CloseUnload \/ Return
  /\ UNCHANGED <<down, up, serving, session>>

-----------------------------------------------------------------------------
\* The session.

Ask(f) == down' = Append(down, f) /\ UNCHANGED <<vars, up, serving>>

Send ==
  /\ ~hungUp /\ sent < CommandLimit /\ Len(waiting) < Window
  /\ \E k \in Kinds :
        /\ Ask([id |-> CommandId(sent), kind |-> k])
        /\ waiting' = Append(waiting, [id |-> CommandId(sent), kind |-> k])
  /\ sent' = sent + 1
  /\ overtaken' = (overtaken \/ waiting # <<>>)
  /\ UNCHANGED <<asked, belief, hungUp>>

Confirmed(k) == CASE k = "hello"    -> "absent"
                  [] k = "load"     -> "loaded"
                  [] k = "enable"   -> "enabled"
                  [] k = "disable"  -> "disabled"
                  [] k = "shutdown" -> "gone"
                  [] OTHER          -> belief

\* One frame after the other: a callback is answered first.
Receive ==
  /\ ~hungUp /\ up # <<>> /\ asked = NoCall
  /\ up' = Tail(up)
  /\ IF IsCommand(Head(up))
       THEN /\ waiting' = Tail(waiting)
            /\ belief' = IF Head(up).kind = "ok" THEN Confirmed(Head(waiting).kind)
                                                 ELSE belief
            /\ UNCHANGED asked
       ELSE /\ asked' = Head(up)
            /\ UNCHANGED <<waiting, belief>>
  /\ UNCHANGED <<vars, down, serving, sent, hungUp, overtaken>>

\* A result for a retain or a release is empty.
AnswerCallback ==
  /\ ~hungUp /\ asked # NoCall
  /\ \E f \in Answers :
        /\ f.id = asked.id /\ f.kind # "request"
        /\ f.kind = "result" /\ asked.kind = "handle" => f.output = "empty"
        /\ Ask(f)
  /\ asked' = NoCall
  /\ UNCHANGED <<sent, waiting, belief, hungUp, overtaken>>

CloseSession ==
  /\ ~hungUp
  /\ hungUp' = TRUE
  /\ up' = <<>>
  /\ UNCHANGED <<vars, down, serving, sent, waiting, asked, belief, overtaken>>

StopReading ==
  /\ hungUp /\ BreakPipe
  /\ UNCHANGED <<down, up, serving, session>>

Ended == Exited /\ UNCHANGED joint

JointNext ==
  \/ Serve \/ TakeAnswer \/ EndOfInput \/ SendCallback \/ SendReply \/ Work
  \/ Send \/ Receive \/ AnswerCallback \/ CloseSession \/ StopReading
  \/ Ended

\* Each program runs: a frame that has arrived is read, and the session
\* answers its callbacks.  It need not send, and need not close.
JointFairness ==
  /\ WF_joint(Serve) /\ WF_joint(TakeAnswer) /\ WF_joint(EndOfInput)
  /\ WF_joint(SendReply)
  /\ WF_joint(Work /\ ~GuestEnds /\ ~BridgeRefused)
  /\ SF_joint(Work /\ GuestEnds)
  /\ WF_joint(Receive) /\ WF_joint(AnswerCallback)

JointSpec == JointInit /\ [][JointNext]_joint
FairJointSpec == JointSpec /\ JointFairness

-----------------------------------------------------------------------------
(* Properties.                                                             *)

Frames == [id : Nat, kind : Kinds \cup {"ok", "result", "error"} \cup CallbackKinds]

\* The session's books: its commands are numbered in order, no more than
\* Window of them are open, and the callback it works on is a real one.
JointTypeOK ==
  /\ TypeOK
  /\ up \in Seq(Frames) /\ serving \in Nat
  /\ down \in Seq([id : Nat, kind : Kinds] \cup Answers)
  /\ sent \in 0..CommandLimit
  /\ Len(waiting) <= Window
  /\ \A i \in 1..Len(waiting) :
        /\ waiting[i].id = CommandId(sent - Len(waiting) + i - 1)
        /\ waiting[i].kind \in Kinds
  /\ asked \in [id : Evens, kind : CallbackKinds \cup {"none"}]
  /\ belief \in {"absent", "loaded", "enabled", "disabled", "gone"}
  /\ hungUp \in BOOLEAN /\ overtaken \in BOOLEAN

\* The replies in the pipe answer the session's oldest commands, in order,
\* each with its id, only an invoke is answered with a result, and no reply
\* stands behind a callback: a session that matches replies by position or by
\* id gets the same answer, and none before it has answered the callbacks.
Matches(r, c) ==
  /\ r.id = c.id
  /\ r.kind = "result" => c.kind = "invoke"
  /\ r.kind = "ok" => c.kind # "invoke"
RepliesInOrder ==
  \A i \in 1..Len(up) : IsCommand(up[i]) =>
    /\ \A j \in 1..i : IsCommand(up[j])
    /\ i <= Len(waiting) /\ Matches(up[i], waiting[i])

\* What the session has been told about its payload is what the Host will
\* judge its next command by, as soon as nothing is under way.
BeliefAgrees ==
  waiting = <<>> /\ ~hungUp /\ ~Exited => belief = PhaseOf(state)

\* An answer never reaches serve(): the Host does not come back for a command
\* while the answer to a callback is still to come.
NoStrayAnswer == pc = "reading" /\ down # <<>> => IsCommand(Head(down))

\* A callback exchange with such a session breaks only where a command was
\* sent before the last one's reply (after a deadline, say) or the session
\* has closed.
OnlyOvertakingBreaks ==
  [][pc = "callback" /\ poison' # poison => overtaken \/ hungUp]_joint

\* Every command gets its reply, or the process ends: with a session that
\* answers its callbacks nobody waits for ever (serve(), ProcessBridge::call).
\* CommandLimit bounds what is sent, so that all are settled when none waits.
RequestSettled == waiting # <<>> ~> waiting = <<>> \/ Exited
=============================================================================
