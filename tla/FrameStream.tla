----------------------------- MODULE FrameStream -----------------------------
(***************************************************************************)
(* Length-prefixed frames over a pipe: `write_frame` and `read_frame`      *)
(* (crates/aura-runtime-protocol/src/lib.rs).  A frame is a four-byte      *)
(* header with the body's length, and the body.  The pipe holds a few      *)
(* bytes, so both sides move them in pieces; the writer may die after any  *)
(* byte.                                                                   *)
(*                                                                         *)
(* A byte is known by its position in the stream.  The reader knows        *)
(* nothing of where frames begin: what it takes for a header is one only   *)
(* if a frame begins there, and says anything at all otherwise.            *)
(*                                                                         *)
(* The peer of a Host is another program: besides what write_frame writes  *)
(* it may announce any length and send a body that does not decode.        *)
(***************************************************************************)
EXTENDS Integers, Sequences

CONSTANTS
  MaxFrame,   \* MAX_FRAME_BYTES, scaled down
  Capacity,   \* bytes the pipe holds
  FrameLimit  \* bound: frames the writer begins

ASSUME SizesAssumption ==
  /\ MaxFrame \in Nat \ {0}
  /\ Capacity \in Nat \ {0}
  /\ FrameLimit \in Nat

VARIABLES
  frames,    \* frames begun by the writer: where, how long, decodable?
  written,   \* bytes written so far
  open,      \* the writer lives and has not closed the pipe
  consumed,  \* bytes read so far
  phase,     \* where read_frame is, or how it ended
  base,      \* position of the first byte of the frame being read
  length,    \* its length, once the header is read
  received   \* messages returned: position and length of their bodies

vars == <<frames, written, open, consumed, phase, base, length, received>>
writer == <<frames, written, open>>
reader == <<consumed, phase, base, length, received>>

HeaderBytes == 4

\* A u32 never announces less than nothing; MaxFrame + 1 stands for all that
\* is too long.
Lengths == 0..(MaxFrame + 1)

EndOf(f) == f.at + HeaderBytes + f.len

\* The position behind the last frame begun.
End == IF frames = <<>> THEN 0 ELSE EndOf(frames[Len(frames)])

Init ==
  /\ frames = <<>> /\ written = 0 /\ open = TRUE
  /\ consumed = 0 /\ phase = "first" /\ base = 0 /\ length = 0
  /\ received = <<>>

-----------------------------------------------------------------------------
\* The writer.

InBounds(n) == n # 0 /\ n <= MaxFrame

Begin(n, ok) ==
  /\ open /\ written = End
  /\ Len(frames) < FrameLimit
  /\ frames' = Append(frames, [at |-> End, len |-> n, ok |-> ok])
  /\ UNCHANGED <<written, open, reader>>

\* write_frame() checks the length before it writes anything, and what
\* to_wire() encoded decodes.
WriteFrame == \E n \in Lengths : InBounds(n) /\ Begin(n, TRUE)

\* The peer announces a wrong length, or its body is no message.
WriteJunk == \E n \in Lengths : Begin(n, FALSE)

\* write_all(): one byte after the other, as the pipe has room.
WriteByte ==
  /\ open /\ written < End
  /\ written - consumed < Capacity
  /\ written' = written + 1
  /\ UNCHANGED <<frames, open, reader>>

\* The writer closes the pipe, or dies in the middle of a frame.
Close ==
  /\ open
  /\ open' = FALSE
  /\ UNCHANGED <<frames, written, reader>>

-----------------------------------------------------------------------------
\* The reader.

\* Mutant: a reader that waits until a whole header could be read.
WholeHeader == consumed + HeaderBytes <= written

CanRead == consumed < written

AtEof   == consumed = written /\ ~open

Reading == phase \in {"first", "header", "body"}

\* read() of the first byte; an interrupted read is tried again.
ReadFirst ==
  /\ phase = "first" /\ CanRead
  /\ consumed' = consumed + 1
  /\ phase' = "header"
  /\ UNCHANGED <<base, length, received, writer>>

\* End of file before a header: Ok(None).
CleanEof ==
  /\ phase = "first" /\ AtEof
  /\ phase' = "none"
  /\ UNCHANGED <<consumed, base, length, received, writer>>

HeaderEnd == base + HeaderBytes
\* Mutant: a body one byte short.
OneShort == base + HeaderBytes + length - 1

BodyEnd   == base + HeaderBytes + length

\* read_exact() of the rest of the header, or of the body.
ReadRest ==
  /\ \/ phase = "header" /\ consumed < HeaderEnd
     \/ phase = "body" /\ consumed < BodyEnd
  /\ CanRead
  /\ consumed' = consumed + 1
  /\ UNCHANGED <<phase, base, length, received, writer>>

\* Mutant: the end of the file inside a frame taken for a clean one.
EofIsClean == "none"

\* What read_exact() makes of the end of the file.
Truncated == "invalid"

EofInside ==
  /\ \/ phase = "header" /\ consumed < HeaderEnd
     \/ phase = "body" /\ consumed < BodyEnd
  /\ AtEof
  /\ phase' = Truncated
  /\ UNCHANGED <<consumed, base, length, received, writer>>

\* The lengths the bytes at position p can announce.
Announced(p) ==
  IF \E i \in 1..Len(frames) : frames[i].at = p
    THEN {frames[i].len : i \in {j \in 1..Len(frames) : frames[j].at = p}}
    ELSE Lengths

\* Mutant: the largest frame refused.
BelowMax(n) == ~(n = 0 \/ n >= MaxFrame)

Acceptable(n) == ~(n = 0 \/ n > MaxFrame)

HeaderRead ==
  /\ phase = "header" /\ consumed = HeaderEnd
  /\ \E n \in Announced(base) :
       /\ length' = n
       /\ phase' = IF Acceptable(n) THEN "body" ELSE "invalid"
  /\ UNCHANGED <<consumed, base, received, writer>>

\* Message::from_wire(): exactly the bytes of one frame decode if the frame
\* does; of any others nobody knows.
Whole(i) == frames[i].at = base /\ EndOf(frames[i]) = BodyEnd

Decodes ==
  IF \E i \in 1..Len(frames) : Whole(i)
    THEN {frames[i].ok : i \in {j \in 1..Len(frames) : Whole(j)}}
    ELSE BOOLEAN

BodyRead ==
  /\ phase = "body" /\ consumed = BodyEnd
  /\ \E decodes \in Decodes :
       IF decodes
         THEN /\ received' = Append(received, [at |-> base, len |-> length])
              /\ phase' = "first" /\ base' = consumed
         ELSE phase' = "invalid" /\ UNCHANGED <<received, base>>
  /\ UNCHANGED <<consumed, length, writer>>

\* Any other I/O error is passed on.
IoError ==
  /\ Reading
  /\ phase' = "io"
  /\ UNCHANGED <<consumed, base, length, received, writer>>

-----------------------------------------------------------------------------
Read ==
  ReadFirst \/ CleanEof \/ ReadRest \/ EofInside \/ HeaderRead \/ BodyRead

Next == WriteFrame \/ WriteJunk \/ WriteByte \/ Close \/ Read \/ IoError

Spec == Init /\ [][Next]_vars

\* The reader reads on, and the writer writes what it began.
FairSpec == Spec /\ WF_vars(Read) /\ WF_vars(WriteByte)

-----------------------------------------------------------------------------
\* Properties.

FrameType == [at : Nat, len : Lengths, ok : BOOLEAN]

\* The stream keeps its type, the pipe its capacity, and the reader allocates
\* a body only within the bounds.
TypeOK ==
  /\ frames \in Seq(FrameType)
  /\ written \in Nat /\ consumed \in Nat
  /\ written - consumed \in 0..Capacity
  /\ open \in BOOLEAN
  /\ phase \in {"first", "header", "body", "none", "invalid", "io"}
  /\ base \in Nat /\ length \in Lengths
  /\ phase = "body" => length \in 1..MaxFrame
  /\ received \in Seq([at : Nat, len : 1..MaxFrame])

Wire(f) == [at |-> f.at, len |-> f.len]

\* The reader returns exactly the frames that were written, in order and with
\* all of their bytes: it never loses its place in the stream.
InOrder ==
  /\ Len(received) <= Len(frames)
  /\ \A i \in 1..Len(received) :
       frames[i].ok /\ received[i] = Wire(frames[i])

\* read_frame returns None only for a clean end of the stream: every frame of
\* which a byte was written has been returned.
CleanEofOnly ==
  phase = "none" =>
    /\ ~open
    /\ \A i \in 1..Len(frames) :
         i <= Len(received) \/ written <= frames[i].at

\* A frame of write_frame is never refused: the reader gives up on InvalidData
\* only at junk, or where the writer stopped in the middle of a frame.
RefusesOnlyBad ==
  phase = "invalid" =>
    /\ Len(received) < Len(frames)
    /\ \/ ~frames[Len(received) + 1].ok
       \/ ~open /\ written < EndOf(frames[Len(received) + 1])

\* The frame the reader waits for, if it was begun, arrives unless the writer
\* dies, a frame is refused, or reading fails: however small the pipe is.
FrameArrives ==
  \A i \in 1..FrameLimit :
    Len(frames) >= i ~>
      Len(received) >= i \/ ~open \/ phase \in {"invalid", "io"}
=============================================================================
