-------------------------- MODULE FrameStreamProofs --------------------------
(***************************************************************************)
(* Why a reader that knows nothing of frame boundaries never loses them:   *)
(* after n messages it stands at the beginning of frame n + 1, whatever    *)
(* the sizes of frames and pipe.                                           *)
(***************************************************************************)
EXTENDS FrameStream, TLAPS

\* Frames follow each other without overlap.
Layout ==
  /\ frames # <<>> => frames[1].at = 0
  /\ \A i \in 1..Len(frames) - 1 : frames[i + 1].at = EndOf(frames[i])
  /\ \A i, j \in 1..Len(frames) : i < j => EndOf(frames[i]) <= frames[j].at
  /\ \A i \in 1..Len(frames) : frames[i].ok => frames[i].len \in 1..MaxFrame

\* The writer is inside the last frame, or behind it.
Writing ==
  /\ written <= End
  /\ frames # <<>> => frames[Len(frames)].at <= written

\* Where frame n begins, or will begin.
Start(n) == IF n <= Len(frames) THEN frames[n].at ELSE End

\* The reader is inside the frame after those it has returned.
Place ==
  /\ Len(received) <= Len(frames)
  /\ base = Start(Len(received) + 1)
  /\ phase = "first" => consumed = base
  /\ phase = "header" => base < consumed /\ consumed <= HeaderEnd
  /\ phase = "body" =>
       /\ HeaderEnd <= consumed /\ consumed <= BodyEnd
       /\ Len(received) < Len(frames)
       /\ length = frames[Len(received) + 1].len

Inv == /\ TypeOK /\ Layout /\ Writing /\ Place
       /\ InOrder /\ CleanEofOnly /\ RefusesOnlyBad

-----------------------------------------------------------------------------

\* Frames have natural positions, and the last one ends at End.
Positions ==
  /\ Len(frames) \in Nat /\ Len(received) \in Nat /\ End \in Nat
  /\ \A i \in 1..Len(frames) :
       /\ frames[i] \in FrameType
       /\ frames[i].at \in Nat /\ frames[i].len \in Nat
       /\ EndOf(frames[i]) = frames[i].at + 4 + frames[i].len
       /\ EndOf(frames[i]) \in Nat /\ frames[i].at < EndOf(frames[i])
  /\ frames = <<>> <=> Len(frames) = 0
  /\ End = IF Len(frames) = 0 THEN 0 ELSE EndOf(frames[Len(frames)])

LEMMA PositionsHold == TypeOK => Positions
<1> SUFFICES ASSUME TypeOK PROVE Positions
  OBVIOUS
<1>1. /\ Len(frames) \in Nat /\ Len(received) \in Nat
      /\ frames = <<>> <=> Len(frames) = 0
  BY DEF TypeOK
<1>2. ASSUME NEW i \in 1..Len(frames)
      PROVE  /\ frames[i] \in FrameType
             /\ frames[i].at \in Nat /\ frames[i].len \in Nat
             /\ EndOf(frames[i]) = frames[i].at + 4 + frames[i].len
             /\ EndOf(frames[i]) \in Nat /\ frames[i].at < EndOf(frames[i])
  <2>1. frames[i] \in FrameType
    BY DEF TypeOK
  <2> QED BY <2>1, SizesAssumption DEF FrameType, Lengths, EndOf, HeaderBytes
<1> QED BY <1>1, <1>2 DEF End, Positions

\* A reader inside a header or a body is inside a frame that was begun, and
\* no other frame begins where that one does.
LEMMA InsideFrame ==
  ASSUME Inv, phase \in {"header", "body"}
  PROVE  /\ Len(received) + 1 \in 1..Len(frames)
         /\ base = frames[Len(received) + 1].at
         /\ \A i \in 1..Len(frames) :
              frames[i].at = base => i = Len(received) + 1
<1>1. Positions
  BY PositionsHold DEF Inv
<1>2. Len(received) < Len(frames)
  <2>1. CASE phase = "header"
    BY <1>1, <2>1 DEF Positions, Inv, TypeOK, Place, Writing, Start
  <2>2. CASE phase = "body"
    BY <2>2 DEF Inv, Place
  <2> QED BY <2>1, <2>2
<1>3. base = frames[Len(received) + 1].at
  BY <1>1, <1>2 DEF Positions, Inv, Place, Start
<1>4. ASSUME NEW i \in 1..Len(frames), frames[i].at = base
      PROVE  i = Len(received) + 1
  <2> DEFINE n == Len(received) + 1
  <2>1. n \in 1..Len(frames)
    BY <1>1, <1>2 DEF Positions
  <2>2. n \in Nat /\ i \in Nat /\ base = frames[n].at
    BY <1>1, <1>3 DEF Positions
  <2> HIDE DEF n
  <2>3. ~(i < n) /\ ~(n < i)
    BY <1>1, <1>4, <2>1, <2>2 DEF Positions, Inv, Layout
  <2>4. i = n
    BY <2>2, <2>3
  <2> QED BY <2>4 DEF n
<1> QED BY <1>1, <1>2, <1>3, <1>4 DEF Positions

\* So the header it reads announces that frame's length ...
LEMMA HeaderTrue ==
  ASSUME Inv, phase = "header"
  PROVE  Announced(base) = {frames[Len(received) + 1].len}
BY InsideFrame DEF Announced

\* ... and the body it reads decodes if that frame's does.
LEMMA BodyTrue ==
  ASSUME Inv, phase = "body"
  PROVE  Decodes = {frames[Len(received) + 1].ok}
<1> DEFINE n == Len(received) + 1
<1>1. n \in 1..Len(frames) /\ base = frames[n].at
  BY InsideFrame
<1>2. \A i \in 1..Len(frames) : Whole(i) => i = n
  BY InsideFrame DEF Whole
<1>3. length = frames[n].len
  BY DEF Inv, Place
<1>4. Whole(n)
  BY <1>1, <1>3 DEF Whole, EndOf, BodyEnd
<1> HIDE DEF n
<1>5. {j \in 1..Len(frames) : Whole(j)} = {n}
  BY <1>1, <1>2, <1>4
<1>6. Decodes = {frames[n].ok}
  BY <1>1, <1>4, <1>5 DEF Decodes
<1> QED BY <1>6 DEF n

LEMMA InvInit == Init => Inv
BY SizesAssumption DEF Init, Inv, TypeOK, Layout, Writing, Place, InOrder,
  CleanEofOnly, RefusesOnlyBad, Start, End, Lengths, FrameType

\* Each step of the writer and of the reader keeps each part of the invariant.
LEMMA InvStep == Inv /\ [Next]_vars => Inv'
<1> SUFFICES ASSUME Inv, [Next]_vars PROVE Inv'
  OBVIOUS
<1> USE SizesAssumption DEF Inv
<1> Positions
  BY PositionsHold
<1> USE DEF Positions
<1>1. ASSUME NEW n \in Lengths, NEW ok \in BOOLEAN, Begin(n, ok),
             ok => n \in 1..MaxFrame
      PROVE  Inv'
  <2> DEFINE f == [at |-> End, len |-> n, ok |-> ok]
  <2>1. f \in FrameType /\ n \in Nat
    BY DEF FrameType, Lengths
  <2>2. /\ written = End /\ Len(frames) \in Nat
        /\ frames' = Append(frames, f) /\ UNCHANGED <<written, open, reader>>
    BY <1>1 DEF Begin
  <2>3. /\ Len(frames') = Len(frames) + 1 /\ frames' # <<>>
        /\ frames'[Len(frames) + 1] = f
        /\ \A i \in 1..Len(frames) : frames'[i] = frames[i]
    BY <2>1, <2>2 DEF TypeOK
  <2>4. End' = End + 4 + n
    BY <2>2, <2>3 DEF End, EndOf, HeaderBytes
  <2>5. TypeOK'
    BY <2>1, <2>2 DEF TypeOK, reader
  <2>6. Layout'
    <3>1. ASSUME NEW i \in 1..Len(frames) PROVE EndOf(frames[i]) <= End
      <4>1. i = Len(frames) \/ i < Len(frames)
        OBVIOUS
      <4>2. i < Len(frames) => EndOf(frames[i]) <= frames[Len(frames)].at
        BY DEF Layout
      <4> QED BY <4>1, <4>2
    <3>2. \A i \in 1..Len(frames) : EndOf(frames'[i]) = EndOf(frames[i])
      BY <2>3 DEF EndOf
    <3>3. (frames # <<>> => frames[1].at = 0)'
      BY <2>2, <2>3 DEF Layout
    <3>4. (\A i \in 1..Len(frames) - 1 : frames[i + 1].at = EndOf(frames[i]))'
      BY <2>2, <2>3, <3>2 DEF Layout
    <3>5. (\A i, j \in 1..Len(frames) :
             i < j => EndOf(frames[i]) <= frames[j].at)'
      BY <2>2, <2>3, <3>1, <3>2 DEF Layout
    <3>6. (\A i \in 1..Len(frames) :
             frames[i].ok => frames[i].len \in 1..MaxFrame)'
      BY <1>1, <2>2, <2>3 DEF Layout
    <3> QED BY <3>3, <3>4, <3>5, <3>6 DEF Layout
  <2>7. Writing'
    BY <2>1, <2>2, <2>3, <2>4 DEF Writing
  <2>8. Place'
    <3>1. Start(Len(received) + 1)' = Start(Len(received) + 1)
      BY <2>2, <2>3 DEF Place, Start, reader
    <3> QED
      BY <2>2, <2>3, <3>1 DEF Place, reader, HeaderEnd, BodyEnd
  <2>9. InOrder'
    BY <2>2, <2>3 DEF InOrder, Wire, reader
  <2>10. CleanEofOnly'
    BY <1>1, <2>2 DEF Begin, CleanEofOnly, reader
  <2>11. RefusesOnlyBad'
    BY <1>1, <2>2, <2>3 DEF Begin, RefusesOnlyBad, reader, EndOf
  <2> QED BY <2>5, <2>6, <2>7, <2>8, <2>9, <2>10, <2>11
<1>2. CASE WriteFrame \/ WriteJunk
  <2>1. CASE WriteFrame
    <3>1. PICK n \in Lengths : InBounds(n) /\ Begin(n, TRUE)
      BY <2>1 DEF WriteFrame
    <3>2. n \in 1..MaxFrame
      BY <3>1 DEF InBounds, Lengths
    <3> QED BY <1>1, <3>1, <3>2
  <2>2. CASE WriteJunk
    <3>1. PICK n \in Lengths : Begin(n, FALSE)
      BY <2>2 DEF WriteJunk
    <3> QED BY <1>1, <3>1
  <2> QED BY <1>2, <2>1, <2>2
<1>3. CASE WriteByte
  <2>1. TypeOK'
    BY <1>3 DEF WriteByte, reader, TypeOK, FrameType, Lengths, End, EndOf,
      HeaderBytes
  <2>2. Layout'
    BY <1>3 DEF WriteByte, reader, TypeOK, Layout, FrameType, Lengths, End,
      EndOf, HeaderBytes
  <2>3. Writing'
    <3>1. End' = End /\ written + 1 <= End
      BY <1>3 DEF WriteByte, End, TypeOK
    <3> QED BY <1>3, <3>1 DEF WriteByte, Writing, TypeOK
  <2>4. Place'
    BY <1>3 DEF WriteByte, reader, TypeOK, Layout, Writing, Place, Start,
      HeaderEnd, BodyEnd, FrameType, Lengths, End, EndOf, HeaderBytes
  <2>5. InOrder'
    BY <1>3 DEF WriteByte, reader, TypeOK, Layout, Place, InOrder, Wire,
      FrameType
  <2>6. CleanEofOnly'
    BY <1>3 DEF WriteByte, reader, TypeOK, Layout, Writing, Place, Start,
      CleanEofOnly, FrameType, End, EndOf, HeaderBytes
  <2>7. RefusesOnlyBad'
    BY <1>3 DEF WriteByte, reader, TypeOK, Layout, Writing, Place, Start,
      RefusesOnlyBad, HeaderEnd, BodyEnd, FrameType, Lengths, End, EndOf,
      HeaderBytes
  <2> QED BY <2>1, <2>2, <2>3, <2>4, <2>5, <2>6, <2>7
<1>4. CASE Close
  <2>1. TypeOK'
    BY <1>4 DEF Close, reader, TypeOK, FrameType, Lengths, End, EndOf,
      HeaderBytes
  <2>2. Layout'
    BY <1>4 DEF Close, reader, TypeOK, Layout, FrameType, Lengths, End, EndOf,
      HeaderBytes
  <2>3. Writing'
    BY <1>4 DEF Close, reader, TypeOK, Writing, FrameType, Lengths, End, EndOf,
      HeaderBytes
  <2>4. Place'
    BY <1>4 DEF Close, reader, TypeOK, Layout, Writing, Place, Start,
      HeaderEnd, BodyEnd, FrameType, Lengths, End, EndOf, HeaderBytes
  <2>5. InOrder'
    BY <1>4 DEF Close, reader, TypeOK, Layout, Place, InOrder, Wire, FrameType
  <2>6. CleanEofOnly'
    BY <1>4 DEF Close, reader, TypeOK, Layout, Writing, Place, Start,
      CleanEofOnly, FrameType, End, EndOf, HeaderBytes
  <2>7. RefusesOnlyBad'
    BY <1>4 DEF Close, reader, TypeOK, Layout, Writing, Place, Start,
      RefusesOnlyBad, HeaderEnd, BodyEnd, FrameType, Lengths, End, EndOf,
      HeaderBytes
  <2> QED BY <2>1, <2>2, <2>3, <2>4, <2>5, <2>6, <2>7
<1>5. CASE ReadFirst
  <2>1. TypeOK'
    BY <1>5 DEF ReadFirst, CanRead, writer, TypeOK, FrameType, Lengths, End,
      EndOf, HeaderBytes
  <2>2. Layout'
    BY <1>5 DEF ReadFirst, CanRead, writer, TypeOK, Layout, FrameType, Lengths,
      End, EndOf, HeaderBytes
  <2>3. Writing'
    BY <1>5 DEF ReadFirst, CanRead, writer, TypeOK, Writing, FrameType,
      Lengths, End, EndOf, HeaderBytes
  <2>4. Place'
    <3>1. Start(Len(received) + 1)' = Start(Len(received) + 1)
      BY <1>5 DEF ReadFirst, writer, Start, End
    <3> QED
      BY <1>5, <3>1 DEF ReadFirst, writer, TypeOK, Place, HeaderEnd, BodyEnd,
        HeaderBytes
  <2>5. InOrder'
    BY <1>5 DEF ReadFirst, CanRead, writer, TypeOK, Layout, Place, InOrder,
      Wire, FrameType
  <2>6. CleanEofOnly'
    BY <1>5 DEF ReadFirst, CanRead, writer, TypeOK, Layout, Writing, Place,
      Start, CleanEofOnly, FrameType, End, EndOf, HeaderBytes
  <2>7. RefusesOnlyBad'
    BY <1>5 DEF ReadFirst, CanRead, writer, TypeOK, Layout, Writing, Place,
      Start, RefusesOnlyBad, HeaderEnd, BodyEnd, FrameType, Lengths, End,
      EndOf, HeaderBytes
  <2> QED BY <2>1, <2>2, <2>3, <2>4, <2>5, <2>6, <2>7
<1>6. CASE CleanEof
  <2>1. TypeOK'
    BY <1>6 DEF CleanEof, AtEof, writer, TypeOK, FrameType, Lengths, End,
      EndOf, HeaderBytes
  <2>2. Layout'
    BY <1>6 DEF CleanEof, AtEof, writer, TypeOK, Layout, FrameType, Lengths,
      End, EndOf, HeaderBytes
  <2>3. Writing'
    BY <1>6 DEF CleanEof, AtEof, writer, TypeOK, Writing, FrameType, Lengths,
      End, EndOf, HeaderBytes
  <2>4. Place'
    BY <1>6 DEF CleanEof, AtEof, writer, TypeOK, Layout, Writing, Place, Start,
      HeaderEnd, BodyEnd, FrameType, Lengths, End, EndOf, HeaderBytes
  <2>5. InOrder'
    BY <1>6 DEF CleanEof, AtEof, writer, TypeOK, Layout, Place, InOrder, Wire,
      FrameType
  <2>6. CleanEofOnly'
    <3>1. ~open /\ written = Start(Len(received) + 1)
      BY <1>6 DEF CleanEof, AtEof, Place
    <3>2. ASSUME NEW i \in 1..Len(frames), ~(i <= Len(received))
          PROVE  written <= frames[i].at
      <4> DEFINE n == Len(received) + 1
      <4>1. n \in 1..Len(frames) /\ (n = i \/ n < i)
        BY <3>2
      <4>2. written = frames[n].at
        BY <3>1, <4>1 DEF Start
      <4>3. n < i => EndOf(frames[n]) <= frames[i].at
        BY <4>1 DEF Layout
      <4> HIDE DEF n
      <4> QED BY <4>1, <4>2, <4>3
    <3> QED BY <1>6, <3>1, <3>2 DEF CleanEof, writer, CleanEofOnly
  <2>7. RefusesOnlyBad'
    BY <1>6 DEF CleanEof, AtEof, writer, TypeOK, Layout, Writing, Place, Start,
      RefusesOnlyBad, HeaderEnd, BodyEnd, FrameType, Lengths, End, EndOf,
      HeaderBytes
  <2> QED BY <2>1, <2>2, <2>3, <2>4, <2>5, <2>6, <2>7
<1>7. CASE ReadRest
  <2>1. TypeOK'
    BY <1>7, InsideFrame DEF ReadRest, CanRead, writer, TypeOK, FrameType,
      Lengths, End, EndOf, HeaderBytes
  <2>2. Layout'
    BY <1>7, InsideFrame DEF ReadRest, CanRead, writer, TypeOK, Layout,
      FrameType, Lengths, End, EndOf, HeaderBytes
  <2>3. Writing'
    BY <1>7, InsideFrame DEF ReadRest, CanRead, writer, TypeOK, Writing,
      FrameType, Lengths, End, EndOf, HeaderBytes
  <2>4. Place'
    <3>1. Start(Len(received) + 1)' = Start(Len(received) + 1)
      BY <1>7 DEF ReadRest, writer, Start, End
    <3> QED
      BY <1>7, <3>1 DEF ReadRest, writer, TypeOK, Place, HeaderEnd, BodyEnd,
        HeaderBytes, Lengths
  <2>5. InOrder'
    BY <1>7, InsideFrame DEF ReadRest, CanRead, writer, TypeOK, Layout, Place,
      InOrder, Wire, FrameType
  <2>6. CleanEofOnly'
    BY <1>7, InsideFrame DEF ReadRest, CanRead, writer, TypeOK, Layout,
      Writing, Place, Start, CleanEofOnly, FrameType, End, EndOf, HeaderBytes
  <2>7. RefusesOnlyBad'
    BY <1>7, InsideFrame DEF ReadRest, CanRead, writer, TypeOK, Layout,
      Writing, Place, Start, RefusesOnlyBad, HeaderEnd, BodyEnd, FrameType,
      Lengths, End, EndOf, HeaderBytes
  <2> QED BY <2>1, <2>2, <2>3, <2>4, <2>5, <2>6, <2>7
<1>8. CASE EofInside
  <2>1. TypeOK'
    BY <1>8, InsideFrame DEF EofInside, AtEof, Truncated, writer, TypeOK,
      FrameType, Lengths, End, EndOf, HeaderBytes
  <2>2. Layout'
    BY <1>8, InsideFrame DEF EofInside, AtEof, Truncated, writer, TypeOK,
      Layout, FrameType, Lengths, End, EndOf, HeaderBytes
  <2>3. Writing'
    BY <1>8, InsideFrame DEF EofInside, AtEof, Truncated, writer, TypeOK,
      Writing, FrameType, Lengths, End, EndOf, HeaderBytes
  <2>4. Place'
    BY <1>8, InsideFrame DEF EofInside, AtEof, Truncated, writer, TypeOK,
      Layout, Writing, Place, Start, HeaderEnd, BodyEnd, FrameType, Lengths,
      End, EndOf, HeaderBytes
  <2>5. InOrder'
    BY <1>8, InsideFrame DEF EofInside, AtEof, Truncated, writer, TypeOK,
      Layout, Place, InOrder, Wire, FrameType
  <2>6. CleanEofOnly'
    BY <1>8, InsideFrame DEF EofInside, AtEof, Truncated, writer, TypeOK,
      Layout, Writing, Place, Start, CleanEofOnly, FrameType, End, EndOf,
      HeaderBytes
  <2>7. RefusesOnlyBad'
    <3> DEFINE n == Len(received) + 1
    <3>1. /\ n \in 1..Len(frames) /\ base = frames[n].at
          /\ EndOf(frames[n]) = frames[n].at + 4 + frames[n].len
          /\ frames[n].len \in Nat /\ base \in Nat
      BY <1>8, InsideFrame DEF EofInside
    <3>2. written < EndOf(frames[n])
      BY <1>8, <3>1 DEF EofInside, AtEof, HeaderEnd, BodyEnd, HeaderBytes,
        TypeOK, Place
    <3> QED
      BY <1>8, <3>1, <3>2 DEF EofInside, AtEof, writer,
        RefusesOnlyBad, EndOf
  <2> QED BY <2>1, <2>2, <2>3, <2>4, <2>5, <2>6, <2>7
<1>9. CASE HeaderRead
  <2> DEFINE n == Len(received) + 1
  <2>1. /\ n \in 1..Len(frames) /\ base = frames[n].at
        /\ frames[n].len \in Lengths
    BY <1>9, InsideFrame DEF HeaderRead, FrameType
  <2>2. /\ length' = frames[n].len
        /\ phase' = IF Acceptable(frames[n].len) THEN "body" ELSE "invalid"
        /\ UNCHANGED <<consumed, base, received, writer>>
        /\ consumed = HeaderEnd
    BY <1>9, HeaderTrue DEF HeaderRead
  <2>3. phase' = "body" => length' \in 1..MaxFrame
    BY <2>1, <2>2 DEF Acceptable, Lengths
  <2>4. TypeOK'
    BY <2>1, <2>2, <2>3 DEF TypeOK, writer
  <2>5. Layout' /\ Writing' /\ InOrder'
    BY <2>2 DEF Layout, Writing, InOrder, writer, End
  <2>6. Place'
    <3>1. Start(Len(received) + 1)' = Start(Len(received) + 1)
      BY <2>2 DEF writer, Start, End
    <3>2. phase' # "first"
      BY <2>2
    <3>3. /\ length' = frames[n].len
          /\ (phase' = "body") => HeaderEnd' <= consumed' /\ consumed' <= BodyEnd'
      <4>1. /\ HeaderEnd' = HeaderEnd /\ consumed' = HeaderEnd
            /\ BodyEnd' = HeaderEnd + length'
            /\ HeaderEnd \in Nat /\ length' \in Nat
        BY <2>1, <2>2 DEF TypeOK, HeaderEnd, BodyEnd, HeaderBytes, Lengths
      <4> QED BY <4>1, <2>2
    <3>4. Len(received) < Len(frames)
      BY <2>1
    <3>5. /\ Len(received)' = Len(received) /\ Len(frames)' = Len(frames)
          /\ (frames[Len(received) + 1].len)' = frames[n].len
      BY <2>2 DEF writer
    <3>6. phase' # "header"
      BY <2>2
    <3>7. (Len(received) <= Len(frames))'
      BY <3>5 DEF Place
    <3>8. (base = Start(Len(received) + 1))'
      BY <2>2, <3>1 DEF Place
    <3> HIDE DEF n
    <3> QED BY <3>2, <3>3, <3>4, <3>5, <3>6, <3>7, <3>8 DEF Place
  <2>7. CleanEofOnly'
    BY <2>2 DEF CleanEofOnly
  <2>8. RefusesOnlyBad'
    <3>1. frames[n].ok => Acceptable(frames[n].len)
      BY <2>1, SizesAssumption DEF Layout, Acceptable
    <3> QED BY <2>1, <2>2, <3>1 DEF RefusesOnlyBad, writer
  <2> QED BY <2>4, <2>5, <2>6, <2>7, <2>8
<1>10. CASE BodyRead
  <2> DEFINE n == Len(received) + 1
             m == [at |-> base, len |-> length]
  <2>1. /\ n \in 1..Len(frames) /\ base = frames[n].at
        /\ length = frames[n].len
        /\ EndOf(frames[n]) = frames[n].at + 4 + frames[n].len
    BY <1>10, InsideFrame DEF BodyRead, Place
  <2>2. CASE frames[n].ok
    <3>1. /\ received' = Append(received, m) /\ phase' = "first"
          /\ base' = consumed /\ consumed = EndOf(frames[n])
          /\ UNCHANGED <<consumed, length, writer>>
      <4>1. TRUE \in Decodes /\ \A d \in Decodes : d
        BY <1>10, <2>2, BodyTrue DEF BodyRead
      <4>2. consumed = EndOf(frames[n])
        BY <1>10, <2>1 DEF BodyRead, BodyEnd, HeaderBytes
      <4> HIDE DEF n, m
      <4>3. /\ received' = Append(received, [at |-> base, len |-> length])
            /\ phase' = "first" /\ base' = consumed
            /\ UNCHANGED <<consumed, length, writer>>
        BY <1>10, <4>1 DEF BodyRead
      <4> QED BY <4>2, <4>3 DEF m
    <3>2. m \in [at : Nat, len : 1..MaxFrame]
      BY <1>10 DEF BodyRead, TypeOK
    <3>3. /\ Len(received') = n /\ received'[n] = m
          /\ \A i \in 1..Len(received) : received'[i] = received[i]
      BY <3>1, <3>2 DEF TypeOK
    <3>4. TypeOK'
      BY <3>1, <3>2 DEF TypeOK, writer
    <3>5. Layout' /\ Writing' /\ CleanEofOnly' /\ RefusesOnlyBad'
      BY <3>1 DEF Layout, Writing, CleanEofOnly, RefusesOnlyBad, writer, End
    <3>6. Place'
      <4>1. CASE n < Len(frames)
        <5>1. frames[n + 1].at = EndOf(frames[n])
          BY <2>1, <4>1 DEF Layout
        <5> QED BY <2>1, <3>1, <3>3, <4>1, <5>1 DEF Place, Start, writer
      <4>2. CASE n = Len(frames)
        <5>1. End' = EndOf(frames[n])
          BY <2>1, <3>1, <4>2 DEF End, writer
        <5> QED BY <2>1, <3>1, <3>3, <4>2, <5>1 DEF Place, Start, writer
      <4> QED BY <2>1, <4>1, <4>2
    <3>7. InOrder'
      BY <2>1, <2>2, <3>1, <3>3 DEF InOrder, Wire, writer
    <3> QED BY <3>4, <3>5, <3>6, <3>7
  <2>3. CASE ~frames[n].ok
    <3>1. /\ phase' = "invalid"
          /\ UNCHANGED <<received, base, consumed, length, writer>>
      BY <1>10, <2>3, BodyTrue DEF BodyRead
    <3>2. TypeOK' /\ Layout' /\ Writing' /\ InOrder' /\ CleanEofOnly'
      BY <3>1 DEF TypeOK, Layout, Writing, InOrder, CleanEofOnly, writer, End
    <3>3. Place'
      BY <3>1 DEF Place, writer, Start, End
    <3>4. RefusesOnlyBad'
      BY <2>1, <2>3, <3>1 DEF RefusesOnlyBad, writer
    <3> QED BY <3>2, <3>3, <3>4
  <2> QED BY <2>2, <2>3
<1>11. CASE IoError
  <2>1. TypeOK'
    BY <1>11 DEF IoError, Reading, writer, TypeOK, FrameType, Lengths, End,
      EndOf, HeaderBytes
  <2>2. Layout'
    BY <1>11 DEF IoError, Reading, writer, TypeOK, Layout, FrameType, Lengths,
      End, EndOf, HeaderBytes
  <2>3. Writing'
    BY <1>11 DEF IoError, Reading, writer, TypeOK, Writing, FrameType, Lengths,
      End, EndOf, HeaderBytes
  <2>4. Place'
    BY <1>11 DEF IoError, Reading, writer, TypeOK, Layout, Writing, Place,
      Start, HeaderEnd, BodyEnd, FrameType, Lengths, End, EndOf, HeaderBytes
  <2>5. InOrder'
    BY <1>11 DEF IoError, Reading, writer, TypeOK, Layout, Place, InOrder,
      Wire, FrameType
  <2>6. CleanEofOnly'
    BY <1>11 DEF IoError, Reading, writer, TypeOK, Layout, Writing, Place,
      Start, CleanEofOnly, FrameType, End, EndOf, HeaderBytes
  <2>7. RefusesOnlyBad'
    BY <1>11 DEF IoError, Reading, writer, TypeOK, Layout, Writing, Place,
      Start, RefusesOnlyBad, HeaderEnd, BodyEnd, FrameType, Lengths, End,
      EndOf, HeaderBytes
  <2> QED BY <2>1, <2>2, <2>3, <2>4, <2>5, <2>6, <2>7
<1>12. CASE UNCHANGED vars
  BY <1>12 DEF vars, TypeOK, Layout, Writing, Place, InOrder, CleanEofOnly,
    RefusesOnlyBad, Start, End, HeaderEnd, BodyEnd
<1> QED
  BY <1>2, <1>3, <1>4, <1>5, <1>6, <1>7, <1>8, <1>9, <1>10, <1>11, <1>12
  DEF Next, Read

LEMMA Invariant == Spec => []Inv
BY InvInit, InvStep, PTL DEF Spec

-----------------------------------------------------------------------------
\* The reader allocates a body only within the bounds, and the pipe never
\* holds more than its capacity, for all sizes.
THEOREM TypeCorrect == Spec => []TypeOK
BY Invariant, PTL DEF Inv

\* The reader returns what was written, frame by frame, whatever the size of
\* the pipe and wherever the writer pauses or dies.
THEOREM FramesInOrder == Spec => []InOrder
BY Invariant, PTL DEF Inv

\* read_frame answers None only where no frame was cut.
THEOREM EofClean == Spec => []CleanEofOnly
BY Invariant, PTL DEF Inv

\* A whole frame of write_frame is never refused.
THEOREM RefusesBad == Spec => []RefusesOnlyBad
BY Invariant, PTL DEF Inv
=============================================================================
