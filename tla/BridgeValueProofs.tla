-------------------------- MODULE BridgeValueProofs --------------------------
(***************************************************************************)
(* Everything that can be encoded arrives as it was (RoundTrip), for every *)
(* value of the limits and every set of values that has the parts of its   *)
(* values in it.                                                           *)
(*                                                                         *)
(* The two descents are run side by side, the decoder on the wire that the *)
(* encoder leaves in the end (Lockstep): after n steps of each, the        *)
(* decoder has read what the encoder has written, has counted what the     *)
(* encoder has counted, and holds of every value it is inside of what the  *)
(* encoder has put of it (Mirror).  One step of the encoder that does not  *)
(* fail is then one step of the decoder that does not (LockstepOn): what a *)
(* step reads is what the other step has written (KindTaken, TagTaken,     *)
(* KeyRead), and what it counts is what the other has counted, so that     *)
(* each refuses what the other refuses.  Steps is enough for both, because *)
(* every step begins a value, of which there are at most MaxValues, or     *)
(* ends one (Encodes).                                                     *)
(*                                                                         *)
(* And whatever is accepted is what the encoder writes for the value found *)
(* (Canonical), whatever was done to the wire.  What the decoder has read  *)
(* it would have been written for (KindFound), and from the last step to   *)
(* the first the frames of an encoder are found that writes it (BackEnds,  *)
(* BackBegins).                                                            *)
(*                                                                         *)
(* And what is refused is out of a limit on the value as a whole           *)
(* (RefusesOutOfLimits).  The places the encoder has been at are kept      *)
(* beside it (Walked): they are as many as it has counted values, and the  *)
(* bytes they are answerable for as many as it has counted content.        *)
(*                                                                         *)
(* Of the example's reply to a launch: what the launcher reads is the      *)
(* value that was built (WireIs), which differs from the one it sent       *)
(* in the one argument (PushesOne, ReplaceIs), and the reply that changes  *)
(* nothing is within every limit, as a run of the encoder shows step by    *)
(* step (UnchangedFits).                                                   *)
(***************************************************************************)
EXTENDS HookEvent, SequenceTheorems, FiniteSetTheorems, WellFoundedInduction, TLAPS

-----------------------------------------------------------------------------
\* What stands on a wire.

Ahead(w, a, t) == a + Len(t) <= Len(w) /\ \A i \in 1..Len(t) : w[a + i] = t[i]

LEMMA Slice ==
  ASSUME NEW w \in Seq(Int), NEW a \in Nat, NEW n \in Nat, a + n <= Len(w)
  PROVE  /\ SubSeq(w, a + 1, a + n) \in Seq(Int)
         /\ Len(SubSeq(w, a + 1, a + n)) = n
         /\ \A i \in 1..n : SubSeq(w, a + 1, a + n)[i] = w[a + i]
         /\ Ahead(w, a, SubSeq(w, a + 1, a + n))
<1>1. \A i \in (a + 1)..(a + n) : w[i] \in Int
  OBVIOUS
<1>2. /\ SubSeq(w, a + 1, a + n) \in Seq(Int)
      /\ Len(SubSeq(w, a + 1, a + n)) =
           IF a + 1 <= a + n THEN (a + n) - (a + 1) + 1 ELSE 0
      /\ \A i \in 1..((a + n) - (a + 1) + 1) :
           SubSeq(w, a + 1, a + n)[i] = w[(a + 1) + i - 1]
  <2>1. a + 1 \in Int /\ a + n \in Int
    OBVIOUS
  <2> QED BY <1>1, <2>1, SubSeqProperties
<1>3. Len(SubSeq(w, a + 1, a + n)) = n
  BY <1>2
<1>4. ASSUME NEW i \in 1..n PROVE SubSeq(w, a + 1, a + n)[i] = w[a + i]
  <2>1. i \in 1..((a + n) - (a + 1) + 1) /\ (a + 1) + i - 1 = a + i
    OBVIOUS
  <2> QED BY <1>2, <2>1
<1> QED BY <1>2, <1>3, <1>4 DEF Ahead

LEMMA SliceIs ==
  ASSUME NEW w \in Seq(Int), NEW a \in Nat, NEW t \in Seq(Int), Ahead(w, a, t)
  PROVE  SubSeq(w, a + 1, a + Len(t)) = t
<1> DEFINE u == SubSeq(w, a + 1, a + Len(t))
<1>1. Len(t) \in Nat /\ a + Len(t) <= Len(w)
  BY DEF Ahead
<1>2. u \in Seq(Int) /\ Len(u) = Len(t) /\ \A i \in 1..Len(t) : u[i] = w[a + i]
  BY <1>1, Slice
<1>3. \A i \in 1..Len(u) : u[i] = t[i]
  BY <1>2 DEF Ahead
<1> HIDE DEF u
<1>4. u = t
  BY <1>2, <1>3, SeqEqual
<1> QED BY <1>4 DEF u

LEMMA Single ==
  ASSUME NEW w \in Seq(Int), NEW b \in 1..Len(w)
  PROVE  SubSeq(w, b, b) = <<w[b]>> /\ w[b] \in Int
<1>1. w[b] \in Int /\ b - 1 \in Nat /\ (b - 1) + 1 = b
  OBVIOUS
<1>2. <<w[b]>> \in Seq(Int) /\ Len(<<w[b]>>) = 1 /\ <<w[b]>>[1] = w[b]
  BY <1>1
<1>3. Ahead(w, b - 1, <<w[b]>>)
  BY <1>1, <1>2 DEF Ahead
<1>4. SubSeq(w, (b - 1) + 1, (b - 1) + Len(<<w[b]>>)) = <<w[b]>>
  BY <1>1, <1>2, <1>3, SliceIs
<1> QED BY <1>1, <1>2, <1>4

LEMMA AheadOfBoth ==
  ASSUME NEW w \in Seq(Int), NEW a \in Nat, NEW t \in Seq(Int), NEW u \in Seq(Int)
  PROVE  Ahead(w, a, t \o u) <=> Ahead(w, a, t) /\ Ahead(w, a + Len(t), u)
<1>1. /\ Len(t \o u) = Len(t) + Len(u)
      /\ \A i \in 1..(Len(t) + Len(u)) :
           (t \o u)[i] = IF i <= Len(t) THEN t[i] ELSE u[i - Len(t)]
  BY ConcatProperties
<1>2. Len(t) \in Nat /\ Len(u) \in Nat
  OBVIOUS
<1>3. ASSUME Ahead(w, a, t \o u) PROVE Ahead(w, a, t) /\ Ahead(w, a + Len(t), u)
  <2>1. ASSUME NEW i \in 1..Len(t) PROVE w[a + i] = t[i]
    <3>1. i \in 1..(Len(t) + Len(u)) /\ i <= Len(t)
      BY <1>2
    <3>2. (t \o u)[i] = t[i]
      BY <1>1, <3>1
    <3> QED BY <1>1, <1>3, <3>1, <3>2 DEF Ahead
  <2>2. ASSUME NEW i \in 1..Len(u) PROVE w[(a + Len(t)) + i] = u[i]
    <3>1. Len(t) + i \in 1..(Len(t) + Len(u)) /\ ~(Len(t) + i <= Len(t))
          /\ (Len(t) + i) - Len(t) = i /\ a + (Len(t) + i) = (a + Len(t)) + i
      BY <1>2
    <3>2. (t \o u)[Len(t) + i] = u[i]
      BY <1>1, <3>1
    <3>3. w[a + (Len(t) + i)] = (t \o u)[Len(t) + i]
      BY <1>1, <1>3, <3>1 DEF Ahead
    <3> QED BY <3>1, <3>2, <3>3
  <2> QED BY <1>1, <1>2, <1>3, <2>1, <2>2 DEF Ahead
<1>4. ASSUME Ahead(w, a, t), Ahead(w, a + Len(t), u) PROVE Ahead(w, a, t \o u)
  <2>1. ASSUME NEW i \in 1..(Len(t) + Len(u)) PROVE w[a + i] = (t \o u)[i]
    <3>1. CASE i <= Len(t)
      BY <1>1, <1>2, <1>4, <3>1 DEF Ahead
    <3>2. CASE ~(i <= Len(t))
      <4>1. i - Len(t) \in 1..Len(u) /\ (a + Len(t)) + (i - Len(t)) = a + i
        BY <1>2, <3>2
      <4>2. w[(a + Len(t)) + (i - Len(t))] = u[i - Len(t)]
        BY <1>4, <4>1 DEF Ahead
      <4> QED BY <1>1, <3>2, <4>1, <4>2
    <3> QED BY <3>1, <3>2
  <2>2. a + Len(t \o u) <= Len(w)
    BY <1>1, <1>2, <1>4 DEF Ahead
  <2> QED BY <1>1, <2>1, <2>2 DEF Ahead
<1> QED BY <1>3, <1>4

-----------------------------------------------------------------------------
\* What one step of a decoder does, and that it does nothing else.

IsDecoder(d) ==
  d = [in |-> d.in, at |-> d.at, content |-> d.content, values |-> d.values,
       ok |-> d.ok, got |-> d.got, stack |-> d.stack]

\* It has given up, or it has not.
Dead(d) == IsDecoder(d) /\ ~d.ok
Runs(d) ==
  /\ IsDecoder(d)
  /\ d.in \in Seq(Int) /\ d.at \in Nat /\ d.content \in Nat /\ d.values \in Nat
  /\ d.ok

\* It has read on to a, with c bytes of content so far, and found g.
Finds(d, e, a, c, g) ==
  /\ Runs(e) /\ e.in = d.in /\ e.at = a /\ e.content = c /\ e.got = g
  /\ e.values = d.values /\ e.stack = d.stack

LEMMA Dies ==
  ASSUME NEW d, Runs(d) \/ Dead(d)
  PROVE  Dead(Fail(d))
<1>1. PICK e : e = Fail(d)
  OBVIOUS
<1>2. IsDecoder(d)
  BY DEF Runs, Dead
<1>3. IsDecoder(e)
  BY <1>1, <1>2 DEF IsDecoder, Fail
<1>4. ~e.ok
  BY <1>1, <1>2 DEF IsDecoder, Fail
<1> QED BY <1>1, <1>3, <1>4 DEF Dead

LEMMA Counts ==
  ASSUME NEW d, Runs(d)
  PROVE  /\ d.in \in Seq(Int) /\ Len(d.in) \in Nat
         /\ d.at \in Nat /\ d.content \in Nat /\ d.values \in Nat /\ d.ok
  BY DEF Runs, IsDecoder

LEMMA DeadReads ==
  ASSUME NEW d, Dead(d), NEW n
  PROVE  Dead(Read(d, n))
  BY Dies DEF Dead, Read

LEMMA GotReplaced ==
  ASSUME NEW d, Runs(d), NEW h
  PROVE  Finds(d, [d EXCEPT !.got = h], d.at, d.content, h)
  BY DEF Runs, IsDecoder, Finds

LEMMA ReadFinds ==
  ASSUME NEW d, Runs(d), NEW n \in Nat
  PROVE  IF d.at + n <= Len(d.in)
         THEN Finds(d, Read(d, n), d.at + n, d.content, SubSeq(d.in, d.at + 1, d.at + n))
         ELSE Dead(Read(d, n))
<1>1. CASE d.at + n <= Len(d.in)
  <2>1. PICK g : g = SubSeq(d.in, d.at + 1, d.at + n)
    OBVIOUS
  <2>2. PICK a \in Nat : a = d.at + n
    BY DEF Runs
  <2>3. Read(d, n) = [d EXCEPT !.at = a, !.got = g]
    BY <1>1, <2>1, <2>2 DEF Read, Runs
  <2>4. Finds(d, [d EXCEPT !.at = a, !.got = g], a, d.content, g)
    <3>1. PICK e : e = [d EXCEPT !.at = a]
      OBVIOUS
    <3>2. Runs(e)
      BY <3>1 DEF Runs, IsDecoder
    <3>3. e.in = d.in /\ e.at = a /\ e.content = d.content /\ e.values = d.values
          /\ e.stack = d.stack
      BY <3>1 DEF Runs, IsDecoder
    <3>4. Finds(e, [e EXCEPT !.got = g], e.at, e.content, g)
      BY <3>2, GotReplaced
    <3>5. [d EXCEPT !.at = a, !.got = g] = [e EXCEPT !.got = g]
      BY <3>1
    <3>6. Finds(e, [d EXCEPT !.at = a, !.got = g], e.at, e.content, g)
      BY <3>4, <3>5
    <3> QED BY <3>3, <3>6 DEF Finds
  <2> QED BY <1>1, <2>1, <2>2, <2>3, <2>4
<1>2. CASE ~(d.at + n <= Len(d.in))
  BY <1>2, Dies DEF Read
<1> QED BY <1>1, <1>2

LEMMA ExpectFinds ==
  ASSUME NEW d, Runs(d), NEW x \in Int
  PROVE  IF d.at + 1 <= Len(d.in) /\ d.in[d.at + 1] = x
         THEN Finds(d, Expect(d, x), d.at + 1, d.content, <<x>>)
         ELSE Dead(Expect(d, x))
<1>1. Expect(d, x) = IF Read(d, 1).ok THEN Check(Read(d, 1), Read(d, 1).got = <<x>>)
                     ELSE Read(d, 1)
  BY DEF Expect, Then
<1>2. CASE d.at + 1 <= Len(d.in)
  <2>1. PICK r : r = Read(d, 1)
    OBVIOUS
  <2>2. Finds(d, r, d.at + 1, d.content, SubSeq(d.in, d.at + 1, d.at + 1))
    BY <1>2, <2>1, ReadFinds
  <2>3. SubSeq(d.in, d.at + 1, d.at + 1) = <<d.in[d.at + 1]>>
    <3>1. d.at + 1 \in 1..Len(d.in) /\ d.in \in Seq(Int)
      BY <1>2 DEF Runs
    <3> QED BY <3>1, Single
  <2>4. Runs(r) /\ r.ok /\ (r.got = <<x>> <=> d.in[d.at + 1] = x)
    <3>1. <<d.in[d.at + 1]>> = <<x>> <=> d.in[d.at + 1] = x
      OBVIOUS
    <3>2. r.got = <<d.in[d.at + 1]>>
      BY <2>2, <2>3 DEF Finds
    <3>3. Runs(r) /\ r.ok
      BY <2>2 DEF Finds, Runs
    <3> QED BY <3>1, <3>2, <3>3
  <2>5. CASE d.in[d.at + 1] = x
    <3>1. Expect(d, x) = r
      BY <1>1, <2>1, <2>4, <2>5 DEF Check
    <3> QED BY <1>2, <2>2, <2>3, <2>5, <3>1
  <2>6. CASE d.in[d.at + 1] # x
    <3>1. Expect(d, x) = Fail(r)
      BY <1>1, <2>1, <2>4, <2>6 DEF Check
    <3> QED BY <2>4, <2>6, <3>1, Dies
  <2> QED BY <2>5, <2>6
<1>3. CASE ~(d.at + 1 <= Len(d.in))
  <2>1. Dead(Read(d, 1))
    BY <1>3, ReadFinds
  <2>2. Expect(d, x) = Read(d, 1)
    BY <1>1, <2>1 DEF Dead
  <2> QED BY <1>3, <2>1, <2>2
<1> QED BY <1>2, <1>3

LEMMA NumberFinds ==
  ASSUME NEW d, Runs(d), NEW m \in Int
  PROVE  IF d.at + 2 <= Len(d.in) /\ d.in[d.at + 1] = m
         THEN Finds(d, Number(d, m), d.at + 2, d.content, d.in[d.at + 2])
         ELSE Dead(Number(d, m))
<1>1. PICK e : e = Expect(d, m)
  OBVIOUS
<1>2. PICK r : r = Read(e, 1)
  OBVIOUS
<1>3. Number(d, m) = IF r.ok THEN [r EXCEPT !.got = @[1]] ELSE r
  BY <1>1, <1>2 DEF Number, Then
<1>4. CASE d.at + 1 <= Len(d.in) /\ d.in[d.at + 1] = m
  <2>1. Finds(d, e, d.at + 1, d.content, <<m>>)
    BY <1>1, <1>4, ExpectFinds
  <2>2. Runs(e) /\ e.at = d.at + 1 /\ e.in = d.in /\ d.at \in Nat
    BY <2>1 DEF Finds, Runs
  <2>3. e.at + 1 = d.at + 2
    BY <2>2
  <2>4. CASE d.at + 2 <= Len(d.in)
    <3>1. Finds(e, r, e.at + 1, e.content, SubSeq(e.in, e.at + 1, e.at + 1))
      BY <1>2, <2>2, <2>3, <2>4, ReadFinds
    <3>2. SubSeq(d.in, d.at + 2, d.at + 2) = <<d.in[d.at + 2]>>
      <4>1. d.at + 2 \in 1..Len(d.in) /\ d.in \in Seq(Int)
        <5>1. d.in \in Seq(Int) /\ Len(d.in) \in Nat /\ d.at \in Nat
          BY Counts
        <5>2. PICK a \in Nat, n \in Nat : a = d.at /\ n = Len(d.in)
          BY <5>1
        <5>3. a + 2 \in 1..n
          BY <2>4, <5>2
        <5> QED BY <5>1, <5>2, <5>3
      <4> QED BY <4>1, Single
    <3>3. Runs(r) /\ r.got[1] = d.in[d.at + 2]
      <4>1. Runs(r) /\ r.got = <<d.in[d.at + 2]>>
        BY <2>2, <2>3, <3>1, <3>2 DEF Finds
      <4> QED BY <4>1
    <3>4. Finds(r, [r EXCEPT !.got = @[1]], r.at, r.content, r.got[1])
      BY <3>3, GotReplaced
    <3>5. Finds(d, [r EXCEPT !.got = @[1]], d.at + 2, d.content, d.in[d.at + 2])
      BY <2>1, <2>3, <3>1, <3>3, <3>4 DEF Finds
    <3>6. r.ok
      BY <3>3 DEF Runs
    <3> QED BY <1>3, <1>4, <2>4, <3>5, <3>6
  <2>5. CASE ~(d.at + 2 <= Len(d.in))
    <3>1. Dead(r)
      BY <1>2, <2>2, <2>3, <2>5, ReadFinds
    <3> QED BY <1>3, <2>5, <3>1 DEF Dead
  <2> QED BY <2>4, <2>5
<1>5. CASE ~(d.at + 1 <= Len(d.in) /\ d.in[d.at + 1] = m)
  <2>1. Dead(r)
    BY <1>1, <1>2, <1>5, ExpectFinds, DeadReads
  <2>2. ~(d.at + 2 <= Len(d.in) /\ d.in[d.at + 1] = m)
    <3>1. d.at \in Nat /\ Len(d.in) \in Nat
      BY DEF Runs
    <3> QED BY <1>5, <3>1
  <2> QED BY <1>3, <2>1, <2>2 DEF Dead
<1> QED BY <1>4, <1>5

LEMMA LengthFinds ==
  ASSUME NEW d, Runs(d), NEW m \in Int
  PROVE  IF d.at + 2 <= Len(d.in) /\ d.in[d.at + 1] = m /\ d.in[d.at + 2] \in Nat
         THEN Finds(d, Length(d, m), d.at + 2, d.content, d.in[d.at + 2])
         ELSE Dead(Length(d, m))
<1>1. PICK r : r = Number(d, m)
  OBVIOUS
<1>2. Length(d, m) = IF r.ok THEN Check(r, r.got \in Nat) ELSE r
  BY <1>1 DEF Length, Then
<1>3. CASE d.at + 2 <= Len(d.in) /\ d.in[d.at + 1] = m
  <2>1. Finds(d, r, d.at + 2, d.content, d.in[d.at + 2])
    BY <1>1, <1>3, NumberFinds
  <2>2. Runs(r) /\ r.ok /\ r.got = d.in[d.at + 2]
    BY <2>1 DEF Finds, Runs
  <2>3. Length(d, m) = IF d.in[d.at + 2] \in Nat THEN r ELSE Fail(r)
    BY <1>2, <2>2 DEF Check
  <2> QED BY <1>3, <2>1, <2>2, <2>3, Dies
<1>4. CASE ~(d.at + 2 <= Len(d.in) /\ d.in[d.at + 1] = m)
  BY <1>1, <1>2, <1>4, NumberFinds DEF Dead
<1> QED BY <1>3, <1>4

LEMMA Utf8Finds ==
  ASSUME NEW d, Runs(d), NEW n \in Nat
  PROVE  IF d.at + n <= Len(d.in) /\ SubSeq(d.in, d.at + 1, d.at + n) \in Texts
         THEN Finds(d, ReadUtf8(d, n), d.at + n, d.content, SubSeq(d.in, d.at + 1, d.at + n))
         ELSE Dead(ReadUtf8(d, n))
<1>1. PICK r : r = Read(d, n)
  OBVIOUS
<1>2. ReadUtf8(d, n) =
        IF r.ok THEN Check(r, \A i \in 1..Len(r.got) : r.got[i] # NotUtf8) ELSE r
  BY <1>1 DEF ReadUtf8, Then
<1>3. CASE d.at + n <= Len(d.in)
  <2>1. PICK t : t = SubSeq(d.in, d.at + 1, d.at + n)
    OBVIOUS
  <2>2. Finds(d, r, d.at + n, d.content, t)
    BY <1>1, <1>3, <2>1, ReadFinds
  <2>3. Runs(r) /\ r.ok /\ r.got = t
    BY <2>2 DEF Finds, Runs
  <2>4. t \in Seq(Int)
    <3>1. d.at \in Nat /\ d.in \in Seq(Int)
      BY DEF Runs
    <3> QED BY <1>3, <2>1, <3>1, Slice
  <2>5. t \in Texts <=> \A i \in 1..Len(t) : t[i] # NotUtf8
    BY <2>4 DEF Texts, NotUtf8
  <2>6. ReadUtf8(d, n) = IF t \in Texts THEN r ELSE Fail(r)
    BY <1>2, <2>3, <2>5 DEF Check
  <2> QED BY <1>3, <2>1, <2>2, <2>3, <2>6, Dies
<1>4. CASE ~(d.at + n <= Len(d.in))
  BY <1>1, <1>2, <1>4, ReadFinds DEF Dead
<1> QED BY <1>3, <1>4

LEMMA ContentAdded ==
  ASSUME NEW d, Runs(d), NEW n \in Nat, NEW limit \in Nat
  PROVE  IF n <= limit /\ d.content + n <= MaxContent
         THEN Finds(d, AddContent(d, n, limit), d.at, d.content + n, d.got)
         ELSE Dead(AddContent(d, n, limit))
<1> USE LimitsAssumption
<1>1. CASE n <= limit /\ d.content + n <= MaxContent
  <2>1. AddContent(d, n, limit) = [d EXCEPT !.content = @ + n]
    <3>1. d.content \in Nat
      BY Counts
    <3> QED BY <1>1, <3>1 DEF AddContent
  <2>2. PICK c \in Nat : c = d.content + n
    <3>1. d.content \in Nat
      BY Counts
    <3> QED BY <3>1
  <2>3. PICK e : e = [d EXCEPT !.content = c]
    OBVIOUS
  <2>4. /\ IsDecoder(e) /\ e.ok = d.ok /\ e.in = d.in /\ e.at = d.at /\ e.content = c
        /\ e.got = d.got /\ e.values = d.values /\ e.stack = d.stack
    BY <2>3 DEF Runs, IsDecoder
  <2>5. Finds(d, e, d.at, c, d.got)
    BY <2>4, Counts DEF Runs, Finds
  <2> QED BY <1>1, <2>1, <2>2, <2>3, <2>5
<1>2. CASE ~(n <= limit /\ d.content + n <= MaxContent)
  <2>1. d.content + n \in Nat
    <3>1. d.content \in Nat
      BY Counts
    <3> QED BY <3>1
  <2>2. AddContent(d, n, limit) = Fail(d)
    BY <1>2, <2>1 DEF AddContent
  <2> QED BY <1>2, <2>2, Dies
<1> QED BY <1>1, <1>2

-----------------------------------------------------------------------------
\* Texts and bytes behind their length.

Block(m, t) == <<m, Len(t)>> \o t

LEMMA BlockIs ==
  ASSUME NEW m \in Int, NEW t \in Seq(Int)
  PROVE  Block(m, t) \in Seq(Int) /\ Len(Block(m, t)) = Len(t) + 2 /\ Len(t) \in Nat
<1>1. <<m, Len(t)>> \in Seq(Int) /\ Len(<<m, Len(t)>>) = 2 /\ Len(t) \in Nat
  OBVIOUS
<1>2. /\ <<m, Len(t)>> \o t \in Seq(Int)
      /\ Len(<<m, Len(t)>> \o t) = Len(<<m, Len(t)>>) + Len(t)
  BY <1>1, ConcatProperties
<1> QED BY <1>1, <1>2 DEF Block

LEMMA BlockAhead ==
  ASSUME NEW w \in Seq(Int), NEW a \in Nat, NEW m \in Int, NEW t \in Seq(Int)
  PROVE  Ahead(w, a, Block(m, t)) <=>
           /\ a + 2 + Len(t) <= Len(w)
           /\ w[a + 1] = m /\ w[a + 2] = Len(t)
           /\ SubSeq(w, a + 3, a + 2 + Len(t)) = t
<1> DEFINE h == <<m, Len(t)>>
<1>1. h \in Seq(Int) /\ Len(h) = 2 /\ h[1] = m /\ h[2] = Len(t) /\ Len(t) \in Nat
  OBVIOUS
<1>2. Ahead(w, a, h) <=> a + 2 <= Len(w) /\ w[a + 1] = m /\ w[a + 2] = Len(t)
  <2>1. \A i \in 1..2 : i = 1 \/ i = 2
    OBVIOUS
  <2> HIDE DEF h
  <2> QED BY <1>1, <2>1 DEF Ahead
<1>3. Ahead(w, a, Block(m, t)) <=> Ahead(w, a, h) /\ Ahead(w, a + 2, t)
  <2> HIDE DEF h
  <2>1. Ahead(w, a, h \o t) <=> Ahead(w, a, h) /\ Ahead(w, a + Len(h), t)
    BY <1>1, AheadOfBoth
  <2> QED BY <1>1, <2>1 DEF Block, h
<1>4. Ahead(w, a + 2, t) <=>
        a + 2 + Len(t) <= Len(w) /\ SubSeq(w, a + 3, a + 2 + Len(t)) = t
  <2>1. PICK b \in Nat : b = a + 2
    OBVIOUS
  <2>2. b + 1 = a + 3 /\ Len(t) \in Nat
    BY <2>1
  <2>3. Ahead(w, b, t) => SubSeq(w, b + 1, b + Len(t)) = t
    BY SliceIs
  <2>4. b + Len(t) <= Len(w) => Ahead(w, b, SubSeq(w, b + 1, b + Len(t)))
    BY <2>2, Slice
  <2>5. Ahead(w, b, t) => b + Len(t) <= Len(w)
    BY DEF Ahead
  <2> QED BY <2>1, <2>2, <2>3, <2>4, <2>5
<1>5. a + 2 + Len(t) <= Len(w) => a + 2 <= Len(w)
  <2>1. PICK n \in Nat, b \in Nat : n = Len(t) /\ b = Len(w)
    OBVIOUS
  <2> QED BY <2>1
<1> HIDE DEF h
<1> QED BY <1>2, <1>3, <1>4, <1>5, Zenon

\* A decoder in front of the rest of w.
Stands(d, w, a, c) == Runs(d) /\ d.in = w /\ d.at = a /\ d.content = c

LEMMA LengthStands ==
  ASSUME NEW w \in Seq(Int), NEW a \in Nat, NEW c \in Nat, NEW d, Stands(d, w, a, c),
         NEW m \in Int
  PROVE  IF a + 2 <= Len(w) /\ w[a + 1] = m /\ w[a + 2] \in Nat
         THEN /\ Stands(Length(d, m), w, a + 2, c) /\ Length(d, m).got = w[a + 2]
              /\ Finds(d, Length(d, m), a + 2, c, w[a + 2])
         ELSE Dead(Length(d, m))
  BY LengthFinds DEF Stands, Finds

LEMMA ContentStands ==
  ASSUME NEW w \in Seq(Int), NEW a \in Nat, NEW c \in Nat, NEW d, Stands(d, w, a, c),
         NEW n \in Nat, NEW limit \in Nat
  PROVE  IF n <= limit /\ c + n <= MaxContent
         THEN Stands(AddContent(d, n, limit), w, a, c + n)
              /\ Finds(d, AddContent(d, n, limit), a, c + n, d.got)
         ELSE Dead(AddContent(d, n, limit))
  BY ContentAdded DEF Stands, Finds

\* The content fits, by itself and with what was counted before.
Allowed(c, n, limit) == n <= limit /\ c + n <= MaxContent

LEMMA StringFinds ==
  ASSUME NEW w \in Seq(Int), NEW a \in Nat, NEW c \in Nat, NEW d, Stands(d, w, a, c)
  PROVE  \/ \E t \in Texts :
              /\ Ahead(w, a, Block(Str32, t)) /\ Allowed(c, Len(t), MaxString)
              /\ Finds(d, GetString(d), a + 2 + Len(t), c + Len(t), t)
         \/ /\ Dead(GetString(d))
            /\ \A t \in Texts :
                 ~(Ahead(w, a, Block(Str32, t)) /\ Allowed(c, Len(t), MaxString))
<1> DEFINE S == Str32
<1>1. PICK e : e = Length(d, S)
  OBVIOUS
<1>2. GetString(d) = IF e.ok THEN LET n == e.got
                                  IN  Then(AddContent(e, n, MaxString), LAMBDA f : ReadUtf8(f, n))
                             ELSE e
  BY <1>1 DEF GetString, Then
<1>3. S \in Int /\ Texts \subseteq Seq(Int) /\ MaxString \in Nat
  BY LimitsAssumption DEF Str32, Texts
<1>4. \A t \in Texts : Ahead(w, a, Block(S, t)) <=>
        /\ a + 2 + Len(t) <= Len(w)
        /\ w[a + 1] = S /\ w[a + 2] = Len(t)
        /\ SubSeq(w, a + 3, a + 2 + Len(t)) = t
  BY <1>3, BlockAhead
<1>5. \A t \in Texts : Len(t) \in Nat
  BY <1>3
<1>6. Len(w) \in Nat
  OBVIOUS
<1> HIDE DEF S
<1>7. CASE ~(a + 2 <= Len(w) /\ w[a + 1] = S /\ w[a + 2] \in Nat)
  <2>1. Dead(e)
    BY <1>1, <1>3, <1>7, LengthStands
  <2>2. GetString(d) = e
    BY <1>2, <2>1 DEF Dead
  <2>3. ASSUME NEW t \in Texts, Ahead(w, a, Block(S, t)) PROVE FALSE
    <3>1. PICK n \in Nat : n = Len(t)
      BY <1>5
    <3>2. a + 2 + n <= Len(w) /\ w[a + 1] = S /\ w[a + 2] = n
      BY <1>4, <2>3, <3>1
    <3>3. a + 2 <= Len(w)
      BY <1>6, <3>2
    <3> QED BY <1>7, <3>2, <3>3
  <2> QED BY <2>1, <2>2, <2>3 DEF S
<1>8. CASE a + 2 <= Len(w) /\ w[a + 1] = S /\ w[a + 2] \in Nat
  <2>1. PICK n \in Nat : n = w[a + 2]
    BY <1>8
  <2>2. Stands(e, w, a + 2, c) /\ e.got = n /\ Finds(d, e, a + 2, c, n)
    BY <1>1, <1>3, <1>8, <2>1, LengthStands
  <2>3. PICK f : f = AddContent(e, n, MaxString)
    OBVIOUS
  <2>4. GetString(d) = IF f.ok THEN ReadUtf8(f, n) ELSE f
    <3>1. e.ok
      BY <2>2, Counts DEF Stands
    <3> QED BY <1>2, <2>2, <2>3, <3>1 DEF Then
  <2>5. CASE ~Allowed(c, n, MaxString)
    <3>1. Dead(f)
      <4>1. a + 2 \in Nat
        OBVIOUS
      <4> QED BY <1>3, <2>2, <2>3, <2>5, <4>1, ContentStands DEF Allowed
    <3>2. GetString(d) = f
      BY <2>4, <3>1 DEF Dead
    <3>3. \A t \in Texts : Ahead(w, a, Block(S, t)) => Len(t) = n
      BY <1>4, <2>1
    <3> QED BY <2>5, <3>1, <3>2, <3>3 DEF S
  <2>6. CASE Allowed(c, n, MaxString)
    <3>1. PICK b \in Nat : b = a + 2
      OBVIOUS
    <3>2. Stands(f, w, b, c + n) /\ Finds(e, f, b, c + n, e.got)
      BY <1>3, <2>2, <2>3, <2>6, <3>1, ContentStands DEF Allowed
    <3>3. Runs(f) /\ f.in = w /\ f.at = b /\ f.content = c + n /\ f.ok
      BY <3>2, Counts DEF Stands
    <3>4. PICK t : t = SubSeq(w, b + 1, b + n)
      OBVIOUS
    <3>5. IF b + n <= Len(w) /\ t \in Texts
          THEN Finds(f, ReadUtf8(f, n), b + n, c + n, t)
          ELSE Dead(ReadUtf8(f, n))
      BY <3>3, <3>4, Utf8Finds
    <3>6. GetString(d) = ReadUtf8(f, n)
      BY <2>4, <3>3
    <3>7. b + 1 = a + 3 /\ b + n = a + 2 + n
      BY <3>1
    <3>8. CASE b + n <= Len(w) /\ t \in Texts
      <4>1. Len(t) = n
        BY <3>4, <3>8, Slice
      <4>2. Ahead(w, a, Block(S, t))
        BY <1>4, <1>8, <2>1, <3>4, <3>7, <3>8, <4>1
      <4>3. Finds(d, GetString(d), a + 2 + n, c + n, t)
        BY <2>2, <3>2, <3>5, <3>6, <3>7, <3>8 DEF Finds
      <4> QED BY <2>6, <3>8, <4>1, <4>2, <4>3 DEF S
    <3>9. CASE ~(b + n <= Len(w) /\ t \in Texts)
      <4>1. Dead(GetString(d))
        BY <3>5, <3>6, <3>9
      <4>2. ASSUME NEW u \in Texts, Ahead(w, a, Block(S, u)) PROVE FALSE
        <5>1. Len(u) = n
          BY <1>4, <2>1, <4>2
        <5>2. a + 2 + n <= Len(w) /\ SubSeq(w, a + 3, a + 2 + n) = u
          BY <1>4, <4>2, <5>1
        <5> QED BY <3>4, <3>7, <3>9, <5>2
      <4> QED BY <4>1, <4>2 DEF S
    <3> QED BY <3>8, <3>9
  <2> QED BY <2>5, <2>6
<1> QED BY <1>7, <1>8

LEMMA MetadataFinds ==
  ASSUME NEW w \in Seq(Int), NEW a \in Nat, NEW c \in Nat, NEW d, Stands(d, w, a, c)
  PROVE  \/ \E t \in Texts :
              /\ Ahead(w, a, Block(Str32, t)) /\ Len(t) <= MaxName
              /\ Finds(d, Metadata(d), a + 2 + Len(t), c, t)
         \/ /\ Dead(Metadata(d))
            /\ \A t \in Texts : ~(Ahead(w, a, Block(Str32, t)) /\ Len(t) <= MaxName)
<1> DEFINE S == Str32
<1>1. PICK e : e = Length(d, S)
  OBVIOUS
<1>2. Metadata(d) = IF e.ok THEN IF e.got > MaxName THEN Fail(e) ELSE ReadUtf8(e, e.got)
                            ELSE e
  BY <1>1 DEF Metadata, Then
<1>3. S \in Int /\ Texts \subseteq Seq(Int) /\ MaxName \in Nat
  BY LimitsAssumption DEF Str32, Texts
<1>4. \A t \in Texts : Ahead(w, a, Block(S, t)) <=>
        /\ a + 2 + Len(t) <= Len(w)
        /\ w[a + 1] = S /\ w[a + 2] = Len(t)
        /\ SubSeq(w, a + 3, a + 2 + Len(t)) = t
  BY <1>3, BlockAhead
<1>5. \A t \in Texts : Len(t) \in Nat
  BY <1>3
<1>6. Len(w) \in Nat
  OBVIOUS
<1> HIDE DEF S
<1>7. CASE ~(a + 2 <= Len(w) /\ w[a + 1] = S /\ w[a + 2] \in Nat)
  <2>1. Dead(e)
    BY <1>1, <1>3, <1>7, LengthStands
  <2>2. Metadata(d) = e
    BY <1>2, <2>1 DEF Dead
  <2>3. ASSUME NEW t \in Texts, Ahead(w, a, Block(S, t)) PROVE FALSE
    <3>1. PICK n \in Nat : n = Len(t)
      BY <1>5
    <3>2. a + 2 + n <= Len(w) /\ w[a + 1] = S /\ w[a + 2] = n
      BY <1>4, <2>3, <3>1
    <3>3. a + 2 <= Len(w)
      BY <1>6, <3>2
    <3> QED BY <1>7, <3>2, <3>3
  <2> QED BY <2>1, <2>2, <2>3 DEF S
<1>8. CASE a + 2 <= Len(w) /\ w[a + 1] = S /\ w[a + 2] \in Nat
  <2>1. PICK n \in Nat, b \in Nat : n = w[a + 2] /\ b = a + 2
    BY <1>8
  <2>2. Stands(e, w, b, c) /\ e.got = n /\ Finds(d, e, b, c, n)
    BY <1>1, <1>3, <1>8, <2>1, LengthStands
  <2>3. Runs(e) /\ e.in = w /\ e.at = b /\ e.content = c /\ e.ok
    BY <2>2, Counts DEF Stands
  <2>4. CASE n > MaxName
    <3>1. Metadata(d) = Fail(e)
      BY <1>2, <2>2, <2>3, <2>4
    <3>2. \A t \in Texts : Ahead(w, a, Block(S, t)) => Len(t) = n
      BY <1>4, <2>1
    <3>3. ~(n <= MaxName)
      BY <1>3, <2>4
    <3> QED BY <2>3, <3>1, <3>2, <3>3, Dies DEF S
  <2>5. CASE ~(n > MaxName)
    <3>1. n <= MaxName
      BY <1>3, <2>5
    <3>4. PICK t : t = SubSeq(w, b + 1, b + n)
      OBVIOUS
    <3>5. IF b + n <= Len(w) /\ t \in Texts
          THEN Finds(e, ReadUtf8(e, n), b + n, c, t)
          ELSE Dead(ReadUtf8(e, n))
      BY <2>3, <3>4, Utf8Finds
    <3>6. Metadata(d) = ReadUtf8(e, n)
      BY <1>2, <2>2, <2>3, <2>5
    <3>7. b + 1 = a + 3 /\ b + n = a + 2 + n
      BY <2>1
    <3>8. CASE b + n <= Len(w) /\ t \in Texts
      <4>1. Len(t) = n
        BY <3>4, <3>8, Slice
      <4>2. Ahead(w, a, Block(S, t))
        BY <1>4, <1>8, <2>1, <3>4, <3>7, <3>8, <4>1
      <4>3. Finds(d, Metadata(d), a + 2 + n, c, t)
        BY <2>2, <3>5, <3>6, <3>7, <3>8 DEF Finds
      <4> QED BY <3>1, <3>8, <4>1, <4>2, <4>3 DEF S
    <3>9. CASE ~(b + n <= Len(w) /\ t \in Texts)
      <4>1. Dead(Metadata(d))
        BY <3>5, <3>6, <3>9
      <4>2. ASSUME NEW u \in Texts, Ahead(w, a, Block(S, u)) PROVE FALSE
        <5>1. Len(u) = n
          BY <1>4, <2>1, <4>2
        <5>2. a + 2 + n <= Len(w) /\ SubSeq(w, a + 3, a + 2 + n) = u
          BY <1>4, <4>2, <5>1
        <5> QED BY <3>4, <3>7, <3>9, <5>2
      <4> QED BY <4>1, <4>2 DEF S
    <3> QED BY <3>8, <3>9
  <2> QED BY <2>4, <2>5
<1> QED BY <1>7, <1>8

LEMMA BytesFind ==
  ASSUME NEW w \in Seq(Int), NEW a \in Nat, NEW c \in Nat, NEW d, Stands(d, w, a, c)
  PROVE  \/ \E t \in Seq(Int) :
              /\ Ahead(w, a, Block(Bin32, t)) /\ Allowed(c, Len(t), MaxBytes)
              /\ Finds(d, GetBytes(d), a + 2 + Len(t), c + Len(t), t)
         \/ /\ Dead(GetBytes(d))
            /\ \A t \in Seq(Int) :
                 ~(Ahead(w, a, Block(Bin32, t)) /\ Allowed(c, Len(t), MaxBytes))
<1> DEFINE S == Bin32
<1>1. PICK e : e = Length(d, S)
  OBVIOUS
<1>2. GetBytes(d) = IF e.ok THEN LET n == e.got
                                 IN  Then(AddContent(e, n, MaxBytes), LAMBDA f : Read(f, n))
                            ELSE e
  BY <1>1 DEF GetBytes, Then
<1>3. S \in Int /\ MaxBytes \in Nat
  BY LimitsAssumption DEF Bin32
<1>4. \A t \in Seq(Int) : Ahead(w, a, Block(S, t)) <=>
        /\ a + 2 + Len(t) <= Len(w)
        /\ w[a + 1] = S /\ w[a + 2] = Len(t)
        /\ SubSeq(w, a + 3, a + 2 + Len(t)) = t
  BY <1>3, BlockAhead
<1>6. Len(w) \in Nat
  OBVIOUS
<1> HIDE DEF S
<1>7. CASE ~(a + 2 <= Len(w) /\ w[a + 1] = S /\ w[a + 2] \in Nat)
  <2>1. Dead(e)
    BY <1>1, <1>3, <1>7, LengthStands
  <2>2. GetBytes(d) = e
    BY <1>2, <2>1 DEF Dead
  <2>3. ASSUME NEW t \in Seq(Int), Ahead(w, a, Block(S, t)) PROVE FALSE
    <3>1. PICK n \in Nat : n = Len(t)
      OBVIOUS
    <3>2. a + 2 + n <= Len(w) /\ w[a + 1] = S /\ w[a + 2] = n
      BY <1>4, <2>3, <3>1
    <3>3. a + 2 <= Len(w)
      BY <1>6, <3>2
    <3> QED BY <1>7, <3>2, <3>3
  <2> QED BY <2>1, <2>2, <2>3 DEF S
<1>8. CASE a + 2 <= Len(w) /\ w[a + 1] = S /\ w[a + 2] \in Nat
  <2>1. PICK n \in Nat, b \in Nat : n = w[a + 2] /\ b = a + 2
    BY <1>8
  <2>2. Stands(e, w, b, c) /\ e.got = n /\ Finds(d, e, b, c, n)
    BY <1>1, <1>3, <1>8, <2>1, LengthStands
  <2>3. PICK f : f = AddContent(e, n, MaxBytes)
    OBVIOUS
  <2>4. GetBytes(d) = IF f.ok THEN Read(f, n) ELSE f
    <3>1. e.ok
      BY <2>2, Counts DEF Stands
    <3> QED BY <1>2, <2>2, <2>3, <3>1 DEF Then
  <2>5. CASE ~Allowed(c, n, MaxBytes)
    <3>1. Dead(f)
      BY <1>3, <2>2, <2>3, <2>5, ContentStands DEF Allowed
    <3>2. GetBytes(d) = f
      BY <2>4, <3>1 DEF Dead
    <3>3. \A t \in Seq(Int) : Ahead(w, a, Block(S, t)) => Len(t) = n
      BY <1>4, <2>1
    <3> QED BY <2>5, <3>1, <3>2, <3>3 DEF S
  <2>6. CASE Allowed(c, n, MaxBytes)
    <3>2. Stands(f, w, b, c + n) /\ Finds(e, f, b, c + n, e.got)
      BY <1>3, <2>2, <2>3, <2>6, ContentStands DEF Allowed
    <3>3. Runs(f) /\ f.in = w /\ f.at = b /\ f.content = c + n /\ f.ok
      BY <3>2, Counts DEF Stands
    <3>4. PICK t : t = SubSeq(w, b + 1, b + n)
      OBVIOUS
    <3>5. IF b + n <= Len(w) THEN Finds(f, Read(f, n), b + n, c + n, t)
                             ELSE Dead(Read(f, n))
      BY <3>3, <3>4, ReadFinds
    <3>6. GetBytes(d) = Read(f, n)
      BY <2>4, <3>3
    <3>7. b + 1 = a + 3 /\ b + n = a + 2 + n
      BY <2>1
    <3>8. CASE b + n <= Len(w)
      <4>1. t \in Seq(Int) /\ Len(t) = n
        BY <3>4, <3>8, Slice
      <4>2. Ahead(w, a, Block(S, t))
        BY <1>4, <1>8, <2>1, <3>4, <3>7, <3>8, <4>1
      <4>3. Finds(d, GetBytes(d), a + 2 + n, c + n, t)
        BY <2>2, <3>2, <3>5, <3>6, <3>7, <3>8 DEF Finds
      <4> QED BY <2>6, <4>1, <4>2, <4>3 DEF S
    <3>9. CASE ~(b + n <= Len(w))
      <4>1. Dead(GetBytes(d))
        BY <3>5, <3>6, <3>9
      <4>2. ASSUME NEW u \in Seq(Int), Ahead(w, a, Block(S, u)) PROVE FALSE
        <5>1. Len(u) = n
          BY <1>4, <2>1, <4>2
        <5>2. a + 2 + n <= Len(w)
          BY <1>4, <4>2, <5>1
        <5> QED BY <3>7, <3>9, <5>2
      <4> QED BY <4>1, <4>2 DEF S
    <3> QED BY <3>8, <3>9
  <2> QED BY <2>5, <2>6
<1> QED BY <1>7, <1>8

LEMMA EntriesFind ==
  ASSUME NEW w \in Seq(Int), NEW a \in Nat, NEW c \in Nat, NEW d, Stands(d, w, a, c)
  PROVE  \/ \E n \in Nat :
              /\ Ahead(w, a, <<Array32, n>>) /\ n <= MaxEntries
              /\ Finds(d, Entries(d), a + 2, c, n)
         \/ /\ Dead(Entries(d))
            /\ \A n \in Nat : ~(Ahead(w, a, <<Array32, n>>) /\ n <= MaxEntries)
<1> DEFINE S == Array32
<1>1. PICK e : e = Length(d, S)
  OBVIOUS
<1>2. Entries(d) = IF e.ok THEN Check(e, e.got <= MaxEntries) ELSE e
  BY <1>1 DEF Entries, Then
<1>3. S \in Int /\ MaxEntries \in Nat
  BY LimitsAssumption DEF Array32
<1> HIDE DEF S
<1>4. \A n \in Nat : Ahead(w, a, <<S, n>>) <=>
        a + 2 <= Len(w) /\ w[a + 1] = S /\ w[a + 2] = n
  <2> TAKE n \in Nat
  <2>1. <<S, n>> \in Seq(Int) /\ Len(<<S, n>>) = 2 /\ <<S, n>>[1] = S /\ <<S, n>>[2] = n
    BY <1>3
  <2>2. \A i \in 1..2 : i = 1 \/ i = 2
    OBVIOUS
  <2> QED BY <2>1, <2>2 DEF Ahead
<1>7. CASE ~(a + 2 <= Len(w) /\ w[a + 1] = S /\ w[a + 2] \in Nat)
  <2>1. Dead(e)
    BY <1>1, <1>3, <1>7, LengthStands
  <2>2. Entries(d) = e
    BY <1>2, <2>1 DEF Dead
  <2>3. \A n \in Nat : ~Ahead(w, a, <<S, n>>)
    BY <1>4, <1>7
  <2> QED BY <2>1, <2>2, <2>3 DEF S
<1>8. CASE a + 2 <= Len(w) /\ w[a + 1] = S /\ w[a + 2] \in Nat
  <2>1. PICK n \in Nat : n = w[a + 2]
    BY <1>8
  <2>2. Stands(e, w, a + 2, c) /\ e.got = n /\ Finds(d, e, a + 2, c, n)
    BY <1>1, <1>3, <1>8, <2>1, LengthStands
  <2>3. Runs(e) /\ e.ok
    BY <2>2, Counts DEF Stands
  <2>4. Entries(d) = IF n <= MaxEntries THEN e ELSE Fail(e)
    BY <1>2, <2>2, <2>3 DEF Check
  <2>5. CASE n <= MaxEntries
    <3>1. Ahead(w, a, <<S, n>>)
      BY <1>4, <1>8, <2>1
    <3> QED BY <2>2, <2>4, <2>5, <3>1 DEF S
  <2>6. CASE ~(n <= MaxEntries)
    <3>1. \A m \in Nat : Ahead(w, a, <<S, m>>) => m = n
      BY <1>4, <2>1
    <3>2. Dead(Entries(d))
      BY <2>3, <2>4, <2>6, Dies
    <3> QED BY <2>6, <3>1, <3>2 DEF S
  <2> QED BY <2>5, <2>6
<1> QED BY <1>7, <1>8

-----------------------------------------------------------------------------
\* What a value looks like, by its kind.

LEMMA ScalarShapes ==
  ASSUME NEW v \in Scalars
  PROVE  \/ v = [kind |-> "null"]
         \/ \E b \in BOOLEAN : v = [kind |-> "bool", b |-> b]
         \/ \E n \in Int : v = [kind |-> "integer", n |-> n]
         \/ \E n \in Int : v = [kind |-> "float", n |-> n]
         \/ \E s \in Texts : v = [kind |-> "string", s |-> s]
         \/ \E s \in Seq(Int) : v = [kind |-> "bytes", s |-> s]
         \/ \E i \in Nat, g \in Nat, s \in Texts :
              v = [kind |-> "handle", id |-> i, generation |-> g, name |-> s]
         \/ \E c \in Codes : v = [kind |-> "error", code |-> c]
<1>1. CASE v \in [kind : {"null"}]
  BY <1>1
<1>2. CASE v \in [kind : {"bool"}, b : BOOLEAN]
  <2>1. v = [kind |-> "bool", b |-> v.b] /\ v.b \in BOOLEAN
    BY <1>2
  <2> QED BY <2>1
<1>3. CASE v \in [kind : {"integer", "float"}, n : Int]
  <2>1. v = [kind |-> v.kind, n |-> v.n] /\ v.n \in Int
        /\ (v.kind = "integer" \/ v.kind = "float")
    BY <1>3
  <2> QED BY <2>1
<1>4. CASE v \in [kind : {"string"}, s : Texts]
  <2>1. v = [kind |-> "string", s |-> v.s] /\ v.s \in Texts
    BY <1>4
  <2> QED BY <2>1
<1>5. CASE v \in [kind : {"bytes"}, s : Seq(Int)]
  <2>1. v = [kind |-> "bytes", s |-> v.s] /\ v.s \in Seq(Int)
    BY <1>5
  <2> QED BY <2>1
<1>6. CASE v \in [kind : {"handle"}, id : Nat, generation : Nat, name : Texts]
  <2>1. /\ v = [kind |-> "handle", id |-> v.id, generation |-> v.generation, name |-> v.name]
        /\ v.id \in Nat /\ v.generation \in Nat /\ v.name \in Texts
    BY <1>6
  <2> QED BY <2>1
<1>7. CASE v \in [kind : {"error"}, code : Codes]
  <2>1. v = [kind |-> "error", code |-> v.code] /\ v.code \in Codes
    BY <1>7
  <2> QED BY <2>1
<1> QED BY <1>1, <1>2, <1>3, <1>4, <1>5, <1>6, <1>7 DEF Scalars

LEMMA Shapes ==
  ASSUME NEW S, NEW v \in Nodes(S)
  PROVE  \/ v \in Scalars
         \/ \E s \in Seq(S) : v = [kind |-> "array", items |-> s]
         \/ \E s \in Seq([key : Texts, val : S]) : v = [kind |-> "map", entries |-> s]
<1>1. CASE v \in [kind : {"array"}, items : Seq(S)]
  <2>1. v = [kind |-> "array", items |-> v.items] /\ v.items \in Seq(S)
    BY <1>1
  <2> QED BY <2>1
<1>2. CASE v \in [kind : {"map"}, entries : Seq([key : Texts, val : S])]
  <2>1. v = [kind |-> "map", entries |-> v.entries]
        /\ v.entries \in Seq([key : Texts, val : S])
    BY <1>2
  <2> QED BY <2>1
<1> QED BY <1>1, <1>2 DEF Nodes

-----------------------------------------------------------------------------
\* What a call of value() itself is about: h is the value, or what is left of
\* an array or a map without its n parts.

\* What stands on the wire behind the tag.
Body(h, n) ==
  CASE h.kind = "null"    -> <<Nil>>
    [] h.kind = "bool"    -> <<IF h.b THEN True ELSE False>>
    [] h.kind = "integer" -> <<Int64, h.n>>
    [] h.kind = "float"   -> <<Float64, h.n>>
    [] h.kind = "string"  -> Block(Str32, h.s)
    [] h.kind = "bytes"   -> Block(Bin32, h.s)
    [] h.kind = "array"   -> <<Array32, n>>
    [] h.kind = "map"     -> <<Array32, n>>
    [] h.kind = "handle"  ->
         <<Triple, Uint64, h.id, Uint64, h.generation>> \o Block(Str32, h.name)
    [] h.kind = "error"   -> Block(Str32, WireCode(h.code))

\* The content it has.
Weight(h) == IF h.kind \in {"string", "bytes"} THEN Len(h.s) ELSE 0

\* What it is refused for, with c bytes of content before it.
Fine(h, n, c) ==
  CASE h.kind = "float"  -> h.n # NotFinite
    [] h.kind = "string" -> Allowed(c, Len(h.s), MaxString)
    [] h.kind = "bytes"  -> Allowed(c, Len(h.s), MaxBytes)
    [] h.kind \in {"array", "map"} -> n <= MaxEntries
    [] h.kind = "handle" -> IsHandle(h.id, h.generation, h.name)
    [] OTHER -> TRUE

\* The decoder has read it, behind a and c, and found it.
Taken(d, g, h, n, a, c) ==
  \E m \in Nat, k \in Nat :
    /\ Len(Body(h, n)) = m /\ Weight(h) = k
    /\ Finds(d, g, a + m, c + k, Reading(h, n))

LEMMA Handed ==
  ASSUME NEW d, NEW e, NEW a, NEW c, NEW g, Finds(d, e, a, c, g), NEW x,
         NEW f, f = [e EXCEPT !.got = x]
  PROVE  Finds(d, f, a, c, x) /\ e.ok /\ e.got = g
<1>1. Runs(e)
  BY DEF Finds
<1>2. Finds(e, f, e.at, e.content, x)
  BY <1>1, GotReplaced
<1>3. e.ok
  BY <1>1, Counts
<1> QED BY <1>2, <1>3 DEF Finds

LEMMA LeafFinds ==
  ASSUME NEW d, NEW r, NEW b, NEW k, NEW x, Finds(d, r, b, k, x), NEW h,
         NEW g, g = IF r.ok THEN [r EXCEPT !.got = Reading(h, 0)] ELSE r
  PROVE  Finds(d, g, b, k, Reading(h, 0))
<1>1. r.ok
  <2>1. Runs(r)
    BY DEF Finds
  <2> QED BY <2>1, Counts
<1>2. PICK y : y = Reading(h, 0)
  OBVIOUS
<1>3. g = [r EXCEPT !.got = y]
  BY <1>1, <1>2
<1>4. Finds(d, g, b, k, y)
  BY <1>3, Handed
<1> QED BY <1>2, <1>4

LEMMA Sums ==
  ASSUME NEW d, NEW g, NEW h, NEW n, NEW a \in Nat, NEW c \in Nat,
         NEW m \in Nat, NEW k \in Nat, Len(Body(h, n)) = m, Weight(h) = k,
         NEW b, b = a + m, NEW s, s = c + k, Finds(d, g, b, s, Reading(h, n))
  PROVE  Taken(d, g, h, n, a, c)
  BY DEF Taken

LEMMA OneAhead ==
  ASSUME NEW w \in Seq(Int), NEW a \in Nat, NEW x \in Int
  PROVE  Ahead(w, a, <<x>>) <=> a + 1 <= Len(w) /\ w[a + 1] = x
<1>1. Len(<<x>>) = 1 /\ <<x>>[1] = x
  OBVIOUS
<1> QED BY <1>1 DEF Ahead

\* A marker that is there is read.
LEMMA MarkerRead ==
  ASSUME NEW w \in Seq(Int), NEW a \in Nat, NEW c, NEW d, Stands(d, w, a, c),
         NEW x \in Int, Ahead(w, a, <<x>>), NEW b, b = a + 1, NEW r, r = Expect(d, x)
  PROVE  Finds(d, r, b, c, <<x>>)
<1>1. a + 1 <= Len(w) /\ w[a + 1] = x
  BY OneAhead
<1>2. Runs(d) /\ d.in = w /\ d.at = a /\ d.content = c
  BY DEF Stands
<1>3. d.at + 1 <= Len(d.in) /\ d.in[d.at + 1] = x
  BY <1>1, <1>2
<1>4. Finds(d, r, d.at + 1, d.content, <<x>>)
  BY <1>2, <1>3, ExpectFinds
<1> QED BY <1>2, <1>4

LEMMA TwoAhead ==
  ASSUME NEW w \in Seq(Int), NEW a \in Nat, NEW x \in Int, NEW y \in Int
  PROVE  Ahead(w, a, <<x, y>>) <=> a + 2 <= Len(w) /\ w[a + 1] = x /\ w[a + 2] = y
<1>1. Len(<<x, y>>) = 2 /\ <<x, y>>[1] = x /\ <<x, y>>[2] = y
  OBVIOUS
<1>2. \A i \in 1..2 : i = 1 \/ i = 2
  OBVIOUS
<1> QED BY <1>1, <1>2 DEF Ahead

LEMMA NullTaken ==
  ASSUME NEW w \in Seq(Int), NEW a \in Nat, NEW c \in Nat, NEW d, Stands(d, w, a, c),
         NEW h, h = [kind |-> "null"], Ahead(w, a, Body(h, 0))
  PROVE  Taken(d, GetKind(d, 0), h, 0, a, c)
<1>1. PICK r : r = Expect(d, Nil)
  OBVIOUS
<1>2. PICK g : g = GetKind(d, 0)
  OBVIOUS
<1>3. g = IF r.ok THEN [r EXCEPT !.got = Reading(h, 0)] ELSE r
  BY <1>1, <1>2 DEF GetKind, Tags, Leaf, Then
<1>4. Body(h, 0) = <<Nil>> /\ Len(Body(h, 0)) = 1 /\ Weight(h) = 0 /\ Nil \in Int
  BY DEF Body, Weight, Nil
<1>5. PICK b \in Nat : b = a + 1
  OBVIOUS
<1>6. Finds(d, r, b, c, <<Nil>>)
  BY <1>1, <1>4, <1>5, MarkerRead
<1>7. b = a + 1 /\ c = c + 0 /\ 1 \in Nat /\ 0 \in Nat
  BY <1>5
<1>8. Finds(d, g, b, c, Reading(h, 0))
  BY <1>3, <1>6, LeafFinds
<1> QED BY <1>2, <1>4, <1>7, <1>8, Sums, Zenon

LEMMA BoolTaken ==
  ASSUME NEW w \in Seq(Int), NEW a \in Nat, NEW c \in Nat, NEW d, Stands(d, w, a, c),
         NEW x \in BOOLEAN, NEW h, h = [kind |-> "bool", b |-> x],
         Ahead(w, a, Body(h, 0))
  PROVE  Taken(d, GetKind(d, 1), h, 0, a, c)
<1>1. PICK q : q = Read(d, 1)
  OBVIOUS
<1>2. PICK r : r = IF q.ok THEN Check(q, q.got \in {<<True>>, <<False>>}) ELSE q
  OBVIOUS
<1>3. PICK g : g = GetKind(d, 1)
  OBVIOUS
<1>4. g = IF r.ok THEN [r EXCEPT !.got = Reading([kind |-> "bool", b |-> r.got = <<True>>], 0)]
                  ELSE r
  BY <1>1, <1>2, <1>3 DEF GetKind, Tags, Leaf, Then
<1>5. PICK m \in Int : m = IF x THEN True ELSE False
  BY DEF True, False
<1>6. Body(h, 0) = <<m>> /\ Len(Body(h, 0)) = 1 /\ Weight(h) = 0
  BY <1>5 DEF Body, Weight
<1>7. PICK b \in Nat : b = a + 1
  OBVIOUS
<1>8. Finds(d, q, b, c, <<m>>)
  <2>1. b <= Len(w) /\ w[b] = m
    BY <1>6, <1>7, OneAhead
  <2>2. SubSeq(w, b, b) = <<m>>
    BY <1>7, <2>1, Single
  <2> QED BY <1>1, <1>7, <2>1, <2>2, ReadFinds DEF Stands
<1>9. r = q /\ r.got = <<m>>
  <2>1. q.got = <<m>>
    BY <1>8 DEF Finds
  <2>2. <<m>> = <<True>> \/ <<m>> = <<False>>
    BY <1>5
  <2>3. q.got \in {<<True>>, <<False>>}
    BY <2>1, <2>2
  <2> QED BY <1>2, <2>1, <2>3 DEF Check
<1>10. h = [kind |-> "bool", b |-> r.got = <<True>>]
  <2>1. (r.got = <<True>>) = x
    BY <1>5, <1>9 DEF True, False
  <2> QED BY <2>1, Zenon
<1>11. b = a + 1 /\ c = c + 0 /\ 1 \in Nat /\ 0 \in Nat
  BY <1>7
<1>12. g = IF r.ok THEN [r EXCEPT !.got = Reading(h, 0)] ELSE r
  BY <1>4, <1>10, Zenon
<1>13. Finds(d, g, b, c, Reading(h, 0))
  BY <1>8, <1>9, <1>12, LeafFinds
<1> QED BY <1>3, <1>6, <1>11, <1>13, Sums, Zenon

LEMMA BlockUnique ==
  ASSUME NEW w \in Seq(Int), NEW a \in Nat, NEW m \in Int, NEW t \in Seq(Int),
         NEW u \in Seq(Int), Ahead(w, a, Block(m, t)), Ahead(w, a, Block(m, u))
  PROVE  t = u
<1>1. w[a + 2] = Len(t) /\ SubSeq(w, a + 3, a + 2 + Len(t)) = t
  BY BlockAhead
<1>2. w[a + 2] = Len(u) /\ SubSeq(w, a + 3, a + 2 + Len(u)) = u
  BY BlockAhead
<1> QED BY <1>1, <1>2

LEMMA StringRead ==
  ASSUME NEW w \in Seq(Int), NEW a \in Nat, NEW c \in Nat, NEW d, Stands(d, w, a, c),
         NEW t \in Texts, Ahead(w, a, Block(Str32, t)), Allowed(c, Len(t), MaxString)
  PROVE  Finds(d, GetString(d), a + 2 + Len(t), c + Len(t), t)
<1>1. Texts \subseteq Seq(Int) /\ Str32 \in Int
  BY DEF Texts, Str32
<1>2. PICK u \in Texts : /\ Ahead(w, a, Block(Str32, u))
                         /\ Finds(d, GetString(d), a + 2 + Len(u), c + Len(u), u)
  BY StringFinds
<1>3. u = t
  BY <1>1, <1>2, BlockUnique
<1> QED BY <1>2, <1>3

LEMMA MetadataRead ==
  ASSUME NEW w \in Seq(Int), NEW a \in Nat, NEW c \in Nat, NEW d, Stands(d, w, a, c),
         NEW t \in Texts, Ahead(w, a, Block(Str32, t)), Len(t) <= MaxName
  PROVE  Finds(d, Metadata(d), a + 2 + Len(t), c, t)
<1>1. Texts \subseteq Seq(Int) /\ Str32 \in Int
  BY DEF Texts, Str32
<1>2. PICK u \in Texts : /\ Ahead(w, a, Block(Str32, u))
                         /\ Finds(d, Metadata(d), a + 2 + Len(u), c, u)
  BY MetadataFinds
<1>3. u = t
  BY <1>1, <1>2, BlockUnique
<1> QED BY <1>2, <1>3

LEMMA BytesRead ==
  ASSUME NEW w \in Seq(Int), NEW a \in Nat, NEW c \in Nat, NEW d, Stands(d, w, a, c),
         NEW t \in Seq(Int), Ahead(w, a, Block(Bin32, t)), Allowed(c, Len(t), MaxBytes)
  PROVE  Finds(d, GetBytes(d), a + 2 + Len(t), c + Len(t), t)
<1>1. Bin32 \in Int
  BY DEF Bin32
<1>2. PICK u \in Seq(Int) : /\ Ahead(w, a, Block(Bin32, u))
                            /\ Finds(d, GetBytes(d), a + 2 + Len(u), c + Len(u), u)
  BY BytesFind
<1>3. u = t
  BY <1>1, <1>2, BlockUnique
<1> QED BY <1>2, <1>3

LEMMA EntriesRead ==
  ASSUME NEW w \in Seq(Int), NEW a \in Nat, NEW c \in Nat, NEW d, Stands(d, w, a, c),
         NEW n \in Nat, Ahead(w, a, <<Array32, n>>), n <= MaxEntries
  PROVE  Finds(d, Entries(d), a + 2, c, n)
<1>1. Array32 \in Int
  BY DEF Array32
<1>2. PICK u \in Nat : Ahead(w, a, <<Array32, u>>) /\ Finds(d, Entries(d), a + 2, c, u)
  BY EntriesFind
<1>3. u = n
  <2>1. w[a + 2] = n
    BY <1>1, TwoAhead
  <2>2. w[a + 2] = u
    BY <1>1, <1>2, TwoAhead
  <2> QED BY <2>1, <2>2
<1> QED BY <1>2, <1>3

LEMMA NumberRead ==
  ASSUME NEW w \in Seq(Int), NEW a \in Nat, NEW c \in Nat, NEW d, Stands(d, w, a, c),
         NEW m \in Int, NEW x \in Int, Ahead(w, a, <<m, x>>)
  PROVE  Finds(d, Number(d, m), a + 2, c, x)
<1>1. a + 2 <= Len(w) /\ w[a + 1] = m /\ w[a + 2] = x
  BY TwoAhead
<1> QED BY <1>1, NumberFinds DEF Stands

LEMMA NumberHere ==
  ASSUME NEW w \in Seq(Int), NEW a \in Nat, NEW c \in Nat, NEW d, Stands(d, w, a, c),
         NEW m \in Int, NEW x \in Int, NEW b,
         a + 2 = b /\ a + 2 <= Len(w) /\ w[a + 1] = m /\ w[a + 2] = x
  PROVE  Finds(d, Number(d, m), b, c, x)
<1>1. a + 2 <= Len(w) /\ w[a + 1] = m /\ w[a + 2] = x
  OBVIOUS
<1>2. Finds(d, Number(d, m), a + 2, c, x)
  BY <1>1, NumberFinds DEF Stands
<1> QED BY <1>2

LEMMA IntegerTaken ==
  ASSUME NEW w \in Seq(Int), NEW a \in Nat, NEW c \in Nat, NEW d, Stands(d, w, a, c),
         NEW x \in Int, NEW h, h = [kind |-> "integer", n |-> x],
         Ahead(w, a, Body(h, 0))
  PROVE  Taken(d, GetKind(d, 2), h, 0, a, c)
<1>1. PICK r : r = Number(d, Int64)
  OBVIOUS
<1>2. PICK g : g = GetKind(d, 2)
  OBVIOUS
<1>3. g = IF r.ok THEN [r EXCEPT !.got = Reading([kind |-> "integer", n |-> r.got], 0)] ELSE r
  BY <1>1, <1>2 DEF GetKind, Tags, Leaf, Then
<1>4. Body(h, 0) = <<Int64, x>> /\ Len(Body(h, 0)) = 2 /\ Weight(h) = 0 /\ Int64 \in Int
  BY DEF Body, Weight, Int64
<1>5. PICK b \in Nat : b = a + 2
  OBVIOUS
<1>6. Finds(d, r, b, c, x)
  BY <1>1, <1>4, <1>5, NumberRead
<1>7. h = [kind |-> "integer", n |-> r.got]
  BY <1>6 DEF Finds
<1>8. g = IF r.ok THEN [r EXCEPT !.got = Reading(h, 0)] ELSE r
  BY <1>3, <1>7, Zenon
<1>9. Finds(d, g, b, c, Reading(h, 0))
  BY <1>6, <1>8, LeafFinds
<1>10. c = c + 0 /\ 2 \in Nat /\ 0 \in Nat
  OBVIOUS
<1> QED BY <1>2, <1>4, <1>5, <1>9, <1>10, Sums, Zenon

LEMMA FloatTaken ==
  ASSUME NEW w \in Seq(Int), NEW a \in Nat, NEW c \in Nat, NEW d, Stands(d, w, a, c),
         NEW x \in Int, x # NotFinite, NEW h, h = [kind |-> "float", n |-> x],
         Ahead(w, a, Body(h, 0))
  PROVE  Taken(d, GetKind(d, 3), h, 0, a, c)
<1>1. PICK q : q = Number(d, Float64)
  OBVIOUS
<1>2. PICK r : r = IF q.ok THEN Check(q, q.got # NotFinite) ELSE q
  OBVIOUS
<1>3. PICK g : g = GetKind(d, 3)
  OBVIOUS
<1>4. g = IF r.ok THEN [r EXCEPT !.got = Reading([kind |-> "float", n |-> r.got], 0)] ELSE r
  BY <1>1, <1>2, <1>3 DEF GetKind, Tags, Leaf, Then
<1>5. Body(h, 0) = <<Float64, x>> /\ Len(Body(h, 0)) = 2 /\ Weight(h) = 0 /\ Float64 \in Int
  BY DEF Body, Weight, Float64
<1>6. PICK b \in Nat : b = a + 2
  OBVIOUS
<1>7. Finds(d, q, b, c, x)
  BY <1>1, <1>5, <1>6, NumberRead
<1>8. r = q /\ r.got = x
  BY <1>2, <1>7 DEF Finds, Check
<1>9. h = [kind |-> "float", n |-> r.got]
  BY <1>8
<1>10. g = IF r.ok THEN [r EXCEPT !.got = Reading(h, 0)] ELSE r
  BY <1>4, <1>9, Zenon
<1>11. Finds(d, g, b, c, Reading(h, 0))
  BY <1>7, <1>8, <1>10, LeafFinds
<1>12. c = c + 0 /\ 2 \in Nat /\ 0 \in Nat
  OBVIOUS
<1> QED BY <1>3, <1>5, <1>6, <1>11, <1>12, Sums, Zenon

LEMMA StringTaken ==
  ASSUME NEW w \in Seq(Int), NEW a \in Nat, NEW c \in Nat, NEW d, Stands(d, w, a, c),
         NEW x \in Texts, NEW h, h = [kind |-> "string", s |-> x],
         Ahead(w, a, Body(h, 0)), Allowed(c, Len(x), MaxString)
  PROVE  Taken(d, GetKind(d, 4), h, 0, a, c)
<1>1. PICK r : r = GetString(d)
  OBVIOUS
<1>2. PICK g : g = GetKind(d, 4)
  OBVIOUS
<1>3. g = IF r.ok THEN [r EXCEPT !.got = Reading([kind |-> "string", s |-> r.got], 0)] ELSE r
  BY <1>1, <1>2 DEF GetKind, Tags, Leaf, Then
<1>4. Body(h, 0) = Block(Str32, x) /\ Weight(h) = Len(x)
  BY DEF Body, Weight
<1>5. x \in Seq(Int) /\ Str32 \in Int
  BY DEF Texts, Str32
<1>6. PICK n \in Nat : n = Len(x)
  BY <1>5
<1>7. PICK m \in Nat : m = n + 2
  OBVIOUS
<1>8. Len(Body(h, 0)) = m /\ Weight(h) = n
  BY <1>4, <1>5, <1>6, <1>7, BlockIs
<1>9. a + m = a + 2 + n
  BY <1>7
<1>10. Finds(d, r, a + m, c + n, x)
  BY <1>1, <1>4, <1>6, <1>9, StringRead
<1>11. h = [kind |-> "string", s |-> r.got]
  BY <1>10 DEF Finds
<1>12. g = IF r.ok THEN [r EXCEPT !.got = Reading(h, 0)] ELSE r
  BY <1>3, <1>11, Zenon
<1>13. Finds(d, g, a + m, c + n, Reading(h, 0))
  BY <1>10, <1>12, LeafFinds
<1> QED BY <1>2, <1>8, <1>13, Sums, Zenon

LEMMA BytesTaken ==
  ASSUME NEW w \in Seq(Int), NEW a \in Nat, NEW c \in Nat, NEW d, Stands(d, w, a, c),
         NEW x \in Seq(Int), NEW h, h = [kind |-> "bytes", s |-> x],
         Ahead(w, a, Body(h, 0)), Allowed(c, Len(x), MaxBytes)
  PROVE  Taken(d, GetKind(d, 5), h, 0, a, c)
<1>1. PICK r : r = GetBytes(d)
  OBVIOUS
<1>2. PICK g : g = GetKind(d, 5)
  OBVIOUS
<1>3. g = IF r.ok THEN [r EXCEPT !.got = Reading([kind |-> "bytes", s |-> r.got], 0)] ELSE r
  BY <1>1, <1>2 DEF GetKind, Tags, Leaf, Then
<1>4. Body(h, 0) = Block(Bin32, x) /\ Weight(h) = Len(x)
  BY DEF Body, Weight
<1>5. Bin32 \in Int
  BY DEF Bin32
<1>6. PICK n \in Nat : n = Len(x)
  OBVIOUS
<1>7. PICK m \in Nat : m = n + 2
  OBVIOUS
<1>8. Len(Body(h, 0)) = m /\ Weight(h) = n
  BY <1>4, <1>5, <1>6, <1>7, BlockIs
<1>9. a + m = a + 2 + n
  BY <1>7
<1>10. Finds(d, r, a + m, c + n, x)
  BY <1>1, <1>4, <1>6, <1>9, BytesRead
<1>11. h = [kind |-> "bytes", s |-> r.got]
  BY <1>10 DEF Finds
<1>12. g = IF r.ok THEN [r EXCEPT !.got = Reading(h, 0)] ELSE r
  BY <1>3, <1>11, Zenon
<1>13. Finds(d, g, a + m, c + n, Reading(h, 0))
  BY <1>10, <1>12, LeafFinds
<1> QED BY <1>2, <1>8, <1>13, Sums, Zenon

\* An array, or a map: what follows is its parts.
LEMMA NodeTaken ==
  ASSUME NEW w \in Seq(Int), NEW a \in Nat, NEW c \in Nat, NEW d, Stands(d, w, a, c),
         NEW n \in Nat, n <= MaxEntries, NEW kind \in {"array", "map"}, NEW h,
         h = [kind |-> kind], Ahead(w, a, Body(h, n))
  PROVE  Taken(d, GetNode(d, kind), h, n, a, c)
<1>1. PICK r : r = Entries(d)
  OBVIOUS
<1>2. PICK g : g = GetNode(d, kind)
  OBVIOUS
<1>3. g = IF r.ok THEN [r EXCEPT !.got = Reading(h, r.got)] ELSE r
  BY <1>1, <1>2 DEF GetNode, Then
<1>4. Body(h, n) = <<Array32, n>> /\ Len(Body(h, n)) = 2 /\ Weight(h) = 0
  <2>1. CASE kind = "array"
    BY <2>1 DEF Body, Weight
  <2>2. CASE kind = "map"
    BY <2>2 DEF Body, Weight
  <2> QED BY <2>1, <2>2
<1>5. Finds(d, r, a + 2, c, n)
  BY <1>1, <1>4, EntriesRead
<1>6. r.ok /\ r.got = n
  <2>1. Runs(r) /\ r.got = n
    BY <1>5 DEF Finds
  <2> QED BY <2>1, Counts
<1>7. PICK y : y = Reading(h, n)
  OBVIOUS
<1>8. g = [r EXCEPT !.got = y]
  BY <1>3, <1>6, <1>7
<1>9. Finds(d, g, a + 2, c, y)
  BY <1>5, <1>8, Handed
<1>10. c = c + 0 /\ 2 \in Nat /\ 0 \in Nat
  OBVIOUS
<1> QED BY <1>2, <1>4, <1>7, <1>9, <1>10, Sums, Zenon

LEMMA WireCodeIs ==
  ASSUME NEW c \in Codes
  PROVE  /\ WireCode(c) \in Texts /\ Len(WireCode(c)) = 1
         /\ IsWireCode(WireCode(c)) /\ ErrorCodes[WireCode(c)[1]] = c
<1>1. PICK i : i = CHOOSE j \in 1..Len(ErrorCodes) : ErrorCodes[j] = c
  OBVIOUS
<1>2. \E j \in 1..Len(ErrorCodes) : ErrorCodes[j] = c
  BY DEF Codes
<1>3. i \in 1..Len(ErrorCodes) /\ ErrorCodes[i] = c
  BY <1>1, <1>2
<1>4. WireCode(c) = <<i>>
  BY <1>1 DEF WireCode
<1>5. Len(ErrorCodes) = 9
  BY DEF ErrorCodes
<1>6. i \in Int \ {NotUtf8}
  BY <1>3, <1>5 DEF NotUtf8
<1>7. <<i>> \in Texts /\ Len(<<i>>) = 1 /\ <<i>>[1] = i
  BY <1>6 DEF Texts
<1> QED BY <1>3, <1>4, <1>7 DEF IsWireCode

LEMMA ErrorTaken ==
  ASSUME NEW w \in Seq(Int), NEW a \in Nat, NEW c \in Nat, NEW d, Stands(d, w, a, c),
         NEW x \in Codes, NEW h, h = [kind |-> "error", code |-> x],
         Ahead(w, a, Body(h, 0))
  PROVE  Taken(d, GetKind(d, 9), h, 0, a, c)
<1>1. PICK q : q = Metadata(d)
  OBVIOUS
<1>2. PICK r : r = IF q.ok THEN Check(q, IsWireCode(q.got)) ELSE q
  OBVIOUS
<1>3. PICK g : g = GetKind(d, 9)
  OBVIOUS
<1>4. g = IF r.ok
          THEN [r EXCEPT !.got = Reading([kind |-> "error", code |-> ErrorCodes[r.got[1]]], 0)]
          ELSE r
  BY <1>1, <1>2, <1>3 DEF GetKind, Tags, Leaf, Then
<1>5. PICK t : t = WireCode(x)
  OBVIOUS
<1>6. t \in Texts /\ t \in Seq(Int) /\ Len(t) = 1 /\ IsWireCode(t) /\ ErrorCodes[t[1]] = x
  BY <1>5, WireCodeIs DEF Texts
<1>7. Body(h, 0) = Block(Str32, t) /\ Weight(h) = 0 /\ Str32 \in Int
  BY <1>5 DEF Body, Weight, Str32
<1>8. Len(Body(h, 0)) = 3
  <2>1. Len(Block(Str32, t)) = Len(t) + 2
    BY <1>6, <1>7, BlockIs
  <2> QED BY <1>6, <1>7, <2>1
<1>9. Finds(d, q, a + 3, c, t)
  <2>1. Len(t) <= MaxName
    <3>1. MaxName \in Nat /\ MaxName > 0
      BY LimitsAssumption
    <3>2. 1 <= MaxName
      BY <3>1
    <3> QED BY <1>6, <3>2
  <2>2. Finds(d, q, a + 2 + Len(t), c, t)
    BY <1>1, <1>6, <1>7, <2>1, MetadataRead
  <2>3. a + 2 + Len(t) = a + 3
    BY <1>6
  <2> QED BY <2>2, <2>3
<1>10. r = q /\ r.got = t
  BY <1>2, <1>6, <1>9 DEF Finds, Check
<1>11. h = [kind |-> "error", code |-> ErrorCodes[r.got[1]]]
  BY <1>6, <1>10
<1>12. g = IF r.ok THEN [r EXCEPT !.got = Reading(h, 0)] ELSE r
  BY <1>4, <1>11, Zenon
<1>13. Finds(d, g, a + 3, c, Reading(h, 0))
  BY <1>9, <1>10, <1>12, LeafFinds
<1>14. c = c + 0 /\ 3 \in Nat /\ 0 \in Nat
  OBVIOUS
<1> QED BY <1>3, <1>7, <1>8, <1>13, <1>14, Sums, Zenon

LEMMA FindsGot ==
  ASSUME NEW d, NEW e, NEW a, NEW c, NEW x, Finds(d, e, a, c, x)
  PROVE  e.ok /\ e.got = x /\ Runs(e)
  BY Counts DEF Finds

LEMMA FindsStands ==
  ASSUME NEW w, NEW a, NEW c, NEW d, Stands(d, w, a, c),
         NEW e, NEW b, NEW k, NEW x, Finds(d, e, b, k, x)
  PROVE  Stands(e, w, b, k)
  BY DEF Finds, Stands

LEMMA FindsTwice ==
  ASSUME NEW d, NEW e, NEW a, NEW c, NEW x, Finds(d, e, a, c, x),
         NEW f, NEW b, NEW k, NEW y, Finds(e, f, b, k, y)
  PROVE  Finds(d, f, b, k, y)
  BY DEF Finds

LEMMA HandleTaken ==
  ASSUME NEW w \in Seq(Int), NEW a \in Nat, NEW c \in Nat, NEW d, Stands(d, w, a, c),
         NEW i \in Nat, NEW j \in Nat, NEW x \in Texts, IsHandle(i, j, x),
         NEW h, h = [kind |-> "handle", id |-> i, generation |-> j, name |-> x],
         Ahead(w, a, Body(h, 0))
  PROVE  Taken(d, GetKind(d, 8), h, 0, a, c)
<1>1. PICK y : y = Expect(d, Triple)
  OBVIOUS
<1>2. PICK e : e = Number(y, Uint64)
  OBVIOUS
<1>3. PICK f : f = Number(e, Uint64)
  OBVIOUS
<1>4. PICK q : q = Metadata(f)
  OBVIOUS
<1>5. PICK r : r = Check(q, IsHandle(e.got, f.got, q.got))
  OBVIOUS
<1>6. PICK g : g = GetKind(d, 8)
  OBVIOUS
<1>7. x \in Seq(Int) /\ Str32 \in Int /\ Triple \in Int /\ Uint64 \in Int
  BY DEF Texts, Str32, Triple, Uint64
<1>8. PICK n \in Nat : n = Len(x)
  BY <1>7
<1>9. PICK t : t = Block(Str32, x)
  OBVIOUS
<1>10. t \in Seq(Int) /\ Len(t) = n + 2
  BY <1>7, <1>8, <1>9, BlockIs
<1>11. Body(h, 0) = <<Triple, Uint64, i, Uint64, j>> \o t /\ Weight(h) = 0
  BY <1>9 DEF Body, Weight
<1>12. PICK l : l = <<Triple, Uint64, i, Uint64, j>>
  OBVIOUS
<1>13. /\ l \in Seq(Int) /\ Len(l) = 5 /\ l[1] = Triple /\ l[2] = Uint64 /\ l[3] = i
       /\ l[4] = Uint64 /\ l[5] = j
  BY <1>7, <1>12
<1>14. Ahead(w, a, l) /\ Ahead(w, a + 5, t) /\ Len(l \o t) = n + 7
  <2>1. Ahead(w, a, l) /\ Ahead(w, a + Len(l), t)
    <3>1. Ahead(w, a, l \o t)
      BY <1>11, <1>12
    <3>2. l \in Seq(Int) /\ t \in Seq(Int)
      BY <1>10, <1>13
    <3> QED BY <3>1, <3>2, AheadOfBoth
  <2>2. Len(l \o t) = Len(l) + Len(t)
    BY <1>10, <1>13, ConcatProperties
  <2> QED BY <1>10, <1>13, <2>1, <2>2
<1>15. /\ a + 5 <= Len(w) /\ w[a + 1] = Triple /\ w[a + 2] = Uint64 /\ w[a + 3] = i
       /\ w[a + 4] = Uint64 /\ w[a + 5] = j
  BY <1>13, <1>14 DEF Ahead
<1>16. Finds(d, y, a + 1, c, <<Triple>>)
  <2>1. a + 1 <= Len(w)
    BY <1>15
  <2> QED BY <1>1, <1>7, <1>15, <2>1, ExpectFinds DEF Stands
<1>17. PICK a1 \in Nat, a3 \in Nat, a5 \in Nat : a1 = a + 1 /\ a3 = a + 3 /\ a5 = a + 5
  OBVIOUS
<1>18. Finds(y, e, a3, c, i)
  <2>1. Stands(y, w, a1, c)
    BY <1>16, <1>17, FindsStands
  <2>2. a1 + 2 = a3 /\ a1 + 2 <= Len(w) /\ w[a1 + 1] = Uint64 /\ w[a1 + 2] = i
    BY <1>15, <1>17
  <2>3. Uint64 \in Int /\ i \in Int
    BY <1>7
  <2>4. Finds(y, Number(y, Uint64), a3, c, i)
    BY <2>1, <2>2, <2>3, NumberHere
  <2> QED BY <1>2, <2>4
<1>19. Finds(e, f, a5, c, j)
  <2>1. Stands(e, w, a3, c)
    BY <1>16, <1>17, <1>18, FindsStands
  <2>2. a3 + 2 = a5 /\ a3 + 2 <= Len(w) /\ w[a3 + 1] = Uint64 /\ w[a3 + 2] = j
    BY <1>15, <1>17
  <2>3. Uint64 \in Int /\ j \in Int
    BY <1>7
  <2>4. Finds(e, Number(e, Uint64), a5, c, j)
    BY <2>1, <2>2, <2>3, NumberHere
  <2> QED BY <1>3, <2>4
<1>20. Finds(f, q, a + 7 + n, c, x)
  <2>1. Stands(f, w, a5, c)
    BY <1>16, <1>17, <1>18, <1>19, FindsStands
  <2>2. Ahead(w, a5, Block(Str32, x))
    BY <1>9, <1>14, <1>17
  <2>3. Len(x) <= MaxName
    <3>1. Len(x) \in 1..MaxName
      BY DEF IsHandle, IsTypeName
    <3>2. MaxName \in Nat
      BY LimitsAssumption
    <3> QED BY <1>8, <3>1, <3>2
  <2>4. Finds(f, Metadata(f), a5 + 2 + Len(x), c, x)
    BY <2>1, <2>2, <2>3, MetadataRead
  <2>5. a5 + 2 + Len(x) = a + 7 + n
    BY <1>8, <1>17
  <2> QED BY <1>4, <2>4, <2>5
<1>21. e.ok /\ e.got = i /\ f.ok /\ f.got = j /\ q.ok /\ q.got = x
  BY <1>18, <1>19, <1>20, FindsGot
<1>22. r = q
  BY <1>5, <1>21 DEF Check
<1>23. g = IF r.ok
           THEN [r EXCEPT !.got = Reading(
                   [kind |-> "handle", id |-> e.got, generation |-> f.got, name |-> r.got], 0)]
           ELSE r
  <2>1. GetKind(d, 8) = GetHandle(d)
    BY DEF GetKind, Tags, Leaf, Then
  <2>2. GetHandle(d) =
          IF e.ok THEN (IF f.ok THEN (IF q.ok THEN
            (IF r.ok
             THEN [r EXCEPT !.got = Reading(
                     [kind |-> "handle", id |-> e.got, generation |-> f.got, name |-> r.got], 0)]
             ELSE r)
            ELSE q) ELSE f) ELSE e
    BY <1>1, <1>2, <1>3, <1>4, <1>5 DEF GetHandle, Leaf, Then
  <2> QED BY <1>6, <1>21, <2>1, <2>2
<1>24. h = [kind |-> "handle", id |-> e.got, generation |-> f.got, name |-> r.got]
  BY <1>21, <1>22
<1>25. g = IF r.ok THEN [r EXCEPT !.got = Reading(h, 0)] ELSE r
  BY <1>23, <1>24, Zenon
<1>26. PICK m \in Nat : m = n + 7
  OBVIOUS
<1>27. Finds(d, r, a + m, c + 0, x)
  <2>1. Finds(d, q, a + 7 + n, c, x)
    BY <1>16, <1>18, <1>19, <1>20, FindsTwice
  <2>2. a + 7 + n = a + m /\ c = c + 0
    BY <1>26
  <2> QED BY <1>22, <2>1, <2>2
<1>28. Finds(d, g, a + m, c + 0, Reading(h, 0))
  BY <1>25, <1>27, LeafFinds
<1>29. Len(Body(h, 0)) = m /\ Weight(h) = 0 /\ 0 \in Nat
  BY <1>11, <1>12, <1>14, <1>26
<1> QED BY <1>6, <1>26, <1>28, <1>29, Sums, Zenon

-----------------------------------------------------------------------------
\* What the decoder finds behind a tag is what the encoder writes there.

HeadOf(v) == IF v.kind \in {"array", "map"} THEN [kind |-> v.kind] ELSE v

LEMMA KindTaken ==
  ASSUME NEW w \in Seq(Int), NEW a \in Nat, NEW c \in Nat, NEW d, Stands(d, w, a, c),
         NEW U, NEW v \in Nodes(U), NEW h, h = HeadOf(v), NEW n, n = Len(Parts(v)),
         Ahead(w, a, Body(h, n)), Fine(h, n, c)
  PROVE  Taken(d, GetKind(d, Tag(v)), h, n, a, c)
<1>1. CASE v = [kind |-> "null"]
  <2>1. h = v /\ n = 0 /\ Tag(v) = 0
    BY <1>1 DEF HeadOf, Parts, Tag, Tags
  <2> QED BY <1>1, <2>1, NullTaken
<1>2. ASSUME NEW x \in BOOLEAN, v = [kind |-> "bool", b |-> x]
      PROVE  Taken(d, GetKind(d, Tag(v)), h, n, a, c)
  <2>1. h = v /\ n = 0 /\ Tag(v) = 1
    BY <1>2 DEF HeadOf, Parts, Tag, Tags
  <2> QED BY <1>2, <2>1, BoolTaken
<1>3. ASSUME NEW x \in Int, v = [kind |-> "integer", n |-> x]
      PROVE  Taken(d, GetKind(d, Tag(v)), h, n, a, c)
  <2>1. h = v /\ n = 0 /\ Tag(v) = 2
    BY <1>3 DEF HeadOf, Parts, Tag, Tags
  <2> QED BY <1>3, <2>1, IntegerTaken
<1>4. ASSUME NEW x \in Int, v = [kind |-> "float", n |-> x]
      PROVE  Taken(d, GetKind(d, Tag(v)), h, n, a, c)
  <2>1. h = v /\ n = 0 /\ Tag(v) = 3
    BY <1>4 DEF HeadOf, Parts, Tag, Tags
  <2>2. x # NotFinite
    BY <1>4, <2>1 DEF Fine
  <2> QED BY <1>4, <2>1, <2>2, FloatTaken
<1>5. ASSUME NEW x \in Texts, v = [kind |-> "string", s |-> x]
      PROVE  Taken(d, GetKind(d, Tag(v)), h, n, a, c)
  <2>1. h = v /\ n = 0 /\ Tag(v) = 4
    BY <1>5 DEF HeadOf, Parts, Tag, Tags
  <2>2. Allowed(c, Len(x), MaxString)
    BY <1>5, <2>1 DEF Fine
  <2> QED BY <1>5, <2>1, <2>2, StringTaken
<1>6. ASSUME NEW x \in Seq(Int), v = [kind |-> "bytes", s |-> x]
      PROVE  Taken(d, GetKind(d, Tag(v)), h, n, a, c)
  <2>1. h = v /\ n = 0 /\ Tag(v) = 5
    BY <1>6 DEF HeadOf, Parts, Tag, Tags
  <2>2. Allowed(c, Len(x), MaxBytes)
    BY <1>6, <2>1 DEF Fine
  <2> QED BY <1>6, <2>1, <2>2, BytesTaken
<1>7. ASSUME NEW i \in Nat, NEW j \in Nat, NEW x \in Texts,
             v = [kind |-> "handle", id |-> i, generation |-> j, name |-> x]
      PROVE  Taken(d, GetKind(d, Tag(v)), h, n, a, c)
  <2>1. h = v /\ n = 0 /\ Tag(v) = 8
    BY <1>7 DEF HeadOf, Parts, Tag, Tags
  <2>2. IsHandle(i, j, x)
    BY <1>7, <2>1 DEF Fine
  <2> QED BY <1>7, <2>1, <2>2, HandleTaken
<1>8. ASSUME NEW x \in Codes, v = [kind |-> "error", code |-> x]
      PROVE  Taken(d, GetKind(d, Tag(v)), h, n, a, c)
  <2>1. h = v /\ n = 0 /\ Tag(v) = 9
    BY <1>8 DEF HeadOf, Parts, Tag, Tags
  <2> QED BY <1>8, <2>1, ErrorTaken
<1>9. ASSUME NEW s \in Seq(U), v = [kind |-> "array", items |-> s]
      PROVE  Taken(d, GetKind(d, Tag(v)), h, n, a, c)
  <2>1. h = [kind |-> "array"] /\ Tag(v) = 6 /\ Parts(v) = s
    BY <1>9 DEF HeadOf, Parts, Tag, Tags
  <2>2. n \in Nat /\ n <= MaxEntries
    BY <2>1 DEF Fine
  <2>3. GetKind(d, 6) = GetNode(d, "array")
    BY DEF GetKind, Tags, Leaf, Then
  <2>4. Taken(d, GetNode(d, "array"), h, n, a, c)
    BY <2>1, <2>2, NodeTaken
  <2> QED BY <2>1, <2>3, <2>4
<1>10. ASSUME NEW s \in Seq([key : Texts, val : U]), v = [kind |-> "map", entries |-> s]
      PROVE  Taken(d, GetKind(d, Tag(v)), h, n, a, c)
  <2>1. h = [kind |-> "map"] /\ Tag(v) = 7 /\ Parts(v) = s
    BY <1>10 DEF HeadOf, Parts, Tag, Tags
  <2>2. n \in Nat /\ n <= MaxEntries
    BY <2>1 DEF Fine
  <2>3. GetKind(d, 7) = GetNode(d, "map")
    BY DEF GetKind, Tags, Leaf, Then
  <2>4. Taken(d, GetNode(d, "map"), h, n, a, c)
    BY <2>1, <2>2, NodeTaken
  <2> QED BY <2>1, <2>3, <2>4
<1>11. v \in Scalars => Taken(d, GetKind(d, Tag(v)), h, n, a, c)
  BY <1>1, <1>2, <1>3, <1>4, <1>5, <1>6, <1>7, <1>8, ScalarShapes
<1> QED BY <1>9, <1>10, <1>11, Shapes

LEMMA OneMore ==
  ASSUME NEW i \in Nat
  PROVE  \E k \in Nat : k = i + 1
  OBVIOUS

LEMMA LessIs ==
  ASSUME NEW i \in Nat, NEW j \in Nat
  PROVE  i < j <=> ~(i >= j)
  OBVIOUS

\* Behind the pair, its tag, and behind the tag the value.
LEMMA TagTaken ==
  ASSUME NEW w \in Seq(Int), NEW a \in Nat, NEW c \in Nat, NEW f, Stands(f, w, a, c),
         NEW U, NEW v \in Nodes(U), NEW h, h = HeadOf(v), NEW n, n = Len(Parts(v)),
         Tag(v) \in Int, Ahead(w, a, <<Pair, Tag(v)>>), Ahead(w, a + 2, Body(h, n)),
         Fine(h, n, c), NEW e, e = Read(Expect(f, Pair), 1),
         NEW g, g = IF e.ok THEN GetKind(e, e.got[1]) ELSE e
  PROVE  Taken(f, g, h, n, a + 2, c)
<1>1. PICK x : x = Expect(f, Pair)
  OBVIOUS
<1>2. Pair \in Int
  BY DEF Pair
<1>3. a + 2 <= Len(w) /\ w[a + 1] = Pair /\ w[a + 2] = Tag(v)
  BY <1>2, TwoAhead
<1>4. PICK b \in Nat, a2 \in Nat : b = a + 1 /\ a2 = a + 2
  OBVIOUS
<1>5. b <= Len(w) /\ b + 1 <= Len(w) /\ b + 1 = a2
  BY <1>3, <1>4
<1>6. Finds(f, x, b, c, <<Pair>>)
  BY <1>1, <1>2, <1>3, <1>4, <1>5, ExpectFinds DEF Stands
<1>7. Stands(x, w, b, c)
  BY <1>6, FindsStands
<1>8. Finds(x, e, a2, c, <<Tag(v)>>)
  <2>1. Finds(x, e, b + 1, c, SubSeq(w, b + 1, b + 1))
    BY <1>1, <1>5, <1>7, ReadFinds DEF Stands
  <2>2. SubSeq(w, a2, a2) = <<w[a2]>>
    <3>1. a2 \in 1..Len(w)
      BY <1>4, <1>5
    <3> QED BY <3>1, Single
  <2> QED BY <1>3, <1>4, <1>5, <2>1, <2>2
<1>9. e.ok /\ e.got[1] = Tag(v) /\ Stands(e, w, a2, c)
  <2>1. e.ok /\ e.got = <<Tag(v)>>
    BY <1>8, FindsGot
  <2>2. Stands(e, w, a2, c)
    BY <1>7, <1>8, FindsStands
  <2> QED BY <2>1, <2>2
<1>10. g = GetKind(e, Tag(v))
  BY <1>9
<1>11. Taken(e, g, h, n, a2, c)
  BY <1>4, <1>9, <1>10, KindTaken
<1>12. Taken(f, g, h, n, a2, c)
  BY <1>6, <1>8, <1>11, FindsTwice DEF Taken
<1> QED BY <1>4, <1>12

LEMMA GetTaken ==
  ASSUME NEW w \in Seq(Int), NEW a \in Nat, NEW c \in Nat, NEW d, Stands(d, w, a, c),
         NEW U, NEW v \in Nodes(U), NEW h, h = HeadOf(v), NEW n, n = Len(Parts(v)),
         Tag(v) \in Int, Ahead(w, a, <<Pair, Tag(v)>>), Ahead(w, a + 2, Body(h, n)),
         Fine(h, n, c), NEW depth, ~TooDeep(depth), d.values < MaxValues,
         NEW f, f = [d EXCEPT !.values = @ + 1]
  PROVE  Taken(f, Get(d, depth), h, n, a + 2, c)
<1>1. PICK e : e = Read(Expect(f, Pair), 1)
  OBVIOUS
<1>2. d.values \in Nat /\ MaxValues \in Nat
  BY LimitsAssumption DEF Stands, Runs
<1>3. PICK g : g = IF e.ok THEN GetKind(e, e.got[1]) ELSE e
  OBVIOUS
<1>4. Get(d, depth) = g
  <2>1. ~(d.values >= MaxValues)
    BY <1>2, LessIs
  <2> QED BY <1>1, <1>3, <2>1 DEF Get, Then
<1>5. Stands(f, w, a, c)
  <2>1. PICK k \in Nat : k = d.values + 1
    BY <1>2, OneMore
  <2>2. f = [d EXCEPT !.values = k]
    BY <2>1
  <2> QED BY <2>2 DEF Stands, Runs, IsDecoder
<1>6. Taken(f, g, h, n, a + 2, c)
  BY <1>1, <1>3, <1>5, TagTaken
<1> QED BY <1>4, <1>6

\* The key before a part of a map, and nothing before a part of an array.
LEMMA KeyRead ==
  ASSUME NEW w \in Seq(Int), NEW a \in Nat, NEW c \in Nat, NEW d, Stands(d, w, a, c),
         Top(d).head.kind = "map", NEW t \in Texts, Ahead(w, a, <<Pair>>),
         Ahead(w, a + 1, Block(Str32, t)), Allowed(c, Len(t), MaxString),
         \A i \in 1..Len(Top(d).keys) : Top(d).keys[i] # t
  PROVE  Finds(d, GetKey(d), a + 1 + 2 + Len(t), c + Len(t), t)
<1>1. PICK x : x = Expect(d, Pair)
  OBVIOUS
<1>2. PICK e : e = GetString(x)
  OBVIOUS
<1>3. GetKey(d) = IF e.ok THEN Check(e, \A i \in 1..Len(Top(d).keys) : Top(d).keys[i] # e.got)
                          ELSE e
  BY <1>1, <1>2 DEF GetKey, Then
<1>4. PICK b \in Nat : b = a + 1
  OBVIOUS
<1>5. Pair \in Int
  BY DEF Pair
<1>6. Finds(d, x, b, c, <<Pair>>)
  BY <1>1, <1>4, <1>5, MarkerRead
<1>7. Stands(x, w, b, c)
  BY <1>6, FindsStands
<1>8. Finds(x, e, b + 2 + Len(t), c + Len(t), t)
  BY <1>2, <1>4, <1>7, StringRead
<1>9. e.ok /\ e.got = t
  BY <1>8, FindsGot
<1>10. GetKey(d) = e
  BY <1>3, <1>9 DEF Check
<1>11. Finds(d, e, b + 2 + Len(t), c + Len(t), t)
  BY <1>6, <1>8, FindsTwice
<1> QED BY <1>4, <1>10, <1>11

LEMMA NoKeyRead ==
  ASSUME NEW w, NEW a, NEW c, NEW d, Stands(d, w, a, c), Top(d).head.kind # "map"
  PROVE  Finds(d, GetKey(d), a, c, <<>>)
<1>1. PICK f : f = [d EXCEPT !.got = <<>>]
  OBVIOUS
<1>2. GetKey(d) = f
  BY <1>1 DEF GetKey
<1>3. Finds(d, f, d.at, d.content, <<>>)
  BY <1>1, GotReplaced DEF Stands
<1> QED BY <1>2, <1>3 DEF Stands

-----------------------------------------------------------------------------
\* What one step of the encoder does.

IsEncoder(e) ==
  e = [stack |-> e.stack, out |-> e.out, content |-> e.content, values |-> e.values,
       ok |-> e.ok]

Broke(e) == IsEncoder(e) /\ ~e.ok
Writes(e) ==
  IsEncoder(e) /\ e.ok /\ e.out \in Seq(Int) /\ e.content \in Nat /\ e.values \in Nat

\* It has written o, with c bytes of content so far.
Wrote(e, g, o, c) ==
  Writes(g) /\ g.out = o /\ g.content = c /\ g.values = e.values /\ g.stack = e.stack

LEMMA Breaks ==
  ASSUME NEW e, IsEncoder(e)
  PROVE  Broke(Fail(e))
<1>1. PICK g : g = Fail(e)
  OBVIOUS
<1>2. IsEncoder(g)
  BY <1>1 DEF IsEncoder, Fail
<1>3. ~g.ok
  BY <1>1 DEF IsEncoder, Fail
<1> QED BY <1>1, <1>2, <1>3 DEF Broke

LEMMA BrokenEmits ==
  ASSUME NEW e, Broke(e), NEW t
  PROVE  Broke(Emit(e, t))
<1>1. PICK o : o = e.out \o t
  OBVIOUS
<1>2. PICK g : g = [e EXCEPT !.out = o]
  OBVIOUS
<1>3. Broke(g)
  BY <1>2 DEF Broke, IsEncoder
<1> QED BY <1>1, <1>2, <1>3 DEF Emit

LEMMA BrokenAdds ==
  ASSUME NEW e, Broke(e), NEW n, NEW limit
  PROVE  Broke(AddContent(e, n, limit))
<1>1. PICK c : c = e.content + n
  OBVIOUS
<1>2. PICK g : g = [e EXCEPT !.content = c]
  OBVIOUS
<1>3. Broke(g)
  BY <1>2 DEF Broke, IsEncoder
<1>4. Broke(Fail(e))
  BY Breaks DEF Broke
<1> QED BY <1>1, <1>2, <1>3, <1>4 DEF AddContent

LEMMA EmitWrites ==
  ASSUME NEW e, Writes(e), NEW t \in Seq(Int)
  PROVE  Wrote(e, Emit(e, t), e.out \o t, e.content)
<1>1. PICK o \in Seq(Int) : o = e.out \o t
  <2>1. e.out \o t \in Seq(Int)
    BY ConcatProperties DEF Writes
  <2> QED BY <2>1
<1>2. PICK g : g = [e EXCEPT !.out = o]
  OBVIOUS
<1>3. Wrote(e, g, o, e.content)
  BY <1>2 DEF Writes, IsEncoder, Wrote
<1> QED BY <1>1, <1>2, <1>3 DEF Emit

LEMMA ContentWrites ==
  ASSUME NEW e, Writes(e), NEW n \in Nat, NEW limit \in Nat
  PROVE  IF Allowed(e.content, n, limit)
         THEN Wrote(e, AddContent(e, n, limit), e.out, e.content + n)
         ELSE Broke(AddContent(e, n, limit))
<1>1. PICK b \in Nat : b = e.content
  BY DEF Writes
<1>2. PICK c \in Nat : c = b + n
  OBVIOUS
<1>3. PICK g : g = [e EXCEPT !.content = c]
  OBVIOUS
<1>4. AddContent(e, n, limit) = IF n > limit \/ c > MaxContent THEN Fail(e) ELSE g
  BY <1>1, <1>2, <1>3 DEF AddContent
<1>5. MaxContent \in Nat
  BY LimitsAssumption
<1>6. n > limit \/ c > MaxContent <=> ~(n <= limit /\ c <= MaxContent)
  BY <1>5
<1>7. Allowed(e.content, n, limit) <=> n <= limit /\ c <= MaxContent
  BY <1>1, <1>2 DEF Allowed
<1>8. Wrote(e, g, e.out, c)
  BY <1>3 DEF Writes, IsEncoder, Wrote
<1>9. Broke(Fail(e))
  BY Breaks DEF Writes
<1> QED BY <1>1, <1>2, <1>4, <1>6, <1>7, <1>8, <1>9

LEMMA WroteTwice ==
  ASSUME NEW e, NEW f, NEW o, NEW c, Wrote(e, f, o, c), NEW g, NEW p, NEW k, Wrote(f, g, p, k)
  PROVE  Wrote(e, g, p, k)
  BY DEF Wrote

LEMMA StringWrites ==
  ASSUME NEW e, Writes(e), NEW s \in Texts
  PROVE  IF Allowed(e.content, Len(s), MaxString)
         THEN Wrote(e, PutString(e, s), e.out \o Block(Str32, s), e.content + Len(s))
         ELSE Broke(PutString(e, s))
<1>1. s \in Seq(Int) /\ Len(s) \in Nat /\ MaxString \in Nat /\ Str32 \in Int
  BY LimitsAssumption DEF Texts, Str32
<1>2. PICK t : t = Block(Str32, s)
  OBVIOUS
<1>3. t \in Seq(Int)
  BY <1>1, <1>2, BlockIs
<1>4. PICK f : f = AddContent(e, Len(s), MaxString)
  OBVIOUS
<1>5. PutString(e, s) = Emit(f, t)
  BY <1>2, <1>4 DEF PutString, WriteString, Block
<1>6. CASE Allowed(e.content, Len(s), MaxString)
  <2>1. Wrote(e, f, e.out, e.content + Len(s))
    BY <1>1, <1>4, <1>6, ContentWrites
  <2>2. Wrote(f, Emit(f, t), f.out \o t, f.content)
    BY <1>3, <2>1, EmitWrites DEF Wrote
  <2>3. f.out = e.out /\ f.content = e.content + Len(s)
    BY <2>1 DEF Wrote
  <2> QED BY <1>2, <1>5, <1>6, <2>1, <2>2, <2>3, WroteTwice
<1>7. CASE ~Allowed(e.content, Len(s), MaxString)
  <2>1. Broke(f)
    BY <1>1, <1>4, <1>7, ContentWrites
  <2> QED BY <1>5, <1>7, <2>1, BrokenEmits
<1> QED BY <1>6, <1>7

LEMMA BytesWrite ==
  ASSUME NEW e, Writes(e), NEW s \in Seq(Int), NEW g,
         g = Emit(AddContent(e, Len(s), MaxBytes), <<Bin32, Len(s)>> \o s)
  PROVE  IF Allowed(e.content, Len(s), MaxBytes)
         THEN Wrote(e, g, e.out \o Block(Bin32, s), e.content + Len(s))
         ELSE Broke(g)
<1>1. Len(s) \in Nat /\ MaxBytes \in Nat /\ Bin32 \in Int
  BY LimitsAssumption DEF Bin32
<1>2. PICK t : t = Block(Bin32, s)
  OBVIOUS
<1>3. t \in Seq(Int)
  BY <1>1, <1>2, BlockIs
<1>4. PICK f : f = AddContent(e, Len(s), MaxBytes)
  OBVIOUS
<1>5. g = Emit(f, t)
  BY <1>2, <1>4 DEF Block
<1>6. CASE Allowed(e.content, Len(s), MaxBytes)
  <2>1. Wrote(e, f, e.out, e.content + Len(s))
    BY <1>1, <1>4, <1>6, ContentWrites
  <2>2. Wrote(f, Emit(f, t), f.out \o t, f.content)
    BY <1>3, <2>1, EmitWrites DEF Wrote
  <2>3. f.out = e.out /\ f.content = e.content + Len(s)
    BY <2>1 DEF Wrote
  <2> QED BY <1>2, <1>5, <1>6, <2>1, <2>2, <2>3, WroteTwice
<1>7. CASE ~Allowed(e.content, Len(s), MaxBytes)
  <2>1. Broke(f)
    BY <1>1, <1>4, <1>7, ContentWrites
  <2> QED BY <1>5, <1>7, <2>1, BrokenEmits
<1> QED BY <1>6, <1>7

LEMMA Joined ==
  ASSUME NEW s \in Seq(Int), NEW t \in Seq(Int), NEW u \in Seq(Int)
  PROVE  (s \o t) \o u = s \o (t \o u)
<1> DEFINE S == Int
<1>1. s \in Seq(S) /\ t \in Seq(S) /\ u \in Seq(S)
  OBVIOUS
<1> HIDE DEF S
<1> QED BY <1>1, ConcatAssociative

LEMMA HandleWrites ==
  ASSUME NEW e, Writes(e), NEW i \in Nat, NEW j \in Nat, NEW s \in Texts, NEW g,
         g = WriteString(Emit(e, <<Triple, Uint64, i, Uint64, j>>), s)
  PROVE  Wrote(e, g, e.out \o (<<Triple, Uint64, i, Uint64, j>> \o Block(Str32, s)), e.content)
<1>1. PICK l : l = <<Triple, Uint64, i, Uint64, j>>
  OBVIOUS
<1>2. PICK t : t = Block(Str32, s)
  OBVIOUS
<1>3. s \in Seq(Int) /\ Str32 \in Int /\ Triple \in Int /\ Uint64 \in Int
  BY DEF Texts, Str32, Triple, Uint64
<1>4. l \in Seq(Int) /\ t \in Seq(Int) /\ e.out \in Seq(Int)
  <2>1. t \in Seq(Int)
    BY <1>2, <1>3, BlockIs
  <2>2. l \in Seq(Int)
    BY <1>1, <1>3
  <2> QED BY <2>1, <2>2 DEF Writes
<1>5. PICK f : f = Emit(e, l)
  OBVIOUS
<1>6. g = Emit(f, t)
  BY <1>1, <1>2, <1>5 DEF WriteString, Block
<1>7. Wrote(e, f, e.out \o l, e.content)
  BY <1>4, <1>5, EmitWrites
<1>8. Wrote(f, g, f.out \o t, f.content)
  <2>1. Writes(f)
    BY <1>7 DEF Wrote
  <2> QED BY <1>4, <1>6, <2>1, EmitWrites
<1>9. f.out = e.out \o l /\ f.content = e.content
  BY <1>7 DEF Wrote
<1>10. (e.out \o l) \o t = e.out \o (l \o t)
  <2>1. PICK o \in Seq(Int) : o = e.out
    BY <1>4
  <2>2. (o \o l) \o t = o \o (l \o t)
    BY <1>4, Joined
  <2> QED BY <2>1, <2>2
<1>11. Wrote(e, g, (e.out \o l) \o t, e.content)
  BY <1>7, <1>8, <1>9, WroteTwice
<1> QED BY <1>1, <1>2, <1>10, <1>11

LEMMA Weightless ==
  ASSUME NEW e, Writes(e), NEW h, NEW n, NEW t, Body(h, n) = t, Weight(h) = 0,
         NEW g, Wrote(e, g, e.out \o t, e.content)
  PROVE  Wrote(e, g, e.out \o Body(h, n), e.content + Weight(h))
<1>1. PICK c \in Nat : c = e.content
  BY DEF Writes
<1>2. c = c + 0
  OBVIOUS
<1>3. Wrote(e, g, e.out \o t, c)
  BY <1>1
<1>4. Wrote(e, g, e.out \o t, c + 0)
  BY <1>2, <1>3, Zenon
<1>5. e.content + Weight(h) = c + 0
  BY <1>1, Zenon
<1> QED BY <1>4, <1>5, Zenon

LEMMA KindWrites ==
  ASSUME NEW e, Writes(e), NEW U, NEW v \in Nodes(U), NEW h, h = HeadOf(v),
         NEW n, n = Len(Parts(v)), NEW g, g = PutKind(e, v)
  PROVE  /\ Tag(v) \in Int /\ n \in Nat
         /\ IF Fine(h, n, e.content)
            THEN Wrote(e, g, e.out \o Body(h, n), e.content + Weight(h))
            ELSE Broke(g)
<1> DEFINE Goal == /\ Tag(v) \in Int /\ n \in Nat
                   /\ IF Fine(h, n, e.content)
                      THEN Wrote(e, g, e.out \o Body(h, n), e.content + Weight(h))
                      ELSE Broke(g)
<1> DEFINE Written == Wrote(e, g, e.out \o Body(h, n), e.content + Weight(h))
<1>1. ASSUME NEW t, Body(h, n) = t, Weight(h) = 0, Wrote(e, g, e.out \o t, e.content)
      PROVE  Written
  BY <1>1, Weightless
<1>2. ASSUME NEW t, t \in Seq(Int), Body(h, n) = t, Weight(h) = 0, g = Emit(e, t)
      PROVE  Written
  <2>1. Wrote(e, g, e.out \o t, e.content)
    BY <1>2, EmitWrites
  <2> QED BY <1>1, <1>2, <2>1
<1>3. Broke(Fail(e))
  BY Breaks DEF Writes
<1>4. ASSUME v = [kind |-> "null"] PROVE Goal
  <2>1. h = v /\ n = 0 /\ Tag(v) = 0 /\ Fine(h, n, e.content) /\ Weight(h) = 0
        /\ Body(h, n) = <<Nil>>
    BY <1>4 DEF HeadOf, Parts, Tag, Tags, Fine, Weight, Body
  <2>2. g = Emit(e, <<Nil>>) /\ <<Nil>> \in Seq(Int)
    BY <1>4 DEF PutKind, Nil
  <2>3. Written
    BY <1>2, <2>1, <2>2, Zenon
  <2> HIDE DEF Written
  <2> QED BY <2>1, <2>3 DEF Written
<1>5. ASSUME NEW x \in BOOLEAN, v = [kind |-> "bool", b |-> x] PROVE Goal
  <2>1. h = v /\ n = 0 /\ Tag(v) = 1 /\ Fine(h, n, e.content) /\ Weight(h) = 0
        /\ Body(h, n) = <<IF x THEN True ELSE False>>
    BY <1>5 DEF HeadOf, Parts, Tag, Tags, Fine, Weight, Body
  <2>2. g = Emit(e, <<IF x THEN True ELSE False>>)
        /\ <<IF x THEN True ELSE False>> \in Seq(Int)
    BY <1>5 DEF PutKind, True, False
  <2>3. Written
    BY <1>2, <2>1, <2>2, Zenon
  <2> HIDE DEF Written
  <2> QED BY <2>1, <2>3 DEF Written
<1>6. ASSUME NEW x \in Int, v = [kind |-> "integer", n |-> x] PROVE Goal
  <2>1. h = v /\ n = 0 /\ Tag(v) = 2 /\ Fine(h, n, e.content) /\ Weight(h) = 0
        /\ Body(h, n) = <<Int64, x>>
    BY <1>6 DEF HeadOf, Parts, Tag, Tags, Fine, Weight, Body
  <2>2. g = Emit(e, <<Int64, x>>) /\ <<Int64, x>> \in Seq(Int)
    BY <1>6 DEF PutKind, Int64
  <2>3. Written
    BY <1>2, <2>1, <2>2, Zenon
  <2> HIDE DEF Written
  <2> QED BY <2>1, <2>3 DEF Written
<1>7. ASSUME NEW x \in Int, v = [kind |-> "float", n |-> x] PROVE Goal
  <2>1. h = v /\ n = 0 /\ Tag(v) = 3 /\ Weight(h) = 0 /\ Body(h, n) = <<Float64, x>>
        /\ (Fine(h, n, e.content) <=> x # NotFinite)
    BY <1>7 DEF HeadOf, Parts, Tag, Tags, Fine, Weight, Body
  <2>2. g = (IF x = NotFinite THEN Fail(e) ELSE Emit(e, <<Float64, x>>))
        /\ <<Float64, x>> \in Seq(Int)
    BY <1>7 DEF PutKind, Float64
  <2>3. x # NotFinite => Written
    <3> HAVE x # NotFinite
    <3>1. g = Emit(e, <<Float64, x>>)
      BY <2>2
    <3> QED BY <1>2, <2>1, <2>2, <3>1, Zenon
  <2>4. x = NotFinite => Broke(g)
    BY <1>3, <2>2
  <2> HIDE DEF Written
  <2> QED BY <2>1, <2>3, <2>4 DEF Written
<1>8. ASSUME NEW x \in Texts, v = [kind |-> "string", s |-> x] PROVE Goal
  <2>1. h = v /\ n = 0 /\ Tag(v) = 4 /\ Weight(h) = Len(x) /\ Body(h, n) = Block(Str32, x)
        /\ (Fine(h, n, e.content) <=> Allowed(e.content, Len(x), MaxString))
    BY <1>8 DEF HeadOf, Parts, Tag, Tags, Fine, Weight, Body
  <2>2. g = PutString(e, x)
    BY <1>8 DEF PutKind
  <2> QED BY <2>1, <2>2, StringWrites
<1>9. ASSUME NEW x \in Seq(Int), v = [kind |-> "bytes", s |-> x] PROVE Goal
  <2>1. h = v /\ n = 0 /\ Tag(v) = 5 /\ Weight(h) = Len(x) /\ Body(h, n) = Block(Bin32, x)
        /\ (Fine(h, n, e.content) <=> Allowed(e.content, Len(x), MaxBytes))
    BY <1>9 DEF HeadOf, Parts, Tag, Tags, Fine, Weight, Body
  <2>2. g = Emit(AddContent(e, Len(x), MaxBytes), <<Bin32, Len(x)>> \o x)
    BY <1>9 DEF PutKind
  <2> QED BY <2>1, <2>2, BytesWrite
<1>10. ASSUME NEW i \in Nat, NEW j \in Nat, NEW x \in Texts,
              v = [kind |-> "handle", id |-> i, generation |-> j, name |-> x]
       PROVE  Goal
  <2>1. h = v /\ n = 0 /\ Tag(v) = 8 /\ Weight(h) = 0
        /\ Body(h, n) = <<Triple, Uint64, i, Uint64, j>> \o Block(Str32, x)
        /\ (Fine(h, n, e.content) <=> IsHandle(i, j, x))
    BY <1>10 DEF HeadOf, Parts, Tag, Tags, Fine, Weight, Body
  <2>2. g = (IF ~IsHandle(i, j, x) THEN Fail(e)
             ELSE WriteString(Emit(e, <<Triple, Uint64, i, Uint64, j>>), x))
    BY <1>10 DEF PutKind
  <2>3. IsHandle(i, j, x) =>
          Wrote(e, g, e.out \o (<<Triple, Uint64, i, Uint64, j>> \o Block(Str32, x)), e.content)
    BY <2>2, HandleWrites
  <2>4. IsHandle(i, j, x) => Written
    BY <1>1, <2>1, <2>3, Zenon
  <2>5. ~IsHandle(i, j, x) => Broke(g)
    BY <1>3, <2>2
  <2> HIDE DEF Written
  <2> QED BY <2>1, <2>4, <2>5 DEF Written
<1>11. ASSUME NEW x \in Codes, v = [kind |-> "error", code |-> x] PROVE Goal
  <2>1. h = v /\ n = 0 /\ Tag(v) = 9 /\ Fine(h, n, e.content) /\ Weight(h) = 0
        /\ Body(h, n) = Block(Str32, WireCode(x))
    BY <1>11 DEF HeadOf, Parts, Tag, Tags, Fine, Weight, Body
  <2>2. g = WriteString(e, WireCode(x))
    BY <1>11 DEF PutKind
  <2>3. g = Emit(e, Block(Str32, WireCode(x)))
    BY <2>2 DEF WriteString, Block
  <2>4. Block(Str32, WireCode(x)) \in Seq(Int)
    BY WireCodeIs, BlockIs DEF Texts, Str32
  <2>5. Written
    BY <1>2, <2>1, <2>3, <2>4, Zenon
  <2> HIDE DEF Written
  <2> QED BY <2>1, <2>5 DEF Written
<1>12. ASSUME NEW s \in Seq(U), v = [kind |-> "array", items |-> s] PROVE Goal
  <2>1. h = [kind |-> "array"] /\ Tag(v) = 6 /\ Parts(v) = s
    BY <1>12 DEF HeadOf, Parts, Tag, Tags
  <2>2. n \in Nat /\ n = Len(s) /\ Weight(h) = 0 /\ Body(h, n) = <<Array32, n>>
        /\ (Fine(h, n, e.content) <=> n <= MaxEntries)
    BY <2>1 DEF Weight, Body, Fine
  <2>3. g = PutEntries(e, s)
    BY <1>12 DEF PutKind
  <2>4. g = (IF n <= MaxEntries THEN Emit(e, <<Array32, n>>) ELSE Fail(e))
    <3>1. MaxEntries \in Nat
      BY LimitsAssumption
    <3> QED BY <2>2, <2>3, <3>1 DEF PutEntries
  <2>5. <<Array32, n>> \in Seq(Int)
    BY <2>2 DEF Array32
  <2>6. n <= MaxEntries => Written
    BY <1>2, <2>2, <2>4, <2>5, Zenon
  <2>7. ~(n <= MaxEntries) => Broke(g)
    BY <1>3, <2>4
  <2> HIDE DEF Written
  <2> QED BY <2>1, <2>2, <2>6, <2>7 DEF Written
<1>13. ASSUME NEW s \in Seq([key : Texts, val : U]), v = [kind |-> "map", entries |-> s]
       PROVE  Goal
  <2>1. h = [kind |-> "map"] /\ Tag(v) = 7 /\ Parts(v) = s
    BY <1>13 DEF HeadOf, Parts, Tag, Tags
  <2>2. n \in Nat /\ n = Len(s) /\ Weight(h) = 0 /\ Body(h, n) = <<Array32, n>>
        /\ (Fine(h, n, e.content) <=> n <= MaxEntries)
    BY <2>1 DEF Weight, Body, Fine
  <2>3. g = PutEntries(e, s)
    BY <1>13 DEF PutKind
  <2>4. g = (IF n <= MaxEntries THEN Emit(e, <<Array32, n>>) ELSE Fail(e))
    <3>1. MaxEntries \in Nat
      BY LimitsAssumption
    <3> QED BY <2>2, <2>3, <3>1 DEF PutEntries
  <2>5. <<Array32, n>> \in Seq(Int)
    BY <2>2 DEF Array32
  <2>6. n <= MaxEntries => Written
    BY <1>2, <2>2, <2>4, <2>5, Zenon
  <2>7. ~(n <= MaxEntries) => Broke(g)
    BY <1>3, <2>4
  <2> HIDE DEF Written
  <2> QED BY <2>1, <2>2, <2>6, <2>7 DEF Written
<1> HIDE DEF Goal
<1>14. v \in Scalars => Goal
  BY <1>4, <1>5, <1>6, <1>7, <1>8, <1>9, <1>10, <1>11, ScalarShapes
<1>15. Goal
  BY <1>12, <1>13, <1>14, Shapes
<1> QED BY <1>15 DEF Goal

LEMMA BrokenKind ==
  ASSUME NEW e, Broke(e), NEW U, NEW v \in Nodes(U)
  PROVE  Broke(PutKind(e, v))
<1>1. Broke(Fail(e))
  BY Breaks DEF Broke
<1>2. \A t : Broke(Emit(e, t))
  BY BrokenEmits
<1>3. \A s : Broke(PutString(e, s))
  BY BrokenAdds, BrokenEmits DEF PutString, WriteString
<1>4. \A s : Broke(WriteString(e, s))
  BY <1>2 DEF WriteString
<1>5. CASE v = [kind |-> "null"]
  BY <1>2, <1>5 DEF PutKind
<1>6. ASSUME NEW x \in BOOLEAN, v = [kind |-> "bool", b |-> x] PROVE Broke(PutKind(e, v))
  BY <1>2, <1>6 DEF PutKind
<1>7. ASSUME NEW x \in Int, v = [kind |-> "integer", n |-> x] PROVE Broke(PutKind(e, v))
  BY <1>2, <1>7 DEF PutKind
<1>8. ASSUME NEW x \in Int, v = [kind |-> "float", n |-> x] PROVE Broke(PutKind(e, v))
  BY <1>1, <1>2, <1>8 DEF PutKind
<1>9. ASSUME NEW x \in Texts, v = [kind |-> "string", s |-> x] PROVE Broke(PutKind(e, v))
  BY <1>3, <1>9 DEF PutKind
<1>10. ASSUME NEW x \in Seq(Int), v = [kind |-> "bytes", s |-> x] PROVE Broke(PutKind(e, v))
  <2>1. PutKind(e, v) = Emit(AddContent(e, Len(x), MaxBytes), <<Bin32, Len(x)>> \o x)
    BY <1>10 DEF PutKind
  <2> QED BY <2>1, BrokenAdds, BrokenEmits
<1>11. ASSUME NEW i \in Nat, NEW j \in Nat, NEW x \in Texts,
              v = [kind |-> "handle", id |-> i, generation |-> j, name |-> x]
       PROVE  Broke(PutKind(e, v))
  <2>1. PutKind(e, v) = IF ~IsHandle(i, j, x) THEN Fail(e)
                        ELSE WriteString(Emit(e, <<Triple, Uint64, i, Uint64, j>>), x)
    BY <1>11 DEF PutKind
  <2>2. Broke(WriteString(Emit(e, <<Triple, Uint64, i, Uint64, j>>), x))
    BY BrokenEmits DEF WriteString
  <2> QED BY <1>1, <2>1, <2>2
<1>12. ASSUME NEW x \in Codes, v = [kind |-> "error", code |-> x] PROVE Broke(PutKind(e, v))
  BY <1>4, <1>12 DEF PutKind
<1>13. \A s : Broke(PutEntries(e, s))
  BY <1>1, <1>2 DEF PutEntries
<1>14. ASSUME NEW s \in Seq(U), v = [kind |-> "array", items |-> s] PROVE Broke(PutKind(e, v))
  BY <1>13, <1>14 DEF PutKind
<1>15. ASSUME NEW s \in Seq([key : Texts, val : U]), v = [kind |-> "map", entries |-> s]
       PROVE  Broke(PutKind(e, v))
  BY <1>13, <1>15 DEF PutKind
<1>16. v \in Scalars => Broke(PutKind(e, v))
  BY <1>5, <1>6, <1>7, <1>8, <1>9, <1>10, <1>11, <1>12, ScalarShapes
<1> QED BY <1>14, <1>15, <1>16, Shapes

Counted(e, k) == [e EXCEPT !.values = k]

LEMMA ValueCounted ==
  ASSUME NEW e, IsEncoder(e), NEW k, NEW f, f = Counted(e, k)
  PROVE  /\ IsEncoder(f) /\ f.ok = e.ok /\ f.out = e.out /\ f.content = e.content
         /\ f.values = k /\ f.stack = e.stack
  BY DEF Counted, IsEncoder

LEMMA BrokenPuts ==
  ASSUME NEW e, Broke(e), NEW U, NEW v \in Nodes(U), NEW depth
  PROVE  Broke(Put(e, v, depth))
<1>1. PICK k : k = e.values + 1
  OBVIOUS
<1>2. PICK f : f = Counted(e, k)
  OBVIOUS
<1>3. Broke(f)
  BY <1>2, ValueCounted DEF Broke
<1>4. PICK x : x = Emit(f, <<Pair, Tag(v)>>)
  OBVIOUS
<1>5. Broke(PutKind(x, v))
  BY <1>3, <1>4, BrokenEmits, BrokenKind
<1>6. Broke(Fail(e))
  BY Breaks DEF Broke
<1>7. Put(e, v, depth) = IF TooDeep(depth) \/ e.values >= MaxValues THEN Fail(e)
                         ELSE PutKind(x, v)
  BY <1>1, <1>2, <1>4 DEF Put, Counted
<1> QED BY <1>5, <1>6, <1>7

\* A value without its parts: what it takes to write it, and what is written.
LEMMA PutWrites ==
  ASSUME NEW e, Writes(e), NEW U, NEW v \in Nodes(U), NEW h, h = HeadOf(v),
         NEW n, n = Len(Parts(v)), NEW depth, NEW g, g = Put(e, v, depth)
  PROVE  /\ Tag(v) \in Int /\ n \in Nat
         /\ IF ~TooDeep(depth) /\ e.values < MaxValues /\ Fine(h, n, e.content)
            THEN /\ Writes(g) /\ g.values = e.values + 1 /\ g.stack = e.stack
                 /\ g.out = (e.out \o <<Pair, Tag(v)>>) \o Body(h, n)
                 /\ g.content = e.content + Weight(h)
            ELSE Broke(g)
<1>1. PICK k \in Nat : k = e.values + 1
  <2>1. e.values \in Nat
    BY DEF Writes
  <2> QED BY <2>1, OneMore
<1>2. PICK f : f = Counted(e, k)
  OBVIOUS
<1>3. Writes(f) /\ f.values = k /\ f.out = e.out /\ f.content = e.content /\ f.stack = e.stack
  <2>1. IsEncoder(e)
    BY DEF Writes
  <2>2. /\ IsEncoder(f) /\ f.ok = e.ok /\ f.out = e.out /\ f.content = e.content
        /\ f.values = k /\ f.stack = e.stack
    BY <1>2, <2>1, ValueCounted
  <2> QED BY <2>2 DEF Writes
<1>4. Tag(v) \in Int /\ n \in Nat
  BY KindWrites
<1>5. PICK t \in Seq(Int) : t = <<Pair, Tag(v)>>
  <2>1. PICK p \in Int, q \in Int : p = Pair /\ q = Tag(v)
    BY <1>4 DEF Pair
  <2>2. <<p, q>> \in Seq(Int)
    OBVIOUS
  <2> QED BY <2>1, <2>2
<1>6. PICK x : x = Emit(f, t)
  OBVIOUS
<1>7. /\ Writes(x) /\ x.out = e.out \o t /\ x.content = e.content /\ x.values = k
      /\ x.stack = e.stack
  BY <1>3, <1>6, EmitWrites DEF Wrote
<1>8. e.values < MaxValues <=> ~(e.values >= MaxValues)
  <2>1. e.values \in Nat /\ MaxValues \in Nat
    BY LimitsAssumption DEF Writes
  <2> QED BY <2>1, LessIs
<1>9. g = IF TooDeep(depth) \/ e.values >= MaxValues THEN Fail(e) ELSE PutKind(x, v)
  BY <1>1, <1>2, <1>5, <1>6 DEF Put, Counted
<1>10. Broke(Fail(e))
  BY Breaks DEF Writes
<1>11. IF Fine(h, n, x.content)
       THEN Wrote(x, PutKind(x, v), x.out \o Body(h, n), x.content + Weight(h))
       ELSE Broke(PutKind(x, v))
  BY <1>7, KindWrites
<1>12. CASE TooDeep(depth) \/ e.values >= MaxValues
  BY <1>4, <1>8, <1>9, <1>10, <1>12
<1>13. CASE ~(TooDeep(depth) \/ e.values >= MaxValues)
  <2>1. g = PutKind(x, v)
    BY <1>9, <1>13
  <2>2. CASE Fine(h, n, e.content)
    <3>1. Wrote(x, g, x.out \o Body(h, n), x.content + Weight(h))
      BY <1>7, <1>11, <2>1, <2>2
    <3>2. /\ Writes(g) /\ g.values = e.values + 1 /\ g.stack = e.stack
          /\ g.out = (e.out \o t) \o Body(h, n)
          /\ g.content = e.content + Weight(h)
      BY <1>1, <1>7, <3>1 DEF Wrote
    <3> QED BY <1>4, <1>5, <1>8, <1>13, <2>2, <3>2
  <2>3. CASE ~Fine(h, n, e.content)
    BY <1>4, <1>7, <1>11, <2>1, <2>3
  <2> QED BY <2>2, <2>3
<1> QED BY <1>12, <1>13

LEMMA KeyWrites ==
  ASSUME NEW e, Writes(e), NEW v, v.kind = "map", NEW i, NEW t, t \in Texts,
         v.entries[i].key = t, NEW g, g = PutKey(e, v, i)
  PROVE  IF (\A j \in 1..(i - 1) : v.entries[j].key # t) /\ Allowed(e.content, Len(t), MaxString)
         THEN Wrote(e, g, (e.out \o <<Pair>>) \o Block(Str32, t), e.content + Len(t))
         ELSE Broke(g)
<1>1. PICK x : x = Emit(e, <<Pair>>)
  OBVIOUS
<1>2. <<Pair>> \in Seq(Int)
  BY DEF Pair
<1>3. Wrote(e, x, e.out \o <<Pair>>, e.content)
  BY <1>1, <1>2, EmitWrites
<1>4. Writes(x) /\ x.out = e.out \o <<Pair>> /\ x.content = e.content
  BY <1>3 DEF Wrote
<1>5. IF Allowed(x.content, Len(t), MaxString)
      THEN Wrote(x, PutString(x, t), x.out \o Block(Str32, t), x.content + Len(t))
      ELSE Broke(PutString(x, t))
  BY <1>4, StringWrites
<1>6. Broke(Fail(e))
  BY Breaks DEF Writes
<1>7. g = IF \E j \in 1..(i - 1) : v.entries[j].key = t THEN Fail(e) ELSE PutString(x, t)
  BY <1>1 DEF PutKey
<1>8. CASE \E j \in 1..(i - 1) : v.entries[j].key = t
  BY <1>6, <1>7, <1>8
<1>9. CASE ~\E j \in 1..(i - 1) : v.entries[j].key = t
  <2>1. g = PutString(x, t)
    BY <1>7, <1>9
  <2>2. CASE Allowed(e.content, Len(t), MaxString)
    <3>1. Wrote(x, g, (e.out \o <<Pair>>) \o Block(Str32, t), e.content + Len(t))
      BY <1>4, <1>5, <2>1, <2>2
    <3> QED BY <1>3, <1>9, <2>2, <3>1, WroteTwice
  <2>3. CASE ~Allowed(e.content, Len(t), MaxString)
    BY <1>4, <1>5, <2>1, <2>3
  <2> QED BY <2>2, <2>3
<1> QED BY <1>8, <1>9

-----------------------------------------------------------------------------
\* Induction over the natural numbers, the runs of both sides, and the levels of
\* a value.

LEMMA Smaller == IsWellFoundedOn({ss \in Nat \X Nat : ss[1] < ss[2]}, Nat)
  BY NatLessThanWellFounded DEF OpToRel

LEMMA Induction ==
  ASSUME NEW S \in SUBSET Nat, 0 \in S, \A n \in S : n + 1 \in S
  PROVE  S = Nat
<1> DEFINE T == Nat \ S
           R == {ss \in Nat \X Nat : ss[1] < ss[2]}
<1>1. SUFFICES ASSUME T # {} PROVE FALSE
  OBVIOUS
<1>2. PICK m \in T : \A n \in T : <<n, m>> \notin R
  BY <1>1, Smaller, WFMin
<1>3. m # 0 /\ m - 1 \in Nat /\ m - 1 \notin S
  <2>1. m # 0 /\ m - 1 \in Nat
    BY <1>2
  <2>2. <<m - 1, m>> \in R
    BY <1>2, <2>1
  <2>3. m - 1 \in S => (m - 1) + 1 \in S
    OBVIOUS
  <2> QED BY <1>2, <2>1, <2>3
<1>4. <<m - 1, m>> \in R /\ m - 1 \in T
  BY <1>2, <1>3
<1> QED BY <1>2, <1>4

\* The places one level below those of X.
Deeper(v, X) == UNION {{Append(p, i) : i \in 1..Len(Parts(At(v, p)))} : p \in X}

OnceMore(v, x) == <<EncodeStep(x[1]), DecodeStep(x[2]), Deeper(v, x[3])>>

Together(v, g, s, n) ==
  /\ DOMAIN g = 0..n /\ g[0] = s
  /\ \A i \in 0..(n - 1) : g[i + 1] = OnceMore(v, g[i])

Repeats(v, s, g) ==
  DOMAIN g = Nat /\ g[0] = s /\ \A n \in Nat : g[n + 1] = OnceMore(v, g[n])

LEMMA Iterates ==
  ASSUME NEW v, NEW s, NEW t, t = OnceMore(v, s)
  PROVE  \E g : Repeats(v, s, g)
<1>1. ASSUME NEW n \in Nat, NEW g, Together(v, g, s, n) PROVE \E h : Together(v, h, s, n + 1)
  <2> DEFINE h == [i \in 0..(n + 1) |-> IF i <= n THEN g[i] ELSE OnceMore(v, g[n])]
  <2>1. DOMAIN h = 0..(n + 1)
    OBVIOUS
  <2>2. h[0] = s
    BY <1>1 DEF Together
  <2>3. ASSUME NEW i \in 0..((n + 1) - 1) PROVE h[i + 1] = OnceMore(v, h[i])
    <3>1. CASE i = n
      BY <3>1
    <3>2. CASE i \in 0..(n - 1)
      BY <1>1, <3>2 DEF Together
    <3> QED BY <3>1, <3>2
  <2> HIDE DEF h
  <2>4. Together(v, h, s, n + 1)
    BY <2>1, <2>2, <2>3 DEF Together
  <2> QED BY <2>4
<1>2. \A n \in Nat : \E g : Together(v, g, s, n)
  <2> DEFINE S == {n \in Nat : \E g : Together(v, g, s, n)}
  <2>1. 0 \in S
    <3>1. Together(v, [i \in 0..0 |-> s], s, 0)
      BY DEF Together
    <3> QED BY <3>1
  <2>2. \A n \in S : n + 1 \in S
    BY <1>1
  <2>3. S \in SUBSET Nat
    OBVIOUS
  <2> HIDE DEF S
  <2>4. S = Nat
    BY <2>1, <2>2, <2>3, Induction
  <2> QED BY <2>4 DEF S
<1>3. ASSUME NEW n \in Nat, NEW m \in Nat, NEW g, NEW h, Together(v, g, s, n), Together(v, h, s, m)
      PROVE  \A i \in Nat : i <= n /\ i <= m => g[i] = h[i]
  <2> DEFINE S == {i \in Nat : i <= n /\ i <= m => g[i] = h[i]}
  <2>1. /\ g[0] = s /\ \A i \in 0..(n - 1) : g[i + 1] = OnceMore(v, g[i])
        /\ h[0] = s /\ \A i \in 0..(m - 1) : h[i + 1] = OnceMore(v, h[i])
    BY <1>3 DEF Together
  <2>2. 0 \in S
    BY <2>1
  <2>3. ASSUME NEW i \in S PROVE i + 1 \in S
    <3> SUFFICES ASSUME i + 1 <= n, i + 1 <= m PROVE g[i + 1] = h[i + 1]
      OBVIOUS
    <3>1. i \in 0..(n - 1) /\ i \in 0..(m - 1)
      OBVIOUS
    <3>2. g[i] = h[i]
      BY <3>1
    <3> QED BY <2>1, <3>1, <3>2
  <2>4. S \in SUBSET Nat
    OBVIOUS
  <2> HIDE DEF S
  <2>5. S = Nat
    BY <2>2, <2>3, <2>4, Induction
  <2> QED BY <2>5 DEF S
<1> DEFINE run(n) == CHOOSE g : Together(v, g, s, n)
           G == [n \in Nat |-> run(n)[n]]
<1>4. \A n \in Nat : Together(v, run(n), s, n)
  BY <1>2
<1> HIDE DEF run
<1>5. ASSUME NEW n \in Nat PROVE G[n + 1] = OnceMore(v, G[n])
  <2>1. Together(v, run(n), s, n) /\ Together(v, run(n + 1), s, n + 1) /\ n + 1 \in Nat
    BY <1>4
  <2>2. n \in 0..((n + 1) - 1)
    OBVIOUS
  <2>3. run(n + 1)[n + 1] = OnceMore(v, run(n + 1)[n])
    BY <2>1, <2>2 DEF Together
  <2>4. run(n + 1)[n] = run(n)[n]
    BY <1>3, <2>1
  <2> QED BY <2>1, <2>3, <2>4
<1>6. G[0] = s
  BY <1>4 DEF Together
<1>7. DOMAIN G = Nat
  OBVIOUS
<1> HIDE DEF G
<1> QED BY <1>5, <1>6, <1>7 DEF Repeats

LEMMA EncodingIs ==
  ASSUME NEW v
  PROVE  /\ Encoding(v)[0] = NewEncoder(v)
         /\ \A n \in Nat : Encoding(v)[n + 1] = EncodeStep(Encoding(v)[n])
<1> DEFINE IsRun(f) == f = [n \in Nat |-> IF n = 0 THEN NewEncoder(v) ELSE EncodeStep(f[n - 1])]
<1>0. PICK s, t : s = <<NewEncoder(v), v, v>> /\ t = OnceMore(v, s)
  OBVIOUS
<1>1. PICK g : Repeats(v, s, g)
  BY <1>0, Iterates
<1> DEFINE e == [n \in Nat |-> g[n][1]]
<1>2. e[0] = NewEncoder(v)
  BY <1>0, <1>1 DEF Repeats
<1>3. \A n \in Nat : e[n + 1] = EncodeStep(e[n])
  BY <1>1 DEF OnceMore, Repeats
<1>4. e = [n \in Nat |-> e[n]]
  OBVIOUS
<1> HIDE DEF e
<1>5. IsRun(e)
  <2>1. ASSUME NEW n \in Nat
        PROVE  e[n] = IF n = 0 THEN NewEncoder(v) ELSE EncodeStep(e[n - 1])
    <3>1. CASE n = 0
      BY <1>2, <3>1
    <3>2. CASE n # 0
      <4>1. n - 1 \in Nat /\ (n - 1) + 1 = n
        BY <3>2
      <4>2. e[(n - 1) + 1] = EncodeStep(e[n - 1])
        BY <1>3, <4>1
      <4> QED BY <3>2, <4>1, <4>2
    <3> QED BY <3>1, <3>2
  <2> QED BY <1>4, <2>1
<1>6. Encoding(v) = CHOOSE f : IsRun(f)
  BY DEF Encoding
<1> DEFINE W == Encoding(v)
<1>7. IsRun(W)
  <2> HIDE DEF IsRun
  <2> QED BY <1>5, <1>6
<1> HIDE DEF W
<1>8. W[0] = NewEncoder(v)
  BY <1>7
<1>9. \A n \in Nat : W[n + 1] = EncodeStep(W[n])
  BY <1>7
<1> QED BY <1>8, <1>9 DEF W

LEMMA DecodingIs ==
  ASSUME NEW w
  PROVE  /\ Decoding(w)[0] = NewDecoder(w)
         /\ \A n \in Nat : Decoding(w)[n + 1] = DecodeStep(Decoding(w)[n])
<1> DEFINE IsRun(f) == f = [n \in Nat |-> IF n = 0 THEN NewDecoder(w) ELSE DecodeStep(f[n - 1])]
<1>0. PICK s, t : s = <<w, NewDecoder(w), w>> /\ t = OnceMore(w, s)
  OBVIOUS
<1>1. PICK g : Repeats(w, s, g)
  BY <1>0, Iterates
<1> DEFINE e == [n \in Nat |-> g[n][2]]
<1>2. e[0] = NewDecoder(w)
  BY <1>0, <1>1 DEF Repeats
<1>3. \A n \in Nat : e[n + 1] = DecodeStep(e[n])
  BY <1>1 DEF OnceMore, Repeats
<1>4. e = [n \in Nat |-> e[n]]
  OBVIOUS
<1> HIDE DEF e
<1>5. IsRun(e)
  <2>1. ASSUME NEW n \in Nat
        PROVE  e[n] = IF n = 0 THEN NewDecoder(w) ELSE DecodeStep(e[n - 1])
    <3>1. CASE n = 0
      BY <1>2, <3>1
    <3>2. CASE n # 0
      <4>1. n - 1 \in Nat /\ (n - 1) + 1 = n
        BY <3>2
      <4>2. e[(n - 1) + 1] = DecodeStep(e[n - 1])
        BY <1>3, <4>1
      <4> QED BY <3>2, <4>1, <4>2
    <3> QED BY <3>1, <3>2
  <2> QED BY <1>4, <2>1
<1>6. Decoding(w) = CHOOSE f : IsRun(f)
  BY DEF Decoding
<1> DEFINE W == Decoding(w)
<1>7. IsRun(W)
  <2> HIDE DEF IsRun
  <2> QED BY <1>5, <1>6
<1> HIDE DEF W
<1>8. W[0] = NewDecoder(w)
  BY <1>7
<1>9. \A n \in Nat : W[n + 1] = DecodeStep(W[n])
  BY <1>7
<1> QED BY <1>8, <1>9 DEF W

LEMMA LevelIs ==
  ASSUME NEW v
  PROVE  /\ Level(v)[0] = {<<>>}
         /\ \A n \in Nat : Level(v)[n + 1] = Deeper(v, Level(v)[n])
<1> DEFINE IsRun(f) == f = [n \in Nat |-> IF n = 0 THEN {<<>>} ELSE Deeper(v, f[n - 1])]
<1>0. PICK s, t : s = <<v, v, {<<>>}>> /\ t = OnceMore(v, s)
  OBVIOUS
<1>1. PICK g : Repeats(v, s, g)
  BY <1>0, Iterates
<1> DEFINE e == [n \in Nat |-> g[n][3]]
<1>2. e[0] = {<<>>}
  BY <1>0, <1>1 DEF Repeats
<1>3. \A n \in Nat : e[n + 1] = Deeper(v, e[n])
  BY <1>1 DEF OnceMore, Repeats
<1>4. e = [n \in Nat |-> e[n]]
  OBVIOUS
<1> HIDE DEF e
<1>5. IsRun(e)
  <2>1. ASSUME NEW n \in Nat
        PROVE  e[n] = IF n = 0 THEN {<<>>} ELSE Deeper(v, e[n - 1])
    <3>1. CASE n = 0
      BY <1>2, <3>1
    <3>2. CASE n # 0
      <4>1. n - 1 \in Nat /\ (n - 1) + 1 = n
        BY <3>2
      <4>2. e[(n - 1) + 1] = Deeper(v, e[n - 1])
        BY <1>3, <4>1
      <4> QED BY <3>2, <4>1, <4>2
    <3> QED BY <3>1, <3>2
  <2> QED BY <1>4, <2>1
<1>6. Level(v) = CHOOSE f : IsRun(f)
  BY DEF Level, Deeper
<1> DEFINE W == Level(v)
<1>7. IsRun(W)
  <2> HIDE DEF IsRun
  <2> QED BY <1>5, <1>6
<1> HIDE DEF W
<1>8. W[0] = {<<>>}
  BY <1>7
<1>9. \A n \in Nat : W[n + 1] = Deeper(v, W[n])
  <2>1. ASSUME NEW n \in Nat PROVE W[n + 1] = Deeper(v, W[n])
    <3>1. n + 1 \in Nat /\ n + 1 # 0 /\ (n + 1) - 1 = n
      OBVIOUS
    <3>2. W[n + 1] = Deeper(v, W[(n + 1) - 1])
      BY <1>7, <3>1
    <3> QED BY <3>1, <3>2
  <2> QED BY <2>1
<1> QED BY <1>8, <1>9 DEF W

-----------------------------------------------------------------------------
\* The calls both sides are inside of.

KeyOf(v, i) == IF v.kind = "map" THEN v.entries[i].key ELSE <<>>
KeysTo(v, m)  == [i \in 1..m |-> KeyOf(v, i)]
PartsTo(v, m) == [i \in 1..m |-> Part(v, i)]

\* What the decoder has of a value when m of its parts have ended and the next
\* one begins, or has begun.
Mirror(f, m) ==
  [head |-> HeadOf(f.of), need |-> Len(Parts(f.of)), keys |-> KeysTo(f.of, f.next - 1),
   parts |-> PartsTo(f.of, m)]

LEMMA EntriesAre ==
  ASSUME NEW U, NEW s \in Seq([key : Texts, val : U]), NEW i \in 1..Len(s)
  PROVE  s[i].val \in U /\ s[i].key \in Texts /\ s[i] = [key |-> s[i].key, val |-> s[i].val]
<1> DEFINE E == [key : Texts, val : U]
<1>1. PICK x \in E : x = s[i]
  <2>1. s \in Seq(E)
    OBVIOUS
  <2> HIDE DEF E
  <2> QED BY <2>1
<1>2. x.val \in U /\ x.key \in Texts /\ x = [key |-> x.key, val |-> x.val]
  OBVIOUS
<1> QED BY <1>1, <1>2

LEMMA PartsAre ==
  ASSUME NEW U, NEW v \in Nodes(U)
  PROVE  /\ Len(Parts(v)) \in Nat
         /\ \A i \in 1..Len(Parts(v)) : Part(v, i) \in U /\ KeyOf(v, i) \in Texts
<1> DEFINE Goal == /\ Len(Parts(v)) \in Nat
                   /\ \A i \in 1..Len(Parts(v)) : Part(v, i) \in U /\ KeyOf(v, i) \in Texts
<1>1. ASSUME v \in Scalars PROVE Goal
  <2>1. Parts(v) = <<>>
    BY <1>1, ScalarShapes DEF Parts
  <2> QED BY <2>1
<1>2. ASSUME NEW s \in Seq(U), v = [kind |-> "array", items |-> s] PROVE Goal
  <2>1. Parts(v) = s /\ \A i : Part(v, i) = s[i] /\ KeyOf(v, i) = <<>>
    BY <1>2 DEF Parts, Part, KeyOf
  <2>2. <<>> \in Texts
    BY DEF Texts
  <2> QED BY <2>1, <2>2
<1>3. ASSUME NEW s \in Seq([key : Texts, val : U]), v = [kind |-> "map", entries |-> s] PROVE Goal
  <2>1. Parts(v) = s /\ \A i : Part(v, i) = s[i].val /\ KeyOf(v, i) = s[i].key
    BY <1>3 DEF Parts, Part, KeyOf
  <2>2. \A i \in 1..Len(s) : s[i].val \in U /\ s[i].key \in Texts
    BY EntriesAre
  <2> QED BY <2>1, <2>2
<1> QED BY <1>1, <1>2, <1>3, Shapes

LEMMA PartsToAre ==
  ASSUME NEW U, NEW v \in Nodes(U), NEW m \in Nat, m <= Len(Parts(v))
  PROVE  /\ PartsTo(v, m) \in Seq(U) /\ Len(PartsTo(v, m)) = m
         /\ KeysTo(v, m) \in Seq(Texts) /\ Len(KeysTo(v, m)) = m
<1>1. \A i \in 1..m : Part(v, i) \in U /\ KeyOf(v, i) \in Texts
  BY PartsAre
<1>2. PartsTo(v, m) \in [1..m -> U] /\ KeysTo(v, m) \in [1..m -> Texts]
  BY <1>1 DEF PartsTo, KeysTo
<1> QED BY <1>2

LEMMA NextPart ==
  ASSUME NEW U, NEW v \in Nodes(U), NEW m \in Nat, m + 1 <= Len(Parts(v))
  PROVE  /\ Append(PartsTo(v, m), Part(v, m + 1)) = PartsTo(v, m + 1)
         /\ Append(KeysTo(v, m), KeyOf(v, m + 1)) = KeysTo(v, m + 1)
<1>1. Part(v, m + 1) \in U /\ KeyOf(v, m + 1) \in Texts /\ m <= Len(Parts(v))
  BY PartsAre
<1>2. /\ PartsTo(v, m) \in Seq(U) /\ Len(PartsTo(v, m)) = m
      /\ KeysTo(v, m) \in Seq(Texts) /\ Len(KeysTo(v, m)) = m
  BY <1>1, PartsToAre
<1>3. /\ PartsTo(v, m + 1) \in Seq(U) /\ Len(PartsTo(v, m + 1)) = m + 1
      /\ KeysTo(v, m + 1) \in Seq(Texts) /\ Len(KeysTo(v, m + 1)) = m + 1
  BY PartsToAre
<1>4. \A i \in 1..(m + 1) : /\ Append(PartsTo(v, m), Part(v, m + 1))[i] = PartsTo(v, m + 1)[i]
                            /\ Append(KeysTo(v, m), KeyOf(v, m + 1))[i] = KeysTo(v, m + 1)[i]
  BY <1>1, <1>2 DEF PartsTo, KeysTo
<1>5. /\ Append(PartsTo(v, m), Part(v, m + 1)) \in Seq(U)
      /\ Len(Append(PartsTo(v, m), Part(v, m + 1))) = m + 1
      /\ Append(KeysTo(v, m), KeyOf(v, m + 1)) \in Seq(Texts)
      /\ Len(Append(KeysTo(v, m), KeyOf(v, m + 1))) = m + 1
  BY <1>1, <1>2
<1>6. Append(PartsTo(v, m), Part(v, m + 1)) = PartsTo(v, m + 1)
  <2>1. PICK p, q : p = Append(PartsTo(v, m), Part(v, m + 1)) /\ q = PartsTo(v, m + 1)
    OBVIOUS
  <2>2. p \in Seq(U) /\ q \in Seq(U) /\ Len(p) = Len(q) /\ \A i \in 1..Len(p) : p[i] = q[i]
    BY <1>3, <1>4, <1>5, <2>1
  <2> QED BY <2>1, <2>2, SeqEqual
<1>7. Append(KeysTo(v, m), KeyOf(v, m + 1)) = KeysTo(v, m + 1)
  <2>1. PICK p, q : p = Append(KeysTo(v, m), KeyOf(v, m + 1)) /\ q = KeysTo(v, m + 1)
    OBVIOUS
  <2>2. p \in Seq(Texts) /\ q \in Seq(Texts) /\ Len(p) = Len(q) /\ \A i \in 1..Len(p) : p[i] = q[i]
    BY <1>3, <1>4, <1>5, <2>1
  <2> QED BY <2>1, <2>2, SeqEqual
<1> QED BY <1>6, <1>7

\* When all of its parts have ended, the decoder has the value.
LEMMA BuiltIs ==
  ASSUME NEW U, NEW v \in Nodes(U), NEW n, n = Len(Parts(v)),
         NEW f, f.head = HeadOf(v), f.need = n, f.keys = KeysTo(v, n), f.parts = PartsTo(v, n)
  PROVE  Built(f) = v
<1>1. CASE v \in Scalars
  <2>1. HeadOf(v) = v /\ v.kind # "array" /\ v.kind # "map"
    BY <1>1, ScalarShapes DEF HeadOf
  <2> QED BY <2>1 DEF Built
<1>2. ASSUME NEW s \in Seq(U), v = [kind |-> "array", items |-> s] PROVE Built(f) = v
  <2>1. Parts(v) = s /\ HeadOf(v) = [kind |-> "array"] /\ \A i : Part(v, i) = s[i]
    BY <1>2 DEF Parts, Part, HeadOf
  <2>2. PartsTo(v, n) = [i \in 1..Len(s) |-> s[i]]
    BY <2>1 DEF PartsTo
  <2>3. s = [i \in 1..Len(s) |-> s[i]]
    OBVIOUS
  <2>4. Built(f) = Array(f.parts)
    BY <2>1 DEF Built
  <2> QED BY <1>2, <2>2, <2>3, <2>4 DEF Array
<1>3. ASSUME NEW s \in Seq([key : Texts, val : U]), v = [kind |-> "map", entries |-> s]
      PROVE  Built(f) = v
  <2>1. Parts(v) = s /\ HeadOf(v) = [kind |-> "map"]
        /\ \A i : Part(v, i) = s[i].val /\ KeyOf(v, i) = s[i].key
    BY <1>3 DEF Parts, Part, KeyOf, HeadOf
  <2>2. PICK t : t = [i \in 1..f.need |-> [key |-> f.keys[i], val |-> f.parts[i]]]
    OBVIOUS
  <2>3. Built(f) = [kind |-> "map", entries |-> t]
    BY <2>1, <2>2 DEF Built
  <2>4. \A i \in 1..n : f.keys[i] = s[i].key /\ f.parts[i] = s[i].val
    BY <2>1 DEF KeysTo, PartsTo
  <2>5. \A i \in 1..n : s[i] = [key |-> s[i].key, val |-> s[i].val]
    BY <2>1, EntriesAre
  <2>6. \A i \in 1..n : [key |-> f.keys[i], val |-> f.parts[i]] = s[i]
    BY <2>4, <2>5
  <2>7. t = [i \in 1..n |-> s[i]]
    BY <2>2, <2>6
  <2>8. s = [i \in 1..n |-> s[i]]
    BY <2>1
  <2> QED BY <1>3, <2>3, <2>7, <2>8
<1> QED BY <1>1, <1>2, <1>3, Shapes

Frames(U) == [of : Nodes(U), next : Nat \ {0}]
Readings(U) ==
  [head : {HeadOf(v) : v \in Nodes(U)}, need : Nat, keys : Seq(Texts), parts : Seq(U)]

LEMMA FrameIs ==
  ASSUME NEW U, NEW f \in Frames(U)
  PROVE  /\ f.of \in Nodes(U) /\ f.next \in Nat /\ f.next - 1 \in Nat
         /\ f = [of |-> f.of, next |-> f.next]
         /\ Len(Parts(f.of)) \in Nat
  BY PartsAre DEF Frames

LEMMA MirrorIs ==
  ASSUME NEW U, NEW f \in Frames(U), f.next - 1 <= Len(Parts(f.of)),
         NEW m \in Nat, m <= f.next - 1
  PROVE  /\ Mirror(f, m) \in Readings(U)
         /\ Mirror(f, m).head = HeadOf(f.of)
         /\ Mirror(f, m).need = Len(Parts(f.of))
         /\ Mirror(f, m).keys = KeysTo(f.of, f.next - 1) /\ Len(Mirror(f, m).keys) = f.next - 1
         /\ Mirror(f, m).parts = PartsTo(f.of, m) /\ Len(Mirror(f, m).parts) = m
<1>1. PICK k \in Nat, n \in Nat : k = f.next - 1 /\ n = Len(Parts(f.of))
  BY FrameIs
<1>2. k <= n /\ m <= n
  BY <1>1
<1>3. f.of \in Nodes(U)
  BY FrameIs
<1>4. /\ PartsTo(f.of, m) \in Seq(U) /\ Len(PartsTo(f.of, m)) = m
      /\ KeysTo(f.of, k) \in Seq(Texts) /\ Len(KeysTo(f.of, k)) = k
  BY <1>1, <1>2, <1>3, PartsToAre
<1>5. Mirror(f, m) = [head |-> HeadOf(f.of), need |-> n, keys |-> KeysTo(f.of, k),
                      parts |-> PartsTo(f.of, m)]
  BY <1>1 DEF Mirror
<1> QED BY <1>1, <1>3, <1>4, <1>5 DEF Readings

LEMMA FrontIs ==
  ASSUME NEW X, NEW s \in Seq(X), Len(s) > 0
  PROVE  /\ Front(s) \in Seq(X) /\ Len(Front(s)) = Len(s) - 1
         /\ \A i \in 1..(Len(s) - 1) : Front(s)[i] = s[i]
<1>1. PICK n \in Nat : n = Len(s) - 1
  OBVIOUS
<1>2. \A i \in 1..n : s[i] \in X
  BY <1>1
<1>3. /\ SubSeq(s, 1, n) \in Seq(X)
      /\ Len(SubSeq(s, 1, n)) = IF 1 <= n THEN n - 1 + 1 ELSE 0
      /\ \A i \in 1..(n - 1 + 1) : SubSeq(s, 1, n)[i] = s[1 + i - 1]
  BY <1>2, SubSeqProperties
<1>4. Len(SubSeq(s, 1, n)) = n /\ \A i \in 1..n : SubSeq(s, 1, n)[i] = s[i]
  BY <1>3
<1> QED BY <1>1, <1>3, <1>4 DEF Front

\* The frames of an encoder on its way through v.
Nested(S, U, v) ==
  /\ S \in Seq(Frames(U))
  /\ \A j \in 1..Len(S) : S[j].next - 1 <= Len(Parts(S[j].of))
  /\ \A j \in 1..(Len(S) - 1) :
       S[j].next - 2 \in Nat /\ S[j + 1].of = Part(S[j].of, S[j].next - 1)
  /\ Len(S) > 0 => S[1].of = Array(<<v>>)

\* The decoder is inside of the same values.
Mirrored(S, T, U) ==
  /\ T \in Seq(Readings(U)) /\ Len(T) = Len(S)
  /\ \A j \in 1..(Len(S) - 1) : T[j] = Mirror(S[j], S[j].next - 2)
  /\ Len(S) > 0 => T[Len(S)] = Mirror(S[Len(S)], S[Len(S)].next - 1)

LEMMA NestedFront ==
  ASSUME NEW U, NEW v, NEW S, Nested(S, U, v), Len(S) > 0
  PROVE  Nested(Front(S), U, v) /\ Len(Front(S)) = Len(S) - 1 /\ Len(S) \in Nat
         /\ \A i \in 1..(Len(S) - 1) : Front(S)[i] = S[i]
<1>1. S \in Seq(Frames(U))
  BY DEF Nested
<1>2. PICK n \in Nat : n = Len(S) - 1
  BY <1>1
<1>3. PICK R : R = Front(S)
  OBVIOUS
<1>4. R \in Seq(Frames(U)) /\ Len(R) = n /\ \A i \in 1..n : R[i] = S[i]
  BY <1>1, <1>2, <1>3, FrontIs
<1>5. Len(S) = n + 1
  BY <1>1, <1>2
<1>6. \A j \in 1..n : R[j].next - 1 <= Len(Parts(R[j].of))
  BY <1>4, <1>5 DEF Nested
<1>7. \A j \in 1..(n - 1) : R[j].next - 2 \in Nat /\ R[j + 1].of = Part(R[j].of, R[j].next - 1)
  <2> TAKE j \in 1..(n - 1)
  <2>1. j \in 1..n /\ j + 1 \in 1..n /\ j \in 1..(Len(S) - 1)
    BY <1>5
  <2> QED BY <1>4, <2>1 DEF Nested
<1>8. n > 0 => R[1].of = Array(<<v>>)
  BY <1>4, <1>5 DEF Nested
<1>9. Nested(R, U, v)
  BY <1>4, <1>6, <1>7, <1>8 DEF Nested
<1> QED BY <1>1, <1>2, <1>3, <1>4, <1>9

LEMMA Replaced ==
  ASSUME NEW X, NEW Q \in Seq(X), NEW m \in 1..Len(Q), NEW y \in X,
         NEW P, P = [Q EXCEPT ![m] = y]
  PROVE  P \in Seq(X) /\ Len(P) = Len(Q) /\ P[m] = y /\ \A i \in 1..Len(Q) : i # m => P[i] = Q[i]
  OBVIOUS

\* The last part of the value at the top has ended.
LEMMA MirroredFront ==
  ASSUME NEW U, NEW v, NEW S, Nested(S, U, v), NEW T, Mirrored(S, T, U),
         NEW n, n = Len(S), n > 1, NEW f, f = S[n], NEW P,
         P = WithPart(Front(T), n - 1, f.of)
  PROVE  Mirrored(Front(S), P, U)
<1>1. S \in Seq(Frames(U)) /\ T \in Seq(Readings(U)) /\ Len(T) = n /\ n \in Nat
  BY DEF Nested, Mirrored
<1>2. PICK m \in Nat : m = n - 1 /\ n = m + 1 /\ m > 0
  BY <1>1
<1>3. PICK R, Q : R = Front(S) /\ Q = Front(T)
  OBVIOUS
<1>4. R \in Seq(Frames(U)) /\ Len(R) = m /\ \A i \in 1..m : R[i] = S[i]
  BY <1>1, <1>2, <1>3, FrontIs
<1>5. Q \in Seq(Readings(U)) /\ Len(Q) = m /\ \A i \in 1..m : Q[i] = T[i]
  BY <1>1, <1>2, <1>3, FrontIs
<1>6. PICK g \in Frames(U) : g = R[m]
  BY <1>2, <1>4
<1>7. g = S[m] /\ g.next - 1 <= Len(Parts(g.of)) /\ g.next - 2 \in Nat
      /\ f.of = Part(g.of, g.next - 1) /\ Q[m] = Mirror(g, g.next - 2)
  <2>1. m \in 1..m /\ m \in 1..Len(S) /\ m \in 1..(Len(S) - 1)
    BY <1>2
  <2>2. g = S[m] /\ Q[m] = T[m]
    BY <1>4, <1>5, <1>6, <2>1
  <2> QED BY <1>2, <2>1, <2>2 DEF Nested, Mirrored
<1>8. PICK k \in Nat : k = g.next - 2
  BY <1>7
<1>9. g.of \in Nodes(U) /\ g.next - 1 = k + 1
  <2>1. g.of \in Nodes(U) /\ g.next \in Nat
    BY FrameIs
  <2> QED BY <1>8, <2>1
<1>10. PICK x : x = Mirror(g, k)
  OBVIOUS
<1>11. PICK y : y = Mirror(g, k + 1)
  OBVIOUS
<1>12. y \in Readings(U)
  BY <1>7, <1>9, <1>11, MirrorIs
<1>13. Append(PartsTo(g.of, k), Part(g.of, k + 1)) = PartsTo(g.of, k + 1)
  BY <1>7, <1>9, NextPart
<1>14. [x EXCEPT !.parts = Append(@, f.of)] = y
  <2>1. PICK p : p = PartsTo(g.of, k)
    OBVIOUS
  <2>2. PICK q : q = PartsTo(g.of, k + 1)
    OBVIOUS
  <2>3. PICK a, b, c : a = HeadOf(g.of) /\ b = Len(Parts(g.of)) /\ c = KeysTo(g.of, g.next - 1)
    OBVIOUS
  <2>4. x = [head |-> a, need |-> b, keys |-> c, parts |-> p]
    BY <1>10, <2>1, <2>3 DEF Mirror
  <2>5. y = [head |-> a, need |-> b, keys |-> c, parts |-> q]
    BY <1>11, <2>2, <2>3 DEF Mirror
  <2>6. PICK o : o = Append(x.parts, f.of)
    OBVIOUS
  <2>7. o = q
    BY <1>7, <1>9, <1>13, <2>1, <2>2, <2>4, <2>6
  <2>8. [x EXCEPT !.parts = q] = y
    BY <2>4, <2>5
  <2> QED BY <2>6, <2>7, <2>8
<1>15. P = [Q EXCEPT ![m] = y]
  <2>1. P = [Q EXCEPT ![m].parts = Append(@, f.of)]
    BY <1>2, <1>3 DEF WithPart
  <2>2. PICK z : z = Q[m]
    OBVIOUS
  <2>3. z = x
    BY <1>7, <1>8, <1>10, <2>2
  <2>4. [z EXCEPT !.parts = Append(z.parts, f.of)] = y
    BY <1>14, <2>3
  <2>5. [Q EXCEPT ![m].parts = Append(@, f.of)] = [Q EXCEPT ![m] = [z EXCEPT !.parts = Append(z.parts, f.of)]]
    BY <2>2
  <2> QED BY <2>1, <2>4, <2>5
<1>16. P \in Seq(Readings(U)) /\ Len(P) = m /\ P[m] = y /\ \A i \in 1..(m - 1) : P[i] = Q[i]
  <2>1. m \in 1..Len(Q)
    BY <1>2, <1>5
  <2> DEFINE E == Readings(U)
  <2>2. P \in Seq(E) /\ Len(P) = Len(Q) /\ P[m] = y
        /\ \A i \in 1..Len(Q) : i # m => P[i] = Q[i]
    <3>1. Q \in Seq(E) /\ y \in E
      BY <1>5, <1>12
    <3> HIDE DEF E
    <3>2. PICK p : p = [Q EXCEPT ![m] = y]
      OBVIOUS
    <3>3. p \in Seq(E) /\ Len(p) = Len(Q) /\ p[m] = y /\ \A i \in 1..Len(Q) : i # m => p[i] = Q[i]
      BY <2>1, <3>1, <3>2, Replaced
    <3> QED BY <1>15, <3>2, <3>3
  <2>3. \A i \in 1..(m - 1) : i \in 1..m /\ i # m
    OBVIOUS
  <2> QED BY <1>5, <2>2, <2>3, Zenon
<1>17. \A j \in 1..(m - 1) : P[j] = Mirror(R[j], R[j].next - 2)
  <2> TAKE j \in 1..(m - 1)
  <2>1. j \in 1..m /\ j \in 1..(Len(S) - 1)
    BY <1>2
  <2>2. P[j] = T[j] /\ R[j] = S[j]
    BY <1>4, <1>5, <1>16, <2>1
  <2> QED BY <2>1, <2>2 DEF Mirrored
<1>18. P[m] = Mirror(R[m], R[m].next - 1)
  BY <1>6, <1>9, <1>11, <1>16
<1>19. Mirrored(R, P, U)
  BY <1>4, <1>16, <1>17, <1>18 DEF Mirrored
<1> QED BY <1>3, <1>19

\* A part of the value at the top begins: the frames on both sides.
Moved(f) == [f EXCEPT !.next = @ + 1]
Keyed(r, k) == [r EXCEPT !.keys = Append(@, k)]

LEMMA Stacked ==
  ASSUME NEW X, NEW Q \in Seq(X), NEW m \in Nat, m = Len(Q), m > 0, NEW y \in X, NEW z \in X,
         NEW P, P = [Q EXCEPT ![m] = y], NEW R, R = Append(P, z)
  PROVE  /\ R \in Seq(X) /\ Len(R) = m + 1 /\ R[m] = y /\ R[m + 1] = z
         /\ \A i \in 1..(m - 1) : R[i] = Q[i]
<1>1. m \in 1..Len(Q)
  OBVIOUS
<1>2. PICK p : p = P
  OBVIOUS
<1>3. p \in Seq(X) /\ Len(p) = m /\ p[m] = y /\ \A i \in 1..m : i # m => p[i] = Q[i]
  BY <1>1, <1>2, Replaced
<1>4. R = Append(p, z)
  BY <1>2
<1>5. R \in Seq(X) /\ Len(R) = m + 1 /\ R[m + 1] = z /\ \A i \in 1..m : R[i] = p[i]
  BY <1>3, <1>4, AppendProperties
<1>6. \A i \in 1..(m - 1) : i \in 1..m /\ i # m
  OBVIOUS
<1>7. m \in 1..m
  OBVIOUS
<1> QED BY <1>3, <1>5, <1>6, <1>7, Zenon

LEMMA FrameMoved ==
  ASSUME NEW U, NEW f \in Frames(U), NEW y, y = Moved(f)
  PROVE  y \in Frames(U) /\ y.of = f.of /\ y.next = f.next + 1
<1>1. PICK k \in Nat \ {0} : k = f.next + 1
  BY FrameIs
<1>2. PICK o \in Nodes(U) : o = f.of
  BY FrameIs
<1>3. f = [of |-> o, next |-> f.next]
  BY <1>2, FrameIs
<1>4. y = [of |-> o, next |-> k]
  <2>1. y = [f EXCEPT !.next = k]
    BY <1>1 DEF Moved
  <2> QED BY <1>3, <2>1
<1> QED BY <1>1, <1>2, <1>4 DEF Frames

\* All of its parts have had their turn.
Ended(f) == f.next > Len(Parts(f.of))

\* One call more: about x, the next part of f.
Entered(Q, S, n, f, x) ==
  /\ Len(Q) = n + 1 /\ Q[n + 1] = Writing(x) /\ Q[n] = Moved(f)
  /\ \A i \in 1..(n - 1) : Q[i] = S[i]

LEMMA NotEnded ==
  ASSUME NEW U, NEW f \in Frames(U), ~Ended(f)
  PROVE  /\ f.next \in 1..Len(Parts(f.of)) /\ f.next <= Len(Parts(f.of))
         /\ f.of \in Nodes(U) /\ Part(f.of, f.next) \in U
<1>1. PICK i \in Nat, n \in Nat : i = f.next /\ n = Len(Parts(f.of)) /\ i - 1 \in Nat
  BY FrameIs
<1>2. i \in 1..n /\ i <= n
  <2>1. ~(i > n)
    BY <1>1 DEF Ended
  <2> QED BY <1>1, <2>1
<1>3. f.of \in Nodes(U)
  BY FrameIs
<1> QED BY <1>1, <1>2, <1>3, PartsAre

LEMMA NestedPush ==
  ASSUME NEW U, U \subseteq Nodes(U), NEW v, NEW S, Nested(S, U, v),
         NEW n, n = Len(S), n # 0, NEW f, f = S[n], ~Ended(f),
         NEW x, x = Part(f.of, f.next),
         NEW Q, Q = Append([S EXCEPT ![n] = Moved(f)], Writing(x))
  PROVE  Nested(Q, U, v) /\ Entered(Q, S, n, f, x)
<1>1. S \in Seq(Frames(U)) /\ n \in Nat /\ n > 0
  BY DEF Nested
<1>2. f \in Frames(U) /\ f.next <= Len(Parts(f.of))
  <2>1. f \in Frames(U)
    BY <1>1
  <2> QED BY <2>1, NotEnded
<1>3. x \in U /\ x \in Nodes(U)
  BY <1>2, NotEnded
<1>4. PICK y : y = Moved(f)
  OBVIOUS
<1>5. y \in Frames(U) /\ y.of = f.of /\ y.next = f.next + 1
  BY <1>2, <1>4, FrameMoved
<1>6. PICK z \in Frames(U) : z = Writing(x) /\ z.of = x /\ z.next = 1
  BY <1>3 DEF Frames, Writing
<1>7. PICK P : P = [S EXCEPT ![n] = y]
  OBVIOUS
<1>8. Q = Append(P, z)
  BY <1>4, <1>6, <1>7
<1>9. PICK q : q = Q
  OBVIOUS
<1>10. /\ q \in Seq(Frames(U)) /\ Len(q) = n + 1 /\ q[n] = y /\ q[n + 1] = z
       /\ \A i \in 1..(n - 1) : q[i] = S[i]
  <2> DEFINE E == Frames(U)
  <2>1. S \in Seq(E) /\ y \in E /\ z \in E
    BY <1>1, <1>5, <1>6
  <2> HIDE DEF E
  <2>2. q = Append(P, z)
    BY <1>8, <1>9
  <2>3. /\ q \in Seq(E) /\ Len(q) = n + 1 /\ q[n] = y /\ q[n + 1] = z
        /\ \A i \in 1..(n - 1) : q[i] = S[i]
    BY <1>1, <1>7, <2>1, <2>2, Stacked
  <2> QED BY <2>3 DEF E
<1>11. PICK m \in Nat : n = m + 1
  BY <1>1
<1>12. \A i \in 1..m : q[i] = S[i]
  <2>1. n - 1 = m
    BY <1>11
  <2> QED BY <1>10, <2>1, Zenon
<1>13. \A j \in 1..(n + 1) : q[j].next - 1 <= Len(Parts(q[j].of))
  <2> TAKE j \in 1..(n + 1)
  <2>1. CASE j \in 1..m
    <3>1. j \in 1..Len(S)
      BY <1>11, <2>1
    <3> QED BY <1>12, <2>1, <3>1 DEF Nested
  <2>2. CASE j = n
    <3>1. PICK k \in Nat : k = f.next
      BY <1>2, FrameIs
    <3>2. y.next - 1 = k
      BY <1>5, <3>1
    <3>3. k <= Len(Parts(y.of))
      BY <1>2, <1>5, <3>1
    <3>4. q[j] = y
      BY <1>10, <2>2
    <3> QED BY <3>2, <3>3, <3>4
  <2>3. CASE j = n + 1
    <3>1. PICK k \in Nat : k = Len(Parts(x))
      BY <1>3, PartsAre
    <3> QED BY <1>6, <1>10, <2>3, <3>1
  <2> QED BY <1>11, <2>1, <2>2, <2>3
<1>14. \A j \in 1..n : q[j].next - 2 \in Nat /\ q[j + 1].of = Part(q[j].of, q[j].next - 1)
  <2> TAKE j \in 1..n
  <2>1. CASE j = n
    <3>1. PICK k \in Nat : k = f.next /\ k - 1 \in Nat
      BY <1>2, FrameIs
    <3>2. y.next - 1 = k /\ y.next - 2 \in Nat
      <4>1. y.next = k + 1
        BY <1>5, <3>1, Zenon
      <4>2. (k + 1) - 1 = k /\ (k + 1) - 2 = k - 1
        OBVIOUS
      <4> QED BY <3>1, <4>1, <4>2, Zenon
    <3> QED BY <1>5, <1>6, <1>10, <2>1, <3>1, <3>2
  <2>2. CASE j \in 1..(m - 1)
    <3>1. j \in 1..m /\ j + 1 \in 1..m /\ j \in 1..(Len(S) - 1)
      BY <1>11, <2>2
    <3>2. q[j] = S[j] /\ q[j + 1] = S[j + 1]
      BY <1>12, <3>1
    <3> QED BY <3>1, <3>2 DEF Nested
  <2>3. CASE j = m /\ m > 0
    <3>1. j \in 1..m /\ j + 1 = n /\ j \in 1..(Len(S) - 1)
      BY <1>11, <2>3
    <3>2. q[j] = S[j] /\ q[j + 1].of = S[j + 1].of
      BY <1>5, <1>10, <1>12, <3>1
    <3> QED BY <3>1, <3>2 DEF Nested
  <2> QED BY <1>11, <2>1, <2>2, <2>3
<1>15. q[1].of = Array(<<v>>)
  <2>1. CASE n = 1
    BY <1>5, <1>10, <2>1 DEF Nested
  <2>2. CASE m > 0
    BY <1>10, <1>11, <2>2 DEF Nested
  <2> QED BY <1>11, <2>1, <2>2
<1>16. Nested(q, U, v)
  <2>1. (n + 1) - 1 = n
    BY <1>1
  <2> QED BY <1>10, <1>13, <1>14, <1>15, <2>1 DEF Nested
<1>17. Entered(q, S, n, f, x)
  BY <1>4, <1>6, <1>10 DEF Entered
<1> QED BY <1>9, <1>16, <1>17

LEMMA MirrorMoved ==
  ASSUME NEW U, NEW f \in Frames(U), f.next <= Len(Parts(f.of)),
         NEW y, y = Moved(f), NEW k, k = KeyOf(f.of, f.next),
         NEW r, r = Mirror(f, f.next - 1), NEW s, s = Keyed(r, k)
  PROVE  /\ s = Mirror(y, y.next - 2)
         /\ Mirror(y, y.next - 2) \in Readings(U)
         /\ r.head = HeadOf(f.of)
<1>1. y \in Frames(U) /\ y.of = f.of /\ y.next = f.next + 1
  BY FrameMoved
<1>2. PICK m \in Nat : m = f.next - 1 /\ f.next = m + 1
  BY FrameIs
<1>3. y.next - 2 = m /\ y.next - 1 = m + 1
  <2>1. y.next = (m + 1) + 1
    BY <1>1, <1>2, Zenon
  <2>2. ((m + 1) + 1) - 2 = m /\ ((m + 1) + 1) - 1 = m + 1
    OBVIOUS
  <2> QED BY <2>1, <2>2, Zenon
<1>4. f.of \in Nodes(U) /\ m + 1 <= Len(Parts(f.of)) /\ m + 1 \in Nat /\ m <= m + 1
  BY <1>2, FrameIs
<1>5. Append(KeysTo(f.of, m), k) = KeysTo(f.of, m + 1)
  <2>1. k = KeyOf(f.of, m + 1)
    BY <1>2, Zenon
  <2> QED BY <1>4, <2>1, NextPart
<1>6. PICK a, b, p : a = HeadOf(f.of) /\ b = Len(Parts(f.of)) /\ p = PartsTo(f.of, m)
  OBVIOUS
<1>7. PICK c, d : c = KeysTo(f.of, m) /\ d = KeysTo(f.of, m + 1)
  OBVIOUS
<1>8. r = [head |-> a, need |-> b, keys |-> c, parts |-> p]
  BY <1>2, <1>6, <1>7 DEF Mirror
<1>9. Mirror(y, y.next - 2) = [head |-> a, need |-> b, keys |-> d, parts |-> p]
  BY <1>1, <1>3, <1>6, <1>7 DEF Mirror
<1>10. PICK o : o = Append(r.keys, k)
  OBVIOUS
<1>11. o = d
  BY <1>5, <1>7, <1>8, <1>10
<1>12. s = Mirror(y, y.next - 2)
  <2>1. s = [r EXCEPT !.keys = d]
    BY <1>10, <1>11 DEF Keyed
  <2> QED BY <1>8, <1>9, <2>1
<1>13. Mirror(y, m) \in Readings(U)
  <2>1. y.next - 1 <= Len(Parts(y.of)) /\ m <= y.next - 1
    BY <1>1, <1>3, <1>4
  <2> QED BY <1>1, <2>1, MirrorIs
<1>14. r.head = a
  BY <1>8
<1> QED BY <1>3, <1>6, <1>10, <1>11, <1>12, <1>13, <1>14

LEMMA FirstMirror ==
  ASSUME NEW U, NEW x \in Nodes(U)
  PROVE  /\ Writing(x) \in Frames(U) /\ Writing(x).next = 1
         /\ Reading(HeadOf(x), Len(Parts(x))) = Mirror(Writing(x), 0)
         /\ Reading(HeadOf(x), Len(Parts(x))) \in Readings(U)
<1>1. PICK g : g = Writing(x)
  OBVIOUS
<1>2. g.of = x /\ g.next = 1 /\ g \in Frames(U)
  <2>1. g = [of |-> x, next |-> 1]
    BY <1>1 DEF Writing
  <2>2. PICK E : E = Nodes(U)
    OBVIOUS
  <2>3. [of |-> x, next |-> 1] \in [of : E, next : Nat \ {0}]
    BY <2>2
  <2> QED BY <2>1, <2>2, <2>3 DEF Frames
<1>3. Len(Parts(x)) \in Nat
  BY PartsAre
<1>4. PartsTo(x, 0) = <<>> /\ KeysTo(x, 0) = <<>>
  BY DEF PartsTo, KeysTo
<1>5. g.next - 1 = 0
  BY <1>2
<1>6. Mirror(g, 0) = [head |-> HeadOf(x), need |-> Len(Parts(x)), keys |-> KeysTo(x, 0),
                      parts |-> PartsTo(x, 0)]
  BY <1>2, <1>5, Zenon DEF Mirror
<1>7. Mirror(g, 0) = Reading(HeadOf(x), Len(Parts(x)))
  BY <1>4, <1>6 DEF Reading
<1>8. g.next - 1 <= Len(Parts(g.of)) /\ 0 <= g.next - 1 /\ 0 \in Nat
  BY <1>2, <1>3, <1>5
<1>9. Mirror(g, 0) \in Readings(U)
  BY <1>2, <1>8, MirrorIs
<1> QED BY <1>1, <1>2, <1>7, <1>9

\* Q is what NestedPush says of it.
LEMMA MirroredPush ==
  ASSUME NEW U, NEW S, NEW T, Mirrored(S, T, U), NEW n \in Nat, n = Len(S), n # 0,
         NEW f \in Frames(U), f = S[n], ~Ended(f), NEW x \in Nodes(U),
         NEW Q, Entered(Q, S, n, f, x),
         NEW k, k = KeyOf(f.of, f.next), NEW z, z = Reading(HeadOf(x), Len(Parts(x))),
         NEW R, R = Append([T EXCEPT ![n] = Keyed(T[n], k)], z)
  PROVE  Mirrored(Q, R, U)
<1>1. PICK y : y = Moved(f)
  OBVIOUS
<1>2. /\ Len(Q) = n + 1 /\ n \in Nat /\ n > 0 /\ Q[n + 1] = Writing(x) /\ Q[n] = y
      /\ \A i \in 1..(n - 1) : Q[i] = S[i]
  BY <1>1 DEF Entered
<1>3. T \in Seq(Readings(U)) /\ Len(T) = n /\ T[n] = Mirror(f, f.next - 1)
  BY <1>2 DEF Mirrored
<1>4. PICK r : r = T[n]
  OBVIOUS
<1>5. PICK t : t = Mirror(y, y.next - 2)
  OBVIOUS
<1>6. Keyed(r, k) = t /\ t \in Readings(U)
  <2>1. r = Mirror(f, f.next - 1)
    BY <1>3, <1>4
  <2>2. f.next <= Len(Parts(f.of))
    BY NotEnded
  <2> QED BY <1>1, <1>5, <2>1, <2>2, MirrorMoved
<1>7. z = Mirror(Writing(x), 0) /\ z \in Readings(U) /\ Writing(x).next = 1
  BY FirstMirror
<1>8. PICK P : P = [T EXCEPT ![n] = t]
  OBVIOUS
<1>9. R = Append(P, z)
  BY <1>4, <1>6, <1>8
<1>10. PICK q : q = R
  OBVIOUS
<1>11. /\ q \in Seq(Readings(U)) /\ Len(q) = n + 1 /\ q[n] = t /\ q[n + 1] = z
       /\ \A i \in 1..(n - 1) : q[i] = T[i]
  <2> DEFINE E == Readings(U)
  <2>1. T \in Seq(E) /\ t \in E /\ z \in E
    BY <1>3, <1>6, <1>7
  <2> HIDE DEF E
  <2>2. q = Append(P, z)
    BY <1>9, <1>10
  <2>3. /\ q \in Seq(E) /\ Len(q) = n + 1 /\ q[n] = t /\ q[n + 1] = z
        /\ \A i \in 1..(n - 1) : q[i] = T[i]
    BY <1>2, <1>3, <1>8, <2>1, <2>2, Stacked
  <2> QED BY <2>3 DEF E
<1>12. \A j \in 1..n : q[j] = Mirror(Q[j], Q[j].next - 2)
  <2> TAKE j \in 1..n
  <2>1. CASE j = n
    BY <1>2, <1>5, <1>11, <2>1
  <2>2. CASE j # n
    <3>1. j \in 1..(n - 1) /\ j \in 1..(Len(S) - 1)
      BY <1>2, <2>2
    <3>2. q[j] = T[j] /\ Q[j] = S[j]
      BY <1>2, <1>11, <3>1
    <3> QED BY <3>1, <3>2 DEF Mirrored
  <2> QED BY <2>1, <2>2
<1>13. q[n + 1] = Mirror(Q[n + 1], Q[n + 1].next - 1)
  <2>1. Q[n + 1].next - 1 = 0
    BY <1>2, <1>7
  <2> QED BY <1>2, <1>7, <1>11, <2>1, Zenon
<1>14. Mirrored(Q, q, U)
  <2>1. Len(Q) - 1 = n
    BY <1>2
  <2> QED BY <1>2, <1>11, <1>12, <1>13, <2>1, Zenon DEF Mirrored
<1> QED BY <1>10, <1>14

-----------------------------------------------------------------------------
\* One step of both sides.

LEMMA Lengths ==
  ASSUME NEW t \in Seq(Int), NEW u \in Seq(Int)
  PROVE  t \o u \in Seq(Int) /\ Len(t \o u) = Len(t) + Len(u) /\ Len(t) \in Nat /\ Len(u) \in Nat
  BY ConcatProperties

LEMMA TextIs ==
  ASSUME NEW t \in Texts
  PROVE  t \in Seq(Int) /\ Len(t) \in Nat
  BY DEF Texts

LEMMA BlockLength ==
  ASSUME NEW m \in Int, NEW t \in Seq(Int)
  PROVE  Block(m, t) \in Seq(Int) /\ Len(Block(m, t)) = 2 + Len(t)
<1>1. <<m, Len(t)>> \in Seq(Int) /\ Len(<<m, Len(t)>>) = 2
  <2>1. PICK k \in Int : k = Len(t)
    OBVIOUS
  <2>2. <<m, k>> \in Seq(Int) /\ Len(<<m, k>>) = 2
    OBVIOUS
  <2> QED BY <2>1, <2>2
<1> QED BY <1>1, Lengths DEF Block

LEMMA KeysAgree ==
  ASSUME NEW e, Writes(e), NEW w \in Seq(Int), NEW d, Stands(d, w, Len(e.out), e.content),
         NEW U, NEW v \in Nodes(U), NEW i \in 1..Len(Parts(v)),
         Top(d).head = HeadOf(v), Top(d).keys = KeysTo(v, i - 1), Len(Top(d).keys) = i - 1,
         NEW k, k = PutKey(e, v, i), k.ok, Ahead(w, 0, k.out)
  PROVE  /\ Writes(k) /\ k.values = e.values /\ k.stack = e.stack
         /\ Finds(d, GetKey(d), Len(k.out), k.content, KeyOf(v, i))
<1>1. PICK a \in Nat, c \in Nat : a = Len(e.out) /\ c = e.content
  BY DEF Writes
<1>2. Stands(d, w, a, c)
  BY <1>1
<1>3. PICK t \in Texts : t = KeyOf(v, i)
  BY PartsAre
<1>4. CASE v.kind # "map"
  <2>1. k = e /\ t = <<>>
    BY <1>3, <1>4 DEF PutKey, KeyOf
  <2>2. Top(d).head.kind # "map"
    <3>1. HeadOf(v).kind = v.kind
      BY DEF HeadOf
    <3> QED BY <1>4, <3>1
  <2>3. Finds(d, GetKey(d), a, c, <<>>)
    BY <1>2, <2>2, NoKeyRead
  <2> QED BY <1>1, <1>3, <2>1, <2>3
<1>5. CASE v.kind = "map"
  <2>1. v.entries[i].key = t
    BY <1>3, <1>5 DEF KeyOf
  <2>2. /\ \A j \in 1..(i - 1) : v.entries[j].key # t
        /\ Allowed(c, Len(t), MaxString)
        /\ Wrote(e, k, (e.out \o <<Pair>>) \o Block(Str32, t), c + Len(t))
    <3>1. ~Broke(k)
      BY DEF Broke
    <3> QED BY <1>1, <1>5, <2>1, <3>1, KeyWrites
  <2>3. /\ Writes(k) /\ k.out = (e.out \o <<Pair>>) \o Block(Str32, t) /\ k.content = c + Len(t)
        /\ k.values = e.values /\ k.stack = e.stack
    BY <2>2 DEF Wrote
  <2>4. PICK o \in Seq(Int), p \in Seq(Int), q \in Seq(Int), b \in Seq(Int) :
          o = e.out /\ p = <<Pair>> /\ b = Block(Str32, t) /\ q = o \o p /\ Len(p) = 1
    <3>1. t \in Seq(Int) /\ Str32 \in Int /\ <<Pair>> \in Seq(Int) /\ Len(<<Pair>>) = 1
      BY DEF Texts, Str32, Pair
    <3>2. e.out \in Seq(Int) /\ e.out \o <<Pair>> \in Seq(Int)
      BY <3>1, Lengths DEF Writes
    <3> QED BY <3>1, <3>2, BlockLength
  <2>5. t \in Seq(Int) /\ Len(t) \in Nat
    BY TextIs
  <2>6. Len(b) = 2 + Len(t) /\ Len(q) = a + 1 /\ k.out = q \o b /\ Len(k.out) = Len(q) + Len(b)
    <3>1. Str32 \in Int
      BY DEF Str32
    <3>2. Len(b) = 2 + Len(t)
      BY <2>4, <2>5, <3>1, BlockLength
    <3>3. Len(q) = Len(o) + Len(p)
      BY <2>4, Lengths
    <3>4. k.out = q \o b
      BY <2>3, <2>4
    <3>5. Len(q \o b) = Len(q) + Len(b)
      BY Lengths
    <3>6. Len(o) = a
      BY <1>1, <2>4, Zenon
    <3> QED BY <2>4, <3>2, <3>3, <3>4, <3>5, <3>6, Zenon
  <2>7. Ahead(w, 0, q) /\ Ahead(w, a + 1, b)
    <3>1. Ahead(w, 0, q \o b)
      BY <2>6
    <3>2. Ahead(w, 0, q) /\ Ahead(w, 0 + Len(q), b)
      BY <3>1, AheadOfBoth
    <3>3. 0 + Len(q) = a + 1
      BY <2>6
    <3> QED BY <3>2, <3>3
  <2>8. Ahead(w, a, p)
    <3>1. Ahead(w, 0, o \o p)
      BY <2>4, <2>7
    <3>2. Ahead(w, 0 + Len(o), p)
      BY <3>1, AheadOfBoth
    <3>3. 0 + Len(o) = a
      BY <1>1, <2>4
    <3> QED BY <3>2, <3>3
  <2>9. Top(d).head.kind = "map"
    BY <1>5 DEF HeadOf
  <2>10. \A j \in 1..Len(Top(d).keys) : Top(d).keys[j] # t
    <3> TAKE j \in 1..Len(Top(d).keys)
    <3>1. j \in 1..(i - 1)
      OBVIOUS
    <3>2. KeysTo(v, i - 1)[j] = v.entries[j].key
      BY <1>5, <3>1 DEF KeysTo, KeyOf
    <3> QED BY <2>2, <3>1, <3>2
  <2>11. Finds(d, GetKey(d), a + 1 + 2 + Len(t), c + Len(t), t)
    <3>1. Ahead(w, a, <<Pair>>) /\ Ahead(w, a + 1, Block(Str32, t))
      BY <2>4, <2>7, <2>8
    <3> QED BY <1>2, <2>2, <2>9, <2>10, <3>1, KeyRead
  <2>12. Len(k.out) = a + 1 + 2 + Len(t)
    <3>1. Len(k.out) = (a + 1) + (2 + Len(t))
      BY <2>6
    <3> QED BY <2>5, <3>1
  <2> QED BY <1>3, <2>3, <2>11, <2>12
<1> QED BY <1>4, <1>5

LEMMA BodyIs ==
  ASSUME NEW U, NEW v \in Nodes(U), NEW h, h = HeadOf(v), NEW n \in Nat
  PROVE  Body(h, n) \in Seq(Int) /\ Weight(h) \in Nat
<1> DEFINE Goal == Body(h, n) \in Seq(Int) /\ Weight(h) \in Nat
<1>1. ASSUME NEW x \in Int, NEW y \in Int PROVE <<x>> \in Seq(Int) /\ <<x, y>> \in Seq(Int)
  OBVIOUS
<1>2. ASSUME NEW t \in Seq(Int), NEW m \in Int PROVE Block(m, t) \in Seq(Int)
  BY BlockLength
<1>3. /\ Nil \in Int /\ True \in Int /\ False \in Int /\ Int64 \in Int /\ Float64 \in Int
      /\ Str32 \in Int /\ Bin32 \in Int /\ Array32 \in Int /\ Triple \in Int /\ Uint64 \in Int
  BY DEF Nil, True, False, Int64, Float64, Str32, Bin32, Array32, Triple, Uint64
<1>4. ASSUME v = [kind |-> "null"] PROVE Goal
  <2>1. Body(h, n) = <<Nil>> /\ Weight(h) = 0
    BY <1>4 DEF HeadOf, Body, Weight
  <2> QED BY <1>1, <1>3, <2>1
<1>5. ASSUME NEW b \in BOOLEAN, v = [kind |-> "bool", b |-> b] PROVE Goal
  <2>1. Body(h, n) = <<IF b THEN True ELSE False>> /\ Weight(h) = 0
    BY <1>5 DEF HeadOf, Body, Weight
  <2> QED BY <1>1, <1>3, <2>1
<1>6. ASSUME NEW x \in Int, v = [kind |-> "integer", n |-> x] PROVE Goal
  <2>1. Body(h, n) = <<Int64, x>> /\ Weight(h) = 0
    BY <1>6 DEF HeadOf, Body, Weight
  <2> QED BY <1>1, <1>3, <2>1
<1>7. ASSUME NEW x \in Int, v = [kind |-> "float", n |-> x] PROVE Goal
  <2>1. Body(h, n) = <<Float64, x>> /\ Weight(h) = 0
    BY <1>7 DEF HeadOf, Body, Weight
  <2> QED BY <1>1, <1>3, <2>1
<1>8. ASSUME NEW x \in Texts, v = [kind |-> "string", s |-> x] PROVE Goal
  <2>1. Body(h, n) = Block(Str32, x) /\ Weight(h) = Len(x)
    BY <1>8 DEF HeadOf, Body, Weight
  <2> QED BY <1>2, <1>3, <2>1, TextIs
<1>9. ASSUME NEW x \in Seq(Int), v = [kind |-> "bytes", s |-> x] PROVE Goal
  <2>1. Body(h, n) = Block(Bin32, x) /\ Weight(h) = Len(x)
    BY <1>9 DEF HeadOf, Body, Weight
  <2> QED BY <1>2, <1>3, <2>1
<1>10. ASSUME NEW i \in Nat, NEW j \in Nat, NEW x \in Texts,
              v = [kind |-> "handle", id |-> i, generation |-> j, name |-> x]
       PROVE  Goal
  <2>1. Body(h, n) = <<Triple, Uint64, i, Uint64, j>> \o Block(Str32, x) /\ Weight(h) = 0
    BY <1>10 DEF HeadOf, Body, Weight
  <2>2. <<Triple, Uint64, i, Uint64, j>> \in Seq(Int)
    BY <1>3
  <2>3. Block(Str32, x) \in Seq(Int)
    BY <1>2, <1>3, TextIs
  <2> QED BY <2>1, <2>2, <2>3, Lengths
<1>11. ASSUME NEW x \in Codes, v = [kind |-> "error", code |-> x] PROVE Goal
  <2>1. Body(h, n) = Block(Str32, WireCode(x)) /\ Weight(h) = 0
    BY <1>11 DEF HeadOf, Body, Weight
  <2>2. WireCode(x) \in Seq(Int)
    BY WireCodeIs, TextIs
  <2> QED BY <1>2, <1>3, <2>1, <2>2
<1>12. ASSUME NEW s \in Seq(U), v = [kind |-> "array", items |-> s] PROVE Goal
  <2>1. Body(h, n) = <<Array32, n>> /\ Weight(h) = 0
    BY <1>12 DEF HeadOf, Body, Weight
  <2> QED BY <1>1, <1>3, <2>1
<1>13. ASSUME NEW s \in Seq([key : Texts, val : U]), v = [kind |-> "map", entries |-> s] PROVE Goal
  <2>1. Body(h, n) = <<Array32, n>> /\ Weight(h) = 0
    BY <1>13 DEF HeadOf, Body, Weight
  <2> QED BY <1>1, <1>3, <2>1
<1>14. v \in Scalars => Goal
  BY <1>4, <1>5, <1>6, <1>7, <1>8, <1>9, <1>10, <1>11, ScalarShapes
<1> QED BY <1>12, <1>13, <1>14, Shapes

LEMMA ValuesAgree ==
  ASSUME NEW e, Writes(e), NEW w \in Seq(Int), NEW d, Stands(d, w, Len(e.out), e.content),
         d.values = e.values, NEW U, NEW x \in Nodes(U), NEW depth,
         NEW g, g = Put(e, x, depth), g.ok, Ahead(w, 0, g.out), NEW r, r = Get(d, depth)
  PROVE  /\ Writes(g) /\ g.values = e.values + 1 /\ g.stack = e.stack
         /\ Stands(r, w, Len(g.out), g.content) /\ r.values = g.values
         /\ r.stack = d.stack /\ r.got = Reading(HeadOf(x), Len(Parts(x)))
<1>1. PICK a \in Nat, c \in Nat, o \in Seq(Int) : a = Len(e.out) /\ c = e.content /\ o = e.out
  <2>1. e.out \in Seq(Int) /\ e.content \in Nat
    BY DEF Writes
  <2>2. Len(e.out) \in Nat
    BY <2>1
  <2> QED BY <2>1, <2>2, Zenon
<1>2. Stands(d, w, a, c)
  BY <1>1
<1>3. PICK h, n : h = HeadOf(x) /\ n = Len(Parts(x))
  OBVIOUS
<1>4. ~Broke(g)
  BY DEF Broke
<1>5. /\ Tag(x) \in Int /\ n \in Nat
      /\ ~TooDeep(depth) /\ e.values < MaxValues /\ Fine(h, n, e.content)
      /\ Writes(g) /\ g.values = e.values + 1 /\ g.stack = e.stack
      /\ g.out = (e.out \o <<Pair, Tag(x)>>) \o Body(h, n)
      /\ g.content = e.content + Weight(h)
  BY <1>3, <1>4, PutWrites
<1>6. PICK b \in Seq(Int), k \in Nat : b = Body(h, n) /\ k = Weight(h)
  BY <1>3, <1>5, BodyIs
<1>7. PICK p \in Seq(Int) : p = <<Pair, Tag(x)>> /\ Len(p) = 2
  <2>1. PICK y \in Int, z \in Int : y = Pair /\ z = Tag(x)
    BY <1>5 DEF Pair
  <2>2. <<y, z>> \in Seq(Int) /\ Len(<<y, z>>) = 2
    OBVIOUS
  <2> QED BY <2>1, <2>2
<1>8. PICK q \in Seq(Int) : q = o \o p /\ Len(q) = a + 2
  <2>1. o \o p \in Seq(Int) /\ Len(o \o p) = Len(o) + Len(p)
    BY Lengths
  <2>2. Len(o \o p) = a + 2
    BY <1>1, <1>7, <2>1, Zenon
  <2> QED BY <2>1, <2>2
<1>9. g.out = q \o b
  BY <1>1, <1>5, <1>6, <1>7, <1>8, Zenon
<1>10. PICK m \in Nat : m = Len(b)
  OBVIOUS
<1>11. Len(g.out) = a + 2 + m
  <2>1. Len(q \o b) = Len(q) + Len(b)
    BY Lengths
  <2> QED BY <1>8, <1>9, <1>10, <2>1, Zenon
<1>12. Ahead(w, 0, q) /\ Ahead(w, a + 2, b)
  <2>1. Ahead(w, 0, q \o b)
    BY <1>9
  <2>2. Ahead(w, 0, q) /\ Ahead(w, 0 + Len(q), b)
    BY <2>1, AheadOfBoth
  <2>3. 0 + Len(q) = a + 2
    BY <1>8
  <2> QED BY <2>2, <2>3
<1>13. Ahead(w, a, p)
  <2>1. Ahead(w, 0, o \o p)
    BY <1>8, <1>12
  <2>2. Ahead(w, 0 + Len(o), p)
    BY <2>1, AheadOfBoth
  <2>3. 0 + Len(o) = a
    BY <1>1
  <2> QED BY <2>2, <2>3
<1>14. PICK f : f = [d EXCEPT !.values = @ + 1]
  OBVIOUS
<1>15. Taken(f, r, h, n, a + 2, c)
  <2>1. d.values < MaxValues /\ Ahead(w, a, <<Pair, Tag(x)>>) /\ Ahead(w, a + 2, Body(h, n))
        /\ Fine(h, n, c)
    BY <1>1, <1>5, <1>6, <1>7, <1>12, <1>13, Zenon
  <2> QED BY <1>2, <1>3, <1>5, <1>14, <2>1, GetTaken
<1>16. Finds(f, r, a + 2 + m, c + k, Reading(h, n))
  BY <1>6, <1>10, <1>15, Zenon DEF Taken
<1>17. f.values = e.values + 1 /\ f.stack = d.stack /\ f.in = w
  <2>1. PICK j : j = d.values + 1
    OBVIOUS
  <2>2. f = [d EXCEPT !.values = j] /\ IsDecoder(d) /\ d.in = w
    BY <1>2, <1>14, <2>1 DEF Stands, Runs
  <2>3. f.values = j /\ f.stack = d.stack /\ f.in = w
    BY <2>2 DEF IsDecoder
  <2> QED BY <2>1, <2>3
<1>18. /\ Runs(r) /\ r.in = f.in /\ r.at = a + 2 + m /\ r.content = c + k
       /\ r.got = Reading(h, n) /\ r.values = f.values /\ r.stack = f.stack
  BY <1>16 DEF Finds
<1>19. g.content = c + k
  BY <1>1, <1>5, <1>6, Zenon
<1>20. Stands(r, w, Len(g.out), g.content)
  BY <1>11, <1>17, <1>18, <1>19, Zenon DEF Stands
<1>21. r.values = g.values /\ r.stack = d.stack /\ r.got = Reading(HeadOf(x), Len(Parts(x)))
  BY <1>3, <1>5, <1>17, <1>18, Zenon
<1> QED BY <1>5, <1>20, <1>21, Zenon

LEMMA KeyEither ==
  ASSUME NEW e, Writes(e), NEW U, NEW v \in Nodes(U), NEW i \in 1..Len(Parts(v)),
         NEW k, k = PutKey(e, v, i)
  PROVE  Broke(k) \/ (Writes(k) /\ k.values = e.values /\ k.stack = e.stack)
<1>1. CASE v.kind # "map"
  BY <1>1 DEF PutKey
<1>2. CASE v.kind = "map"
  <2>1. PICK t \in Texts : t = KeyOf(v, i)
    BY PartsAre
  <2>2. v.entries[i].key = t
    BY <1>2, <2>1 DEF KeyOf
  <2>3. Broke(k) \/ Wrote(e, k, (e.out \o <<Pair>>) \o Block(Str32, t), e.content + Len(t))
    BY <1>2, <2>2, KeyWrites
  <2> QED BY <2>3 DEF Wrote
<1> QED BY <1>1, <1>2

LEMMA PutEither ==
  ASSUME NEW e, Writes(e) \/ Broke(e), NEW U, NEW v \in Nodes(U), NEW depth,
         NEW g, g = Put(e, v, depth)
  PROVE  \/ Broke(g)
         \/ Writes(e) /\ Writes(g) /\ g.values = e.values + 1 /\ g.stack = e.stack
            /\ e.values < MaxValues
<1>1. CASE Broke(e)
  BY <1>1, BrokenPuts
<1>2. CASE Writes(e)
  <2>1. PICK h, n : h = HeadOf(v) /\ n = Len(Parts(v))
    OBVIOUS
  <2>2. Broke(g) \/ (Writes(g) /\ g.values = e.values + 1 /\ g.stack = e.stack /\ e.values < MaxValues)
    BY <1>2, <2>1, PutWrites
  <2> QED BY <1>2, <2>2
<1> QED BY <1>1, <1>2

WithStack(e, s) == [e EXCEPT !.stack = s]

LEMMA OnwardIs ==
  ASSUME NEW s, NEW n
  PROVE  Onward(s, n) = [s EXCEPT ![n] = Moved(s[n])]
  BY DEF Onward, Moved

LEMMA EndsIs ==
  ASSUME NEW e, e.ok, Len(e.stack) # 0, Ended(Top(e))
  PROVE  EncodeStep(e) = WithStack(e, Front(e.stack))
  BY DEF EncodeStep, WithStack, Ended

LEMMA BeginsIs ==
  ASSUME NEW e, e.ok, Len(e.stack) # 0, ~Ended(Top(e)),
         NEW p, p = Put(PutKey(e, Top(e).of, Top(e).next), Part(Top(e).of, Top(e).next),
                        Len(e.stack) - 1)
  PROVE  EncodeStep(e) = WithStack(p, Append(Onward(p.stack, Len(e.stack)),
                                             Writing(Part(Top(e).of, Top(e).next))))
  BY DEF EncodeStep, WithStack, Ended

LEMMA Restacked ==
  ASSUME NEW e, IsEncoder(e), NEW s
  PROVE  LET g == WithStack(e, s)
         IN  /\ IsEncoder(g) /\ g.ok = e.ok /\ g.out = e.out /\ g.content = e.content
             /\ g.values = e.values /\ g.stack = s
  BY DEF IsEncoder, WithStack

LEMMA EncodeEnds ==
  ASSUME NEW e, Writes(e), NEW n, n = Len(e.stack), n # 0, NEW f, f = Top(e),
         Ended(f), NEW g, g = EncodeStep(e)
  PROVE  /\ Writes(g) /\ g.out = e.out /\ g.content = e.content /\ g.values = e.values
         /\ g.stack = Front(e.stack)
<1>1. PICK s : s = Front(e.stack)
  OBVIOUS
<1>2. e.ok /\ IsEncoder(e)
  BY DEF Writes
<1>3. g = WithStack(e, s)
  BY <1>1, <1>2, EndsIs
<1>4. IsEncoder(e)
  BY <1>2
<1>5. /\ IsEncoder(g) /\ g.ok = e.ok /\ g.out = e.out /\ g.content = e.content
      /\ g.values = e.values /\ g.stack = s
  BY <1>3, <1>4, Restacked
<1> QED BY <1>1, <1>5 DEF Writes

\* k behind the key, p behind the part.
Begun(e, g, k, p, n, f, x) ==
  /\ Writes(g) /\ k.ok /\ p.ok /\ Writes(k) /\ k.stack = e.stack /\ k.values = e.values
  /\ g.out = p.out /\ g.content = p.content /\ g.values = p.values
  /\ p.values = e.values + 1 /\ e.values < MaxValues
  /\ g.stack = Append([e.stack EXCEPT ![n] = Moved(f)], Writing(x))

LEMMA EncodeBegins ==
  ASSUME NEW e, Writes(e), NEW U, NEW n, n = Len(e.stack), n # 0, NEW f \in Frames(U), f = Top(e),
         ~Ended(f), NEW x \in Nodes(U), x = Part(f.of, f.next),
         NEW k, k = PutKey(e, f.of, f.next), NEW p, p = Put(k, x, n - 1),
         NEW g, g = EncodeStep(e)
  PROVE  Broke(g) \/ Begun(e, g, k, p, n, f, x)
<1>1. Broke(k) \/ (Writes(k) /\ k.values = e.values /\ k.stack = e.stack)
  BY KeyEither, NotEnded
<1>2. \/ Broke(p)
      \/ Writes(k) /\ Writes(p) /\ p.values = k.values + 1 /\ p.stack = k.stack
         /\ k.values < MaxValues
  BY <1>1, PutEither
<1>3. PICK s : s = Append(Onward(p.stack, n), Writing(x))
  OBVIOUS
<1>4. g = WithStack(p, s)
  <2>1. e.ok
    BY DEF Writes
  <2> QED BY <1>3, <2>1, BeginsIs
<1>5. IsEncoder(p)
  BY <1>2 DEF Broke, Writes
<1>6. /\ IsEncoder(g) /\ g.ok = p.ok /\ g.out = p.out /\ g.content = p.content
      /\ g.values = p.values /\ g.stack = s
  BY <1>4, <1>5, Restacked
<1>7. CASE Broke(p)
  BY <1>6, <1>7 DEF Broke
<1>8. CASE ~Broke(p)
  <2>1. Writes(k) /\ Writes(p) /\ p.values = k.values + 1 /\ p.stack = k.stack /\ k.values < MaxValues
    BY <1>2, <1>8
  <2>2. k.values = e.values /\ k.stack = e.stack
    BY <1>1, <2>1 DEF Broke, Writes
  <2>3. s = Append([e.stack EXCEPT ![n] = Moved(f)], Writing(x))
    <3>1. p.stack = e.stack /\ f = e.stack[n]
      BY <2>1, <2>2 DEF Top
    <3>2. Onward(e.stack, n) = [e.stack EXCEPT ![n] = Moved(f)]
      BY <3>1, OnwardIs
    <3>3. s = Append(Onward(e.stack, n), Writing(x))
      BY <1>3, <3>1, Zenon
    <3> QED BY <3>2, <3>3
  <2>4. Writes(g) /\ k.ok /\ p.ok
    BY <1>6, <2>1 DEF Writes
  <2>5. p.values = e.values + 1 /\ e.values < MaxValues
    BY <2>1, <2>2
  <2> QED BY <1>6, <2>1, <2>2, <2>3, <2>4, <2>5, Zenon DEF Begun
<1> QED BY <1>7, <1>8

Done(d, v) == [d EXCEPT !.stack = <<>>, !.got = v]

LEMMA LastIs ==
  ASSUME NEW d, d.ok, Len(d.stack) = 1, Len(Top(d).parts) = Top(d).need
  PROVE  DecodeStep(d) = Done(d, Built(Top(d)))
  BY DEF DecodeStep, Deliver, Done

LEMMA DeliversIs ==
  ASSUME NEW d, d.ok, Len(d.stack) # 0, Len(d.stack) # 1, Len(Top(d).parts) = Top(d).need
  PROVE  DecodeStep(d) = WithStack(d, WithPart(Front(d.stack), Len(d.stack) - 1, Built(Top(d))))
  BY DEF DecodeStep, Deliver, WithStack

LEMMA TakesIs ==
  ASSUME NEW d, d.ok, Len(d.stack) # 0, ~(Len(Top(d).parts) = Top(d).need),
         NEW e, e = GetKey(d), e.ok, NEW r, r = Get(e, Len(d.stack) - 1), r.ok
  PROVE  DecodeStep(d) = WithStack(r, Append(WithKey(r.stack, Len(d.stack), e.got), r.got))
  BY DEF DecodeStep, Then, WithStack

LEMMA RestackedDecoder ==
  ASSUME NEW d, IsDecoder(d), NEW s
  PROVE  LET g == WithStack(d, s)
         IN  /\ IsDecoder(g) /\ g.in = d.in /\ g.at = d.at /\ g.content = d.content
             /\ g.values = d.values /\ g.ok = d.ok /\ g.got = d.got /\ g.stack = s
  BY DEF IsDecoder, WithStack

LEMMA DoneIs ==
  ASSUME NEW d, IsDecoder(d), NEW v
  PROVE  LET g == Done(d, v)
         IN  /\ IsDecoder(g) /\ g.in = d.in /\ g.at = d.at /\ g.content = d.content
             /\ g.values = d.values /\ g.ok = d.ok /\ g.got = v /\ g.stack = <<>>
<1>1. PICK x : x = [d EXCEPT !.stack = <<>>]
  OBVIOUS
<1>2. /\ IsDecoder(x) /\ x.in = d.in /\ x.at = d.at /\ x.content = d.content
      /\ x.values = d.values /\ x.ok = d.ok /\ x.stack = <<>>
  BY <1>1 DEF IsDecoder
<1>3. PICK g : g = [x EXCEPT !.got = v]
  OBVIOUS
<1>4. /\ IsDecoder(g) /\ g.in = x.in /\ g.at = x.at /\ g.content = x.content
      /\ g.values = x.values /\ g.ok = x.ok /\ g.got = v /\ g.stack = x.stack
  <2>1. IsDecoder(x)
    BY <1>2
  <2> QED BY <1>3, <2>1 DEF IsDecoder
<1>5. g = Done(d, v)
  BY <1>1, <1>3 DEF Done
<1> QED BY <1>2, <1>4, <1>5, Zenon

LEMMA StillStands ==
  ASSUME NEW w, NEW a, NEW c, NEW d, Stands(d, w, a, c), NEW s, NEW v
  PROVE  /\ IsDecoder(d) /\ d.ok
         /\ Stands(WithStack(d, s), w, a, c) /\ WithStack(d, s).values = d.values
         /\ WithStack(d, s).stack = s
         /\ Stands(Done(d, v), w, a, c) /\ Done(d, v).values = d.values
         /\ Done(d, v).stack = <<>> /\ Done(d, v).got = v
<1>1. IsDecoder(d)
  BY DEF Stands, Runs
<1>2. PICK g : g = WithStack(d, s)
  OBVIOUS
<1>3. /\ IsDecoder(g) /\ g.in = d.in /\ g.at = d.at /\ g.content = d.content
      /\ g.values = d.values /\ g.ok = d.ok /\ g.got = d.got /\ g.stack = s
  BY <1>1, <1>2, RestackedDecoder
<1>4. PICK f : f = Done(d, v)
  OBVIOUS
<1>5. /\ IsDecoder(f) /\ f.in = d.in /\ f.at = d.at /\ f.content = d.content
      /\ f.values = d.values /\ f.ok = d.ok /\ f.got = v /\ f.stack = <<>>
  BY <1>1, <1>4, DoneIs
<1>6. Stands(g, w, a, c) /\ Stands(f, w, a, c) /\ d.ok
  BY <1>3, <1>5 DEF Stands, Runs
<1> QED BY <1>1, <1>2, <1>3, <1>4, <1>5, <1>6, Zenon

\* The encoder has written as far as the decoder has read, and they are inside
\* of the same values.
Lockstep(e, d, w, U, v) ==
  /\ Writes(e) /\ Stands(d, w, Len(e.out), e.content) /\ d.values = e.values
  /\ Nested(e.stack, U, v) /\ Mirrored(e.stack, d.stack, U)
  /\ Len(e.stack) = 0 => d.got = Array(<<v>>)

LEMMA FramesMatch ==
  ASSUME NEW U, NEW v, NEW S, Nested(S, U, v), NEW T, Mirrored(S, T, U), NEW n, n = Len(S), n # 0
  PROVE  /\ n \in Nat /\ n > 0 /\ Len(T) = n /\ S[n] \in Frames(U)
         /\ S[n].next - 1 <= Len(Parts(S[n].of))
         /\ T[n] = Mirror(S[n], S[n].next - 1) /\ T[n] \in Readings(U)
<1>1. S \in Seq(Frames(U)) /\ T \in Seq(Readings(U)) /\ Len(T) = n
  BY DEF Nested, Mirrored
<1>2. n \in Nat /\ n > 0 /\ n \in 1..Len(S) /\ n \in 1..Len(T)
  BY <1>1
<1>3. S[n] \in Frames(U) /\ T[n] \in Readings(U)
  BY <1>1, <1>2
<1>4. S[n].next - 1 <= Len(Parts(S[n].of))
  BY <1>2 DEF Nested
<1>5. T[n] = Mirror(S[n], S[n].next - 1)
  BY <1>2 DEF Mirrored
<1> QED BY <1>1, <1>2, <1>3, <1>4, <1>5

LEMMA LockstepEnds ==
  ASSUME NEW w, NEW U, NEW v, NEW e, NEW d, Lockstep(e, d, w, U, v), Len(e.stack) # 0,
         Ended(Top(e))
  PROVE  Lockstep(EncodeStep(e), DecodeStep(d), w, U, v)
<1>1. PICK n, f, S, T : n = Len(e.stack) /\ f = Top(e) /\ S = e.stack /\ T = d.stack
  OBVIOUS
<1>2. PICK a, c : a = Len(e.out) /\ c = e.content
  OBVIOUS
<1>3. Stands(d, w, a, c) /\ Writes(e) /\ Nested(S, U, v) /\ Mirrored(S, T, U) /\ d.values = e.values
  BY <1>1, <1>2 DEF Lockstep
<1>4. /\ n \in Nat /\ n > 0 /\ Len(T) = n /\ f = S[n] /\ f \in Frames(U)
      /\ f.next - 1 <= Len(Parts(f.of)) /\ T[n] = Mirror(f, f.next - 1)
  <2>1. n = Len(S) /\ n # 0 /\ f = S[n]
    BY <1>1 DEF Top
  <2> QED BY <1>3, <2>1, FramesMatch
<1>5. PICK m \in Nat : m = f.next - 1 /\ m = Len(Parts(f.of)) /\ f.of \in Nodes(U)
  <2>1. f.next > Len(Parts(f.of)) /\ f.next \in Nat /\ f.next - 1 \in Nat /\ f.of \in Nodes(U)
        /\ Len(Parts(f.of)) \in Nat
    BY <1>1, <1>4, FrameIs DEF Ended
  <2> QED BY <1>4, <2>1
<1>6. PICK r : r = T[n]
  OBVIOUS
<1>7. /\ r.head = HeadOf(f.of) /\ r.need = m /\ r.keys = KeysTo(f.of, m)
      /\ r.parts = PartsTo(f.of, m) /\ Len(r.parts) = m
  <2>1. r = Mirror(f, m) /\ m <= f.next - 1
    BY <1>4, <1>5, <1>6
  <2> QED BY <1>4, <1>5, <2>1, MirrorIs
<1>8. Built(r) = f.of
  BY <1>5, <1>7, BuiltIs
<1>9. Top(d) = r /\ Len(d.stack) = n
  BY <1>1, <1>4, <1>6 DEF Top
<1>10. PICK g : g = EncodeStep(e)
  OBVIOUS
<1>11. /\ Writes(g) /\ g.out = e.out /\ g.content = e.content /\ g.values = e.values
       /\ g.stack = Front(S)
  BY <1>1, <1>3, <1>10, EncodeEnds
<1>12. Nested(Front(S), U, v) /\ Len(Front(S)) = n - 1
  BY <1>1, <1>3, <1>4, NestedFront
<1>13. d.ok
  BY <1>3, StillStands
<1>14. CASE n = 1
  <2>1. DecodeStep(d) = Done(d, f.of)
    BY <1>7, <1>8, <1>9, <1>13, <1>14, LastIs
  <2>2. f.of = Array(<<v>>)
    BY <1>1, <1>3, <1>4, <1>14 DEF Nested
  <2>3. PICK h : h = DecodeStep(d)
    OBVIOUS
  <2>4. Stands(h, w, a, c) /\ h.values = d.values /\ h.stack = <<>> /\ h.got = Array(<<v>>)
    BY <1>3, <2>1, <2>2, <2>3, StillStands
  <2>5. Len(Front(S)) = 0
    BY <1>12, <1>14
  <2>6. Mirrored(Front(S), <<>>, U)
    BY <2>5 DEF Mirrored
  <2>7. Lockstep(g, h, w, U, v)
    BY <1>2, <1>3, <1>11, <1>12, <2>4, <2>6, Zenon DEF Lockstep
  <2> QED BY <1>10, <2>3, <2>7
<1>15. CASE n # 1
  <2>1. PICK P : P = WithPart(Front(T), n - 1, f.of)
    OBVIOUS
  <2>2. DecodeStep(d) = WithStack(d, P)
    BY <1>1, <1>4, <1>7, <1>8, <1>9, <1>13, <1>15, <2>1, DeliversIs
  <2>3. PICK h : h = DecodeStep(d)
    OBVIOUS
  <2>4. Stands(h, w, a, c) /\ h.values = d.values /\ h.stack = P
    BY <1>3, <2>2, <2>3, StillStands
  <2>5. n = Len(S) /\ n > 1
    <3>1. n \in Nat /\ n > 0
      BY <1>4
    <3>2. n > 1
      BY <1>15, <3>1
    <3>3. n = Len(S)
      BY <1>1
    <3> QED BY <3>2, <3>3
  <2>6. Mirrored(Front(S), P, U)
    BY <1>3, <1>4, <2>1, <2>5, MirroredFront
  <2>7. Len(Front(S)) # 0
    BY <1>12, <2>5
  <2>8. Lockstep(g, h, w, U, v)
    BY <1>2, <1>3, <1>11, <1>12, <2>4, <2>6, <2>7, Zenon DEF Lockstep
  <2> QED BY <1>10, <2>3, <2>8
<1> QED BY <1>14, <1>15

LEMMA FrontAhead ==
  ASSUME NEW w \in Seq(Int), NEW t \in Seq(Int), NEW u \in Seq(Int), Ahead(w, 0, t \o u)
  PROVE  Ahead(w, 0, t)
  BY AheadOfBoth

LEMMA PutAhead ==
  ASSUME NEW e, Writes(e), NEW w \in Seq(Int), NEW U, NEW x \in Nodes(U), NEW depth,
         NEW g, g = Put(e, x, depth), g.ok, Ahead(w, 0, g.out)
  PROVE  Ahead(w, 0, e.out)
<1>1. PICK h, n : h = HeadOf(x) /\ n = Len(Parts(x))
  OBVIOUS
<1>2. ~Broke(g)
  BY DEF Broke
<1>3. /\ Tag(x) \in Int /\ n \in Nat
      /\ g.out = (e.out \o <<Pair, Tag(x)>>) \o Body(h, n)
  BY <1>1, <1>2, PutWrites
<1>4. PICK o \in Seq(Int) : o = e.out
  BY DEF Writes
<1>5. PICK b \in Seq(Int) : b = Body(h, n)
  BY <1>1, <1>3, BodyIs
<1>6. PICK p \in Seq(Int) : p = <<Pair, Tag(x)>>
  <2>1. PICK y \in Int, z \in Int : y = Pair /\ z = Tag(x)
    BY <1>3 DEF Pair
  <2>2. <<y, z>> \in Seq(Int)
    OBVIOUS
  <2> QED BY <2>1, <2>2
<1>7. PICK q \in Seq(Int) : q = o \o p
  BY Lengths
<1>8. Ahead(w, 0, q \o b)
  BY <1>3, <1>4, <1>5, <1>6, <1>7, Zenon
<1>9. Ahead(w, 0, q)
  BY <1>8, FrontAhead
<1>10. Ahead(w, 0, o \o p)
  BY <1>7, <1>9
<1>11. Ahead(w, 0, o)
  BY <1>10, FrontAhead
<1> QED BY <1>4, <1>11

LEMMA KeyAhead ==
  ASSUME NEW e, Writes(e), NEW w \in Seq(Int), NEW U, NEW v \in Nodes(U),
         NEW i \in 1..Len(Parts(v)), NEW k, k = PutKey(e, v, i), k.ok, Ahead(w, 0, k.out)
  PROVE  Ahead(w, 0, e.out)
<1>1. CASE v.kind # "map"
  BY <1>1 DEF PutKey
<1>2. CASE v.kind = "map"
  <2>1. PICK t \in Texts : t = KeyOf(v, i)
    BY PartsAre
  <2>2. v.entries[i].key = t
    BY <1>2, <2>1 DEF KeyOf
  <2>3. ~Broke(k)
    BY DEF Broke
  <2>4. Wrote(e, k, (e.out \o <<Pair>>) \o Block(Str32, t), e.content + Len(t))
    BY <1>2, <2>2, <2>3, KeyWrites
  <2>5. k.out = (e.out \o <<Pair>>) \o Block(Str32, t)
    BY <2>4 DEF Wrote
  <2>6. PICK o \in Seq(Int) : o = e.out
    BY DEF Writes
  <2>7. PICK p \in Seq(Int) : p = <<Pair>>
    <3>1. <<Pair>> \in Seq(Int)
      BY DEF Pair
    <3> QED BY <3>1
  <2>8. PICK b \in Seq(Int) : b = Block(Str32, t)
    <3>1. Str32 \in Int
      BY DEF Str32
    <3> QED BY <3>1, TextIs, BlockLength
  <2>9. PICK q \in Seq(Int) : q = o \o p
    BY Lengths
  <2>10. Ahead(w, 0, q \o b)
    BY <2>5, <2>6, <2>7, <2>8, <2>9, Zenon
  <2>11. Ahead(w, 0, q)
    BY <2>10, FrontAhead
  <2>12. Ahead(w, 0, o \o p)
    BY <2>9, <2>11
  <2>13. Ahead(w, 0, o)
    BY <2>12, FrontAhead
  <2> QED BY <2>6, <2>13
<1> QED BY <1>1, <1>2

LEMMA LockstepBegins ==
  ASSUME NEW w \in Seq(Int), NEW U, U \subseteq Nodes(U), NEW v, NEW e, NEW d,
         Lockstep(e, d, w, U, v), Len(e.stack) # 0, ~Ended(Top(e)),
         NEW g, g = EncodeStep(e), g.ok, Ahead(w, 0, g.out)
  PROVE  Lockstep(g, DecodeStep(d), w, U, v) /\ Ahead(w, 0, e.out)
<1>1. PICK n, f, S, T : n = Len(e.stack) /\ f = Top(e) /\ S = e.stack /\ T = d.stack
  OBVIOUS
<1>2. PICK a, c : a = Len(e.out) /\ c = e.content
  OBVIOUS
<1>3. Stands(d, w, a, c) /\ Writes(e) /\ Nested(S, U, v) /\ Mirrored(S, T, U) /\ d.values = e.values
  BY <1>1, <1>2 DEF Lockstep
<1>4. /\ n \in Nat /\ n > 0 /\ Len(T) = n /\ f = S[n] /\ f \in Frames(U)
      /\ f.next - 1 <= Len(Parts(f.of)) /\ T[n] = Mirror(f, f.next - 1)
  <2>1. n = Len(S) /\ n # 0 /\ f = S[n]
    BY <1>1 DEF Top
  <2> QED BY <1>3, <2>1, FramesMatch
<1>5. PICK o \in Nodes(U), i \in Nat, N \in Nat : o = f.of /\ i = f.next /\ N = Len(Parts(o))
  BY <1>4, FrameIs
<1>6. ~Ended(f) /\ i <= N /\ i \in 1..N
  <2>1. ~Ended(f)
    BY <1>1
  <2> QED BY <1>4, <1>5, <2>1, NotEnded
<1>7. PICK x \in Nodes(U) : x = Part(o, i)
  <2>1. Part(o, i) \in U
    BY <1>4, <1>5, <1>6, NotEnded
  <2> QED BY <2>1
<1>8. PICK k, p : k = PutKey(e, o, i) /\ p = Put(k, x, n - 1)
  OBVIOUS
<1>9. ~Broke(g)
  BY DEF Broke
<1>10. /\ Writes(g) /\ k.ok /\ p.ok /\ Writes(k) /\ k.stack = e.stack /\ k.values = e.values
       /\ g.out = p.out /\ g.content = p.content /\ g.values = p.values
       /\ g.stack = Append([e.stack EXCEPT ![n] = Moved(f)], Writing(x))
  <2>1. n = Len(e.stack) /\ n # 0 /\ f = Top(e) /\ f \in Frames(U)
    BY <1>1, <1>4
  <2>2. x = Part(f.of, f.next) /\ k = PutKey(e, f.of, f.next) /\ p = Put(k, x, n - 1)
    BY <1>5, <1>7, <1>8
  <2>3. Broke(g) \/ Begun(e, g, k, p, n, f, x)
    BY <1>3, <1>6, <2>1, <2>2, EncodeBegins
  <2> QED BY <1>9, <2>3, Zenon DEF Begun
<1>11. Ahead(w, 0, k.out)
  <2>1. Ahead(w, 0, p.out)
    BY <1>10
  <2> QED BY <1>8, <1>10, <2>1, PutAhead
<1>12. Ahead(w, 0, e.out)
  BY <1>3, <1>5, <1>6, <1>8, <1>10, <1>11, KeyAhead
<1>13. PICK r : r = T[n]
  OBVIOUS
<1>14. /\ r.head = HeadOf(o) /\ r.need = N /\ r.keys = KeysTo(o, i - 1)
       /\ Len(r.keys) = i - 1 /\ Len(r.parts) = i - 1
  <2>1. PICK m \in Nat : m = f.next - 1 /\ m = i - 1 /\ m <= f.next - 1
    BY <1>5, <1>6
  <2>2. r = Mirror(f, m)
    BY <1>4, <1>13, <2>1
  <2>3. /\ r.head = HeadOf(f.of) /\ r.need = Len(Parts(f.of)) /\ r.keys = KeysTo(f.of, f.next - 1)
        /\ Len(r.keys) = f.next - 1 /\ Len(r.parts) = m
    BY <1>4, <2>1, <2>2, MirrorIs
  <2> QED BY <1>5, <2>1, <2>3, Zenon
<1>15. Top(d) = r /\ Len(d.stack) = n
  BY <1>1, <1>4, <1>13 DEF Top
<1>16. PICK y : y = GetKey(d)
  OBVIOUS
<1>17. Finds(d, y, Len(k.out), k.content, KeyOf(o, i))
  <2>1. Stands(d, w, Len(e.out), e.content)
    BY <1>2, <1>3
  <2>2. Top(d).head = HeadOf(o) /\ Top(d).keys = KeysTo(o, i - 1) /\ Len(Top(d).keys) = i - 1
    BY <1>14, <1>15
  <2>3. i \in 1..Len(Parts(o))
    BY <1>5, <1>6
  <2> QED BY <1>3, <1>8, <1>10, <1>11, <1>16, <2>1, <2>2, <2>3, KeysAgree
<1>18. /\ Stands(y, w, Len(k.out), k.content) /\ y.values = k.values /\ y.stack = T
       /\ y.got = KeyOf(o, i) /\ y.ok
  <2>1. Stands(y, w, Len(k.out), k.content)
    BY <1>3, <1>17, FindsStands
  <2>2. y.values = d.values /\ y.stack = d.stack /\ y.got = KeyOf(o, i) /\ Runs(y)
    BY <1>17 DEF Finds
  <2>3. y.ok
    BY <2>2 DEF Runs
  <2> QED BY <1>1, <1>3, <1>10, <2>1, <2>2, <2>3
<1>19. PICK z : z = Get(y, n - 1)
  OBVIOUS
<1>20. /\ Stands(z, w, Len(p.out), p.content) /\ z.values = p.values
       /\ z.stack = T /\ z.got = Reading(HeadOf(x), Len(Parts(x)))
  <2>1. Ahead(w, 0, p.out)
    BY <1>10
  <2>2. /\ Stands(z, w, Len(p.out), p.content) /\ z.values = p.values
        /\ z.stack = y.stack /\ z.got = Reading(HeadOf(x), Len(Parts(x)))
    BY <1>8, <1>10, <1>18, <1>19, <2>1, ValuesAgree
  <2> QED BY <1>18, <2>2
<1>21. PICK R : R = Append(WithKey(T, n, KeyOf(o, i)), z.got)
  OBVIOUS
<1>22. DecodeStep(d) = WithStack(z, R)
  <2>1. z.ok
    BY <1>20, StillStands
  <2>2. d.ok
    BY <1>3, StillStands
  <2>3. ~(Len(Top(d).parts) = Top(d).need)
    <3>1. ~(i - 1 = N)
      BY <1>6
    <3> QED BY <1>14, <1>15, <3>1
  <2>4. Len(d.stack) # 0
    BY <1>4, <1>15
  <2>5. DecodeStep(d) = WithStack(z, Append(WithKey(z.stack, n, y.got), z.got))
    BY <1>15, <1>16, <1>18, <1>19, <2>1, <2>2, <2>3, <2>4, TakesIs
  <2> QED BY <1>18, <1>20, <1>21, <2>5
<1>23. PICK h : h = DecodeStep(d)
  OBVIOUS
<1>24. Stands(h, w, Len(g.out), g.content) /\ h.values = g.values /\ h.stack = R
  <2>1. Stands(h, w, Len(p.out), p.content) /\ h.values = z.values /\ h.stack = R
    BY <1>20, <1>22, <1>23, StillStands
  <2> QED BY <1>10, <1>20, <2>1
<1>25. PICK Q : Q = g.stack
  OBVIOUS
<1>26. Nested(Q, U, v) /\ Entered(Q, S, n, f, x)
  <2>1. Q = Append([S EXCEPT ![n] = Moved(f)], Writing(x))
    BY <1>1, <1>10, <1>25
  <2>2. n = Len(S) /\ n # 0 /\ f = S[n] /\ x = Part(f.of, f.next)
    BY <1>1, <1>4, <1>5, <1>7
  <2> QED BY <1>3, <1>6, <2>1, <2>2, NestedPush
<1>27. Mirrored(Q, R, U)
  <2>1. R = Append([T EXCEPT ![n] = Keyed(T[n], KeyOf(o, i))], Reading(HeadOf(x), Len(Parts(x))))
    BY <1>20, <1>21 DEF WithKey, Keyed
  <2>2. n = Len(S) /\ n # 0 /\ n \in Nat /\ f = S[n] /\ f \in Frames(U) /\ KeyOf(o, i) = KeyOf(f.of, f.next)
    BY <1>1, <1>4, <1>5
  <2>4. PICK key : key = KeyOf(f.of, f.next)
    OBVIOUS
  <2>5. PICK first : first = Reading(HeadOf(x), Len(Parts(x)))
    OBVIOUS
  <2>6. R = Append([T EXCEPT ![n] = Keyed(T[n], key)], first)
    BY <2>1, <2>2, <2>4, <2>5
  <2> QED BY <1>3, <1>6, <1>26, <2>2, <2>4, <2>5, <2>6, MirroredPush
<1>28. Len(Q) # 0
  BY <1>4, <1>26 DEF Entered
<1>29. Lockstep(g, h, w, U, v)
  BY <1>10, <1>24, <1>25, <1>26, <1>27, <1>28, Zenon DEF Lockstep
<1> QED BY <1>12, <1>23, <1>29

-----------------------------------------------------------------------------
\* The whole run of both sides.

LEMMA EncodeStays ==
  ASSUME NEW e, ~e.ok \/ Len(e.stack) = 0
  PROVE  EncodeStep(e) = e
  BY DEF EncodeStep

LEMMA DecodeStays ==
  ASSUME NEW d, Len(d.stack) = 0
  PROVE  DecodeStep(d) = d
  BY DEF DecodeStep

\* An encoder k steps on its way through v: every value it has counted has
\* begun, and all have ended but those it is inside of.
Encodes(e, k, U, v) ==
  \/ Broke(e)
  \/ /\ Writes(e) /\ Nested(e.stack, U, v) /\ e.values <= MaxValues
     /\ Len(e.stack) # 0 => k + Len(e.stack) = 2 * e.values + 1

LEMMA NewEncodes ==
  ASSUME NEW U, U \subseteq Nodes(U), NEW v \in U
  PROVE  Encodes(NewEncoder(v), 0, U, v) /\ Writes(NewEncoder(v))
         /\ Array(<<v>>) \in Nodes(U)
<1>1. PICK f : f = Writing(Array(<<v>>))
  OBVIOUS
<1>2. Array(<<v>>) \in Nodes(U)
  <2>1. <<v>> \in Seq(U)
    OBVIOUS
  <2>2. Array(<<v>>) \in [kind : {"array"}, items : Seq(U)]
    BY <2>1 DEF Array
  <2> QED BY <2>2 DEF Nodes
<1>3. f \in Frames(U) /\ f.next = 1 /\ f.of = Array(<<v>>)
  <2>1. f.of = Array(<<v>>)
    BY <1>1 DEF Writing
  <2> QED BY <1>1, <1>2, <2>1, FirstMirror
<1>4. PICK S : S = <<f>>
  OBVIOUS
<1>5. S \in Seq(Frames(U)) /\ Len(S) = 1 /\ S[1] = f
  BY <1>3, <1>4
<1>6. PICK e : e = NewEncoder(v)
  OBVIOUS
<1>7. e = [stack |-> S, out |-> <<>>, content |-> 0, values |-> 0, ok |-> TRUE]
  BY <1>1, <1>4, <1>6 DEF NewEncoder
<1>8. e.stack = S /\ e.out = <<>> /\ e.content = 0 /\ e.values = 0 /\ e.ok
  BY <1>7
<1>9. IsEncoder(e)
  BY <1>7, Zenon DEF IsEncoder
<1>10. Writes(e)
  BY <1>8, <1>9 DEF Writes
<1>11. Nested(S, U, v)
  <2>1. \A j \in 1..1 : S[j].next - 1 <= Len(Parts(S[j].of))
    <3>1. Len(Parts(f.of)) \in Nat
      BY <1>3, FrameIs
    <3> QED BY <1>3, <1>5, <3>1
  <2>2. 1..(Len(S) - 1) = {}
    BY <1>5
  <2> QED BY <1>3, <1>5, <2>1, <2>2 DEF Nested
<1>12. Encodes(e, 0, U, v)
  <2>1. MaxValues \in Nat
    BY LimitsAssumption
  <2>2. e.values <= MaxValues /\ 0 + Len(e.stack) = 2 * e.values + 1
    BY <1>5, <1>8, <2>1
  <2> QED BY <1>8, <1>10, <1>11, <2>2 DEF Encodes
<1> QED BY <1>2, <1>6, <1>10, <1>12

LEMMA EncodesOn ==
  ASSUME NEW U, U \subseteq Nodes(U), NEW v, NEW k \in Nat, NEW e, Encodes(e, k, U, v),
         NEW g, g = EncodeStep(e)
  PROVE  /\ Encodes(g, k + 1, U, v)
         /\ ~Broke(g) => /\ ~Broke(e)
                         /\ \A w \in Seq(Int) : Ahead(w, 0, g.out) => Ahead(w, 0, e.out)
<1>1. CASE Broke(e)
  <2>1. ~e.ok
    BY <1>1 DEF Broke
  <2>2. g = e
    BY <2>1, EncodeStays
  <2> QED BY <1>1, <2>2 DEF Encodes
<1>2. CASE ~Broke(e)
  <2>1. PICK S, n, V : S = e.stack /\ n = Len(S) /\ V = e.values
    OBVIOUS
  <2>2. Writes(e) /\ Nested(S, U, v) /\ V <= MaxValues /\ V \in Nat
        /\ (n # 0 => k + n = 2 * V + 1)
    BY <1>2, <2>1 DEF Encodes, Writes
  <2>3. n \in Nat
    BY <2>1, <2>2 DEF Nested
  <2>4. CASE n = 0
    <3>1. g = e
      BY <2>1, <2>4, EncodeStays
    <3>2. Encodes(g, k + 1, U, v)
      BY <2>1, <2>2, <2>4, <3>1 DEF Encodes
    <3> QED BY <1>2, <3>1, <3>2
  <2>5. CASE n # 0 /\ Ended(Top(e))
    <3>1. /\ Writes(g) /\ g.out = e.out /\ g.values = V /\ g.stack = Front(S)
      BY <2>1, <2>2, <2>5, EncodeEnds
    <3>2. Nested(Front(S), U, v) /\ Len(Front(S)) = n - 1
      <4>1. Len(S) > 0
        BY <2>1, <2>3, <2>5
      <4> QED BY <2>1, <2>2, <4>1, NestedFront
    <3>3. (k + 1) + (n - 1) = 2 * V + 1
      BY <2>2, <2>3, <2>5
    <3>4. Len(g.stack) # 0 => (k + 1) + Len(g.stack) = 2 * g.values + 1
      BY <3>1, <3>2, <3>3
    <3>5. Encodes(g, k + 1, U, v)
      BY <2>2, <3>1, <3>2, <3>4, Zenon DEF Encodes
    <3> QED BY <1>2, <3>1, <3>5
  <2>6. CASE n # 0 /\ ~Ended(Top(e))
    <3>1. PICK f \in Frames(U) : f = Top(e) /\ f = S[n]
      <4>1. S \in Seq(Frames(U)) /\ n \in 1..Len(S)
        BY <2>1, <2>2, <2>3, <2>6 DEF Nested
      <4>2. S[n] \in Frames(U)
        BY <4>1
      <4> QED BY <2>1, <4>2 DEF Top
    <3>2. PICK i, o, x : i = f.next /\ o = f.of /\ x = Part(o, i)
      OBVIOUS
    <3>3. o \in Nodes(U) /\ i \in 1..Len(Parts(o)) /\ x \in Nodes(U)
      <4>1. ~Ended(f)
        BY <2>6, <3>1
      <4> QED BY <3>2, <4>1, NotEnded
    <3>4. PICK y, p : y = PutKey(e, o, i) /\ p = Put(y, x, n - 1)
      OBVIOUS
    <3>5. Broke(g) \/ Begun(e, g, y, p, n, f, x)
      <4>1. n = Len(e.stack) /\ n # 0 /\ ~Ended(f) /\ x = Part(f.of, f.next)
            /\ y = PutKey(e, f.of, f.next)
        BY <2>1, <2>6, <3>1, <3>2, <3>4
      <4> QED BY <2>2, <3>1, <3>3, <3>4, <4>1, EncodeBegins
    <3>6. CASE Broke(g)
      BY <3>6 DEF Encodes
    <3>7. CASE Begun(e, g, y, p, n, f, x)
      <4>1. /\ Writes(g) /\ y.ok /\ p.ok /\ Writes(y)
            /\ g.out = p.out /\ g.values = V + 1 /\ V < MaxValues
            /\ g.stack = Append([S EXCEPT ![n] = Moved(f)], Writing(x))
        BY <2>1, <3>7, Zenon DEF Begun
      <4>2. PICK Q : Q = g.stack
        OBVIOUS
      <4>3. Nested(Q, U, v) /\ Entered(Q, S, n, f, x)
        <5>1. n = Len(S) /\ n # 0 /\ f = S[n] /\ ~Ended(f) /\ x = Part(f.of, f.next)
          BY <2>1, <2>6, <3>1, <3>2
        <5>2. Q = Append([S EXCEPT ![n] = Moved(f)], Writing(x))
          BY <4>1, <4>2
        <5> QED BY <2>2, <5>1, <5>2, NestedPush
      <4>4. Len(Q) = n + 1
        BY <4>3 DEF Entered
      <4>5. V + 1 <= MaxValues /\ (k + 1) + (n + 1) = 2 * (V + 1) + 1
        <5>1. MaxValues \in Nat
          BY LimitsAssumption
        <5>2. V \in Nat /\ V < MaxValues /\ k + n = 2 * V + 1
          BY <2>2, <2>6, <4>1
        <5> QED BY <2>3, <5>1, <5>2
      <4>6. Encodes(g, k + 1, U, v)
        BY <4>1, <4>2, <4>3, <4>4, <4>5, Zenon DEF Encodes
      <4>7. ASSUME NEW w \in Seq(Int), Ahead(w, 0, g.out) PROVE Ahead(w, 0, e.out)
        <5>1. Ahead(w, 0, p.out)
          BY <4>1, <4>7
        <5>2. Ahead(w, 0, y.out)
          BY <3>3, <3>4, <4>1, <5>1, PutAhead
        <5> QED BY <2>2, <3>3, <3>4, <4>1, <5>2, KeyAhead
      <4> QED BY <1>2, <4>6, <4>7
    <3> QED BY <3>5, <3>6, <3>7
  <2> QED BY <2>4, <2>5, <2>6
<1> QED BY <1>1, <1>2

LEMMA NewLockstep ==
  ASSUME NEW U, U \subseteq Nodes(U), NEW v \in U, NEW w \in Seq(Int)
  PROVE  Lockstep(NewEncoder(v), NewDecoder(w), w, U, v)
<1>1. PICK e : e = NewEncoder(v)
  OBVIOUS
<1>2. Encodes(e, 0, U, v) /\ Writes(e) /\ Array(<<v>>) \in Nodes(U)
  BY <1>1, NewEncodes
<1>3. PICK f : f = Writing(Array(<<v>>))
  OBVIOUS
<1>4. e.stack = <<f>> /\ e.out = <<>> /\ e.content = 0 /\ e.values = 0
  BY <1>1, <1>3 DEF NewEncoder
<1>5. Nested(e.stack, U, v)
  BY <1>2 DEF Encodes, Broke, Writes
<1>6. PICK r : r = Reading([kind |-> "array"], 1)
  OBVIOUS
<1>7. PICK d : d = NewDecoder(w)
  OBVIOUS
<1>8. PICK T : T = <<r>>
  OBVIOUS
<1>9. d = [in |-> w, at |-> 0, content |-> 0, values |-> 0, ok |-> TRUE, got |-> <<>>, stack |-> T]
  BY <1>6, <1>7, <1>8 DEF NewDecoder
<1>10. d.in = w /\ d.at = 0 /\ d.content = 0 /\ d.values = 0 /\ d.ok /\ d.stack = T
  BY <1>9
<1>11. IsDecoder(d)
  BY <1>9, Zenon DEF IsDecoder
<1>12. Stands(d, w, 0, 0)
  BY <1>10, <1>11 DEF Stands, Runs
<1>13. r = Mirror(f, 0) /\ r \in Readings(U) /\ f.next = 1
  <2>1. HeadOf(Array(<<v>>)) = [kind |-> "array"] /\ Len(Parts(Array(<<v>>))) = 1
    BY DEF HeadOf, Parts, Array
  <2>2. r = Reading(HeadOf(Array(<<v>>)), Len(Parts(Array(<<v>>))))
    BY <1>6, <2>1
  <2> QED BY <1>2, <1>3, <2>2, FirstMirror
<1>14. Mirrored(e.stack, T, U)
  <2>1. PICK S : S = <<f>>
    OBVIOUS
  <2>2. Len(S) = 1 /\ S[1] = f /\ Len(T) = 1 /\ T[1] = r /\ T \in Seq(Readings(U))
    BY <1>8, <1>13, <2>1
  <2>3. 1..(Len(S) - 1) = {} /\ S[1].next - 1 = 0
    BY <1>13, <2>2
  <2>4. Mirrored(S, T, U)
    BY <1>13, <2>2, <2>3 DEF Mirrored
  <2> QED BY <1>4, <2>1, <2>4
<1>15. Len(e.stack) # 0 /\ Len(e.out) = 0
  BY <1>4
<1>16. Lockstep(e, d, w, U, v)
  BY <1>2, <1>4, <1>5, <1>10, <1>12, <1>14, <1>15, Zenon DEF Lockstep
<1> QED BY <1>1, <1>7, <1>16

LEMMA LockstepOn ==
  ASSUME NEW w \in Seq(Int), NEW U, U \subseteq Nodes(U), NEW v, NEW e, NEW d,
         Lockstep(e, d, w, U, v), NEW g, g = EncodeStep(e), ~Broke(g), Writes(g),
         Ahead(w, 0, g.out)
  PROVE  Lockstep(g, DecodeStep(d), w, U, v)
<1>1. CASE Len(e.stack) = 0
  <2>1. g = e
    BY <1>1, EncodeStays
  <2>2. Mirrored(e.stack, d.stack, U)
    BY DEF Lockstep
  <2>3. Len(d.stack) = 0
    BY <1>1, <2>2 DEF Mirrored
  <2> QED BY <2>1, <2>3, DecodeStays
<1>2. CASE Len(e.stack) # 0 /\ Ended(Top(e))
  BY <1>2, LockstepEnds
<1>3. CASE Len(e.stack) # 0 /\ ~Ended(Top(e))
  <2>1. g.ok
    BY DEF Writes
  <2> QED BY <1>3, <2>1, LockstepBegins
<1> QED BY <1>1, <1>2, <1>3

LEMMA InLockstep ==
  ASSUME NEW U, U \subseteq Nodes(U), NEW v \in U, NEW w \in Seq(Int), NEW k \in Nat
  PROVE  /\ Encodes(Encoding(v)[k], k, U, v)
         /\ ~Broke(Encoding(v)[k]) /\ Ahead(w, 0, Encoding(v)[k].out) =>
              Lockstep(Encoding(v)[k], Decoding(w)[k], w, U, v)
<1>1. PICK E, D : E = Encoding(v) /\ D = Decoding(w)
  OBVIOUS
<1>2. E[0] = NewEncoder(v) /\ \A n \in Nat : E[n + 1] = EncodeStep(E[n])
  BY <1>1, EncodingIs
<1>3. D[0] = NewDecoder(w) /\ \A n \in Nat : D[n + 1] = DecodeStep(D[n])
  BY <1>1, DecodingIs
<1> DEFINE Good(n) == /\ Encodes(E[n], n, U, v)
                      /\ ~Broke(E[n]) /\ Ahead(w, 0, E[n].out) => Lockstep(E[n], D[n], w, U, v)
<1> DEFINE N == {n \in Nat : Good(n)}
<1>4. 0 \in N
  <2>1. Encodes(E[0], 0, U, v) /\ Lockstep(E[0], D[0], w, U, v)
    BY <1>2, <1>3, NewEncodes, NewLockstep
  <2> QED BY <2>1
<1>5. ASSUME NEW n \in N PROVE n + 1 \in N
  <2>1. n \in Nat /\ Good(n)
    OBVIOUS
  <2>2. PICK e, g, d : e = E[n] /\ g = E[n + 1] /\ d = D[n]
    OBVIOUS
  <2>3. g = EncodeStep(e) /\ D[n + 1] = DecodeStep(d)
    BY <1>2, <1>3, <2>1, <2>2
  <2>4. Encodes(e, n, U, v)
    BY <2>1, <2>2
  <2>5. /\ Encodes(g, n + 1, U, v)
        /\ ~Broke(g) => /\ ~Broke(e)
                        /\ \A s \in Seq(Int) : Ahead(s, 0, g.out) => Ahead(s, 0, e.out)
    BY <2>1, <2>3, <2>4, EncodesOn
  <2>6. ASSUME ~Broke(g), Ahead(w, 0, g.out) PROVE Lockstep(g, D[n + 1], w, U, v)
    <3>1. Lockstep(e, d, w, U, v)
      BY <2>1, <2>2, <2>5, <2>6
    <3>2. Writes(g)
      BY <2>5, <2>6 DEF Encodes
    <3> QED BY <2>3, <2>6, <3>1, <3>2, LockstepOn
  <2>7. Good(n + 1)
    BY <2>2, <2>5, <2>6
  <2> HIDE DEF Good
  <2> QED BY <2>1, <2>7
<1>6. N \in SUBSET Nat
  OBVIOUS
<1> HIDE DEF N
<1>7. N = Nat
  BY <1>4, <1>5, <1>6, Induction
<1>8. Good(k)
  BY <1>7 DEF N
<1> QED BY <1>1, <1>8

\* The steps there are suffice, or the encoder has given up.
LEMMA Through ==
  ASSUME NEW U, U \subseteq Nodes(U), NEW v \in U, NEW e, e = Encode(v), Writes(e)
  PROVE  Len(e.stack) = 0
<1>1. PICK k \in Nat : k = Steps
  BY LimitsAssumption DEF Steps
<1>2. Encodes(e, k, U, v)
  <2>1. e = Encoding(v)[k]
    BY <1>1 DEF Encode
  <2>2. <<>> \in Seq(Int)
    OBVIOUS
  <2> QED BY <2>1, <2>2, InLockstep
<1>3. Nested(e.stack, U, v) /\ e.values <= MaxValues
      /\ (Len(e.stack) # 0 => k + Len(e.stack) = 2 * e.values + 1)
  <2>1. ~Broke(e)
    BY DEF Broke, Writes
  <2> QED BY <1>2, <2>1, Zenon DEF Encodes
<1>4. Len(e.stack) \in Nat
  BY <1>3 DEF Nested
<1>5. PICK n \in Nat, V \in Nat, M \in Nat : n = Len(e.stack) /\ V = e.values /\ M = MaxValues
  BY <1>4, LimitsAssumption DEF Writes
<1>6. V <= M /\ (n # 0 => k + n = 2 * V + 1) /\ k = 2 * M + 1
  BY <1>1, <1>3, <1>5 DEF Steps
<1>7. n = 0
  BY <1>6
<1> QED BY <1>5, <1>7

\* What the encoder has written in full, the decoder reads in full, and it is
\* the value.
LEMMA Arrives ==
  ASSUME NEW U, U \subseteq Nodes(U), NEW v \in U, Encode(v).ok
  PROVE  /\ Encode(v).out \in Seq(Int)
         /\ Complete(Decode(Encode(v).out)) /\ Decoded(Encode(v).out) = v
<1>1. PICK e : e = Encode(v)
  OBVIOUS
<1>2. PICK k \in Nat : k = Steps
  BY LimitsAssumption DEF Steps
<1>3. e = Encoding(v)[k]
  BY <1>1, <1>2 DEF Encode
<1>4. <<>> \in Seq(Int)
  OBVIOUS
<1>5. Encodes(e, k, U, v)
  BY <1>3, <1>4, InLockstep
<1>6. ~Broke(e)
  BY <1>1 DEF Broke
<1>7. Writes(e)
  BY <1>5, <1>6 DEF Encodes
<1>8. Len(e.stack) = 0
  BY <1>1, <1>7, Through
<1>9. PICK w \in Seq(Int) : w = e.out
  BY <1>7 DEF Writes
<1>10. Ahead(w, 0, w)
  BY DEF Ahead
<1>11. PICK d : d = Decoding(w)[k]
  OBVIOUS
<1>12. Lockstep(e, d, w, U, v)
  BY <1>3, <1>6, <1>9, <1>10, <1>11, InLockstep
<1>13. Stands(d, w, Len(w), e.content) /\ d.got = Array(<<v>>)
  BY <1>8, <1>9, <1>12 DEF Lockstep
<1>14. d.ok /\ d.at = Len(w) /\ d.in = w
  BY <1>13 DEF Stands, Runs
<1>15. d = Decode(w)
  BY <1>2, <1>11 DEF Decode
<1>16. Complete(d)
  BY <1>14 DEF Complete
<1>17. Array(<<v>>).items[1] = v
  BY DEF Array
<1>18. Decoded(w) = v
  BY <1>13, <1>15, <1>17 DEF Decoded
<1> QED BY <1>1, <1>9, <1>15, <1>16, <1>18

-----------------------------------------------------------------------------
\* One value on its way.

\* The inductive invariant.  What is on the wire until it is damaged is the
\* encoding of the value; so what the decoder makes of it is known before it
\* begins.
Sent ==
  /\ value \in Values
  /\ stage = "sent" => Encode(value).ok /\ wire = Encode(value).out
  /\ RoundTrip

LEMMA InitSent == Init => Sent
  BY DEF Init, Sent, RoundTrip

LEMMA NextSent == Sent /\ [Next]_vars => Sent'
<1> SUFFICES ASSUME Sent, [Next]_vars PROVE Sent'
  OBVIOUS
<1> USE DEF Sent, RoundTrip
<1>1. CASE Send
  BY <1>1 DEF Send
<1>2. CASE Damage
  BY <1>2 DEF Damage
<1>3. CASE Receive
  <2>1. CASE stage = "sent"
    <3>1. Values \subseteq Nodes(Values)
      BY LimitsAssumption
    <3>2. Complete(Decode(wire)) /\ Decoded(wire) = value
      BY <2>1, <3>1, Arrives
    <3> QED BY <1>3, <2>1, <3>2 DEF Receive
  <2>2. CASE stage = "damaged"
    BY <1>3, <2>2 DEF Receive
  <2> QED BY <1>3, <2>1, <2>2 DEF Receive
<1>4. CASE UNCHANGED vars
  BY <1>4 DEF vars
<1> QED BY <1>1, <1>2, <1>3, <1>4 DEF Next

\* Everything that can be encoded arrives as it was, whatever the limits and
\* the values: to_wire() and then from_wire() is the identity on what to_wire()
\* does not refuse.
THEOREM ArrivesAsItWas == Spec => []RoundTrip
<1>1. Sent => RoundTrip
  BY DEF Sent
<1> QED BY <1>1, InitSent, NextSent, PTL DEF Spec

\* The example that answers leaves the value, the wire and what came of them
\* alone; so an event arrives as it was, too.
LEMMA HookIsSpec == HookSpec => Spec
<1>1. HookInit => Init
  BY DEF HookInit
<1>2. [HookNext]_hook => [Next]_vars
  BY DEF HookNext, hook, vars, Invoke
<1> QED BY <1>1, <1>2, PTL DEF HookSpec, Spec

COROLLARY EventsArrive == HookSpec => []RoundTrip
BY HookIsSpec, ArrivesAsItWas, PTL

-----------------------------------------------------------------------------
\* The fields of a map.

Fields(U) == [key : Texts, val : U]
Where(v, k) == CHOOSE j \in Find(v, k) : TRUE
Revalued(e, x) == [e EXCEPT !.val = x]
Changed(s, i, x) == [s EXCEPT ![i] = Revalued(s[i], x)]

LEMMA MapIs ==
  ASSUME NEW U, NEW v \in Nodes(U), v.kind = "map"
  PROVE  v.entries \in Seq(Fields(U)) /\ v = Map(v.entries)
<1>1. v \notin Scalars
  BY ScalarShapes
<1>2. ASSUME NEW s \in Seq(U), v = [kind |-> "array", items |-> s] PROVE FALSE
  BY <1>2
<1>3. PICK s \in Seq(Fields(U)) : v = [kind |-> "map", entries |-> s]
  BY <1>1, <1>2, Shapes DEF Fields
<1>4. v.entries = s
  BY <1>3
<1> QED BY <1>3, <1>4 DEF Map

LEMMA RevaluedIs ==
  ASSUME NEW U, NEW e \in Fields(U), NEW x
  PROVE  Revalued(e, x) = [key |-> e.key, val |-> x]
  BY DEF Fields, Revalued

LEMMA FieldIs ==
  ASSUME NEW U, NEW v \in Nodes(U), NEW k, Has(v, k),
         NEW i, i = Where(v, k)
  PROVE  /\ i \in 1..Len(v.entries) /\ v.entries \in Seq(Fields(U)) /\ v = Map(v.entries)
         /\ v.entries[i] \in Fields(U) /\ v.entries[i].key = k /\ k \in Texts
         /\ Field(v, k) = v.entries[i].val /\ Field(v, k) \in U
<1>1. i \in Find(v, k)
  BY DEF Has, Where
<1>2. i \in 1..Len(v.entries) /\ v.entries[i].key = k
  BY <1>1 DEF Find
<1>3. v.entries \in Seq(Fields(U)) /\ v = Map(v.entries)
  BY MapIs DEF Has
<1>4. v.entries[i] \in Fields(U)
  <2> DEFINE E == Fields(U)
  <2>1. v.entries \in Seq(E)
    BY <1>3
  <2> HIDE DEF E
  <2>2. v.entries[i] \in E
    BY <1>2, <2>1
  <2> QED BY <2>2 DEF E
<1>5. v.entries[i].val \in U /\ v.entries[i].key \in Texts
  BY <1>4 DEF Fields
<1>6. Field(v, k) = v.entries[i].val
  BY DEF Field, Where
<1> QED BY <1>2, <1>3, <1>4, <1>5, <1>6

LEMMA WithIs ==
  ASSUME NEW s, NEW k, NEW x, NEW i, i = Where(Map(s), k)
  PROVE  With(Map(s), k, x) = Map(Changed(s, i, x))
<1>1. PICK v : v = Map(s)
  OBVIOUS
<1>2. v.entries = s /\ v = [kind |-> "map", entries |-> s]
  BY <1>1 DEF Map
<1>3. PICK j : j = CHOOSE m \in Find(v, k) : TRUE
  OBVIOUS
<1>4. i = j
  BY <1>1, <1>3 DEF Where
<1>5. With(v, k, x) = [v EXCEPT !.entries[j].val = x]
  BY <1>3 DEF With
<1>6. PICK t : t = [s EXCEPT ![j].val = x]
  OBVIOUS
<1>7. t = Changed(s, j, x)
  BY <1>6 DEF Changed, Revalued
<1>8. With(v, k, x) = [v EXCEPT !.entries = t]
  BY <1>2, <1>5, <1>6
<1>9. [v EXCEPT !.entries = t] = Map(t)
  BY <1>2 DEF Map
<1> QED BY <1>1, <1>4, <1>7, <1>8, <1>9

\* A map with one field changed: what it is, what the field is now, and that
\* no trace of the change is left when the field is changed again.
LEMMA WithMap ==
  ASSUME NEW U, NEW W, U \subseteq W, NEW x \in W, NEW v \in Nodes(U), NEW k, Has(v, k),
         NEW w, w = With(v, k, x)
  PROVE  /\ w \in Nodes(W) /\ Has(w, k) /\ Field(w, k) = x
         /\ \A y : With(w, k, y) = With(v, k, y)
<1>1. PICK i : i = Where(v, k)
  OBVIOUS
<1>2. PICK s : s = v.entries
  OBVIOUS
<1>3. /\ i \in 1..Len(s) /\ s \in Seq(Fields(U)) /\ v = Map(s)
      /\ s[i] \in Fields(U) /\ s[i].key = k /\ k \in Texts
  BY <1>1, <1>2, FieldIs
<1>4. PICK f : f = Revalued(s[i], x)
  OBVIOUS
<1>5. f = [key |-> k, val |-> x]
  BY <1>3, <1>4, RevaluedIs
<1>6. f.key = k /\ f.val = x /\ f \in Fields(W)
  BY <1>3, <1>5 DEF Fields
<1>7. PICK t : t = [s EXCEPT ![i] = f]
  OBVIOUS
<1>8. w = Map(t)
  <2>1. With(v, k, x) = Map(Changed(s, i, x))
    BY <1>1, <1>3, WithIs
  <2>2. Changed(s, i, x) = t
    BY <1>4, <1>7 DEF Changed
  <2> QED BY <2>1, <2>2
<1>9. s \in Seq(Fields(W))
  <2> DEFINE E == Fields(U)
             F == Fields(W)
  <2>1. E \subseteq F /\ s \in Seq(E)
    BY <1>3 DEF Fields
  <2> HIDE DEF E, F
  <2>2. s \in Seq(F)
    BY <2>1
  <2> QED BY <2>2 DEF F
<1>10. t \in Seq(Fields(W)) /\ Len(t) = Len(s) /\ t[i] = f /\ \A j \in 1..Len(s) : j # i => t[j] = s[j]
  <2> DEFINE E == Fields(W)
  <2>1. s \in Seq(E) /\ f \in E
    BY <1>6, <1>9
  <2> HIDE DEF E
  <2>2. t \in Seq(E) /\ Len(t) = Len(s) /\ t[i] = f /\ \A j \in 1..Len(s) : j # i => t[j] = s[j]
    BY <1>3, <1>7, <2>1, Replaced
  <2> QED BY <2>2 DEF E
<1>11. w \in Nodes(W)
  <2>1. w \in [kind : {"map"}, entries : Seq(Fields(W))]
    BY <1>8, <1>10 DEF Map
  <2> QED BY <2>1 DEF Nodes, Fields
<1>12. w.kind = "map" /\ w.entries = t
  BY <1>8 DEF Map
<1>13. Find(w, k) = Find(v, k)
  <2>1. \A j \in 1..Len(s) : t[j].key = k <=> s[j].key = k
    <3> TAKE j \in 1..Len(s)
    <3>1. CASE j = i
      BY <1>3, <1>6, <1>10, <3>1
    <3>2. CASE j # i
      BY <1>10, <3>2
    <3> QED BY <3>1, <3>2
  <2>2. Find(w, k) = {j \in 1..Len(s) : t[j].key = k}
    BY <1>10, <1>12 DEF Find
  <2>3. Find(v, k) = {j \in 1..Len(s) : s[j].key = k}
    BY <1>2 DEF Find
  <2> QED BY <2>1, <2>2, <2>3
<1>14. Has(w, k)
  BY <1>12, <1>13 DEF Has
<1>15. Field(w, k) = x
  <2>1. Field(w, k) = t[i].val
    BY <1>1, <1>12, <1>13 DEF Field, Where
  <2> QED BY <1>6, <1>10, <2>1
<1>16. ASSUME NEW y PROVE With(w, k, y) = With(v, k, y)
  <2>1. PICK g : g = Revalued(f, y)
    OBVIOUS
  <2>2. g = [key |-> k, val |-> y]
    BY <1>6, <2>1, RevaluedIs
  <2>3. PICK h : h = Revalued(s[i], y)
    OBVIOUS
  <2>4. h = [key |-> k, val |-> y]
    BY <1>3, <2>3, RevaluedIs
  <2>5. g = h
    BY <2>2, <2>4
  <2>6. Changed(t, i, y) = Changed(s, i, y)
    <3>1. Changed(s, i, y) = [s EXCEPT ![i] = h]
      BY <2>3 DEF Changed
    <3>2. Changed(t, i, y) = [t EXCEPT ![i] = h]
      BY <1>10, <2>1, <2>5 DEF Changed
    <3>3. [t EXCEPT ![i] = h] = [s EXCEPT ![i] = h]
      BY <1>3, <1>7
    <3> QED BY <3>1, <3>2, <3>3
  <2>7. With(v, k, y) = Map(Changed(s, i, y))
    BY <1>1, <1>3, WithIs
  <2>8. i = Where(Map(t), k)
    BY <1>1, <1>8, <1>13 DEF Where
  <2>9. With(Map(t), k, y) = Map(Changed(t, i, y))
    BY <2>8, WithIs
  <2> QED BY <1>8, <2>6, <2>7, <2>9
<1> QED BY <1>11, <1>14, <1>15, <1>16

LEMMA NodesGrow ==
  ASSUME NEW U, U \subseteq Nodes(U)
  PROVE  Nodes(U) \subseteq Nodes(Nodes(U)) /\ Scalars \subseteq Nodes(U)
<1>1. PICK W : W = Nodes(U)
  OBVIOUS
<1>2. U \subseteq W
  BY <1>1
<1>3. Seq(U) \subseteq Seq(W)
  BY <1>2
<1>4. Fields(U) \subseteq Fields(W)
  BY <1>2 DEF Fields
<1>5. Seq(Fields(U)) \subseteq Seq(Fields(W))
  <2> DEFINE E == Fields(U)
             F == Fields(W)
  <2>1. E \subseteq F
    BY <1>4
  <2> HIDE DEF E, F
  <2>2. Seq(E) \subseteq Seq(F)
    BY <2>1
  <2> QED BY <2>2 DEF E, F
<1>6. [kind : {"array"}, items : Seq(U)] \subseteq [kind : {"array"}, items : Seq(W)]
  BY <1>3
<1>7. [kind : {"map"}, entries : Seq(Fields(U))] \subseteq [kind : {"map"}, entries : Seq(Fields(W))]
  BY <1>5
<1> QED BY <1>1, <1>6, <1>7 DEF Nodes, Fields

-----------------------------------------------------------------------------
\* What the example replies.

\* Values enough to build the reply from: nested values, and more than U.
Roomy(W, U) == W \subseteq Nodes(W) /\ U \subseteq W /\ Scalars \subseteq W

LEMMA Roomier ==
  ASSUME NEW U, NEW W, Roomy(W, U)
  PROVE  Roomy(Nodes(W), U) /\ W \subseteq Nodes(W)
  BY NodesGrow DEF Roomy

LEMMA Append1 ==
  ASSUME NEW U, NEW v \in Nodes(U), v.kind = "array", NEW W, U \subseteq W, NEW x \in W,
         NEW w, w = [v EXCEPT !.items = Append(@, x)]
  PROVE  w \in Nodes(W) /\ w.items = Append(v.items, x)
<1>1. v \notin Scalars
  BY ScalarShapes
<1>2. ASSUME NEW s \in Seq(Fields(U)), v = [kind |-> "map", entries |-> s] PROVE FALSE
  BY <1>2
<1>3. PICK s \in Seq(U) : v = [kind |-> "array", items |-> s]
  BY <1>1, <1>2, Shapes DEF Fields
<1>4. PICK t : t = Append(s, x)
  OBVIOUS
<1>5. w = [kind |-> "array", items |-> t]
  BY <1>3, <1>4
<1>6. t \in Seq(W)
  BY <1>4
<1>7. w \in [kind : {"array"}, items : Seq(W)]
  <2>1. [kind |-> "array", items |-> t] \in [kind : {"array"}, items : Seq(W)]
    BY <1>6
  <2> QED BY <1>5, <2>1, Zenon
<1> QED BY <1>3, <1>4, <1>5, <1>7 DEF Nodes

\* Pushing an argument changes nothing else: without the arguments, the plan
\* is what it was.
LEMMA PushesOne ==
  ASSUME NEW U, NEW d, NEW X, Roomy(X, U), d \in U, U \subseteq Nodes(U), NEW W,
         W = Nodes(Nodes(Nodes(Nodes(X)))),
         Has(d, plan), Has(Field(d, plan), command), Has(Command(d), jvmArguments),
         Field(Command(d), jvmArguments).kind = "array", NEW e, e = Pushed(d)
  PROVE  /\ e \in W /\ PlanWithout(e) = PlanWithout(d)
         /\ Field(Command(e), jvmArguments).items
              = Append(Field(Command(d), jvmArguments).items, ExampleArgument)
<1>1. PICK A, B, C : A = Nodes(X) /\ B = Nodes(A) /\ C = Nodes(B)
  OBVIOUS
<1>2. Roomy(A, U) /\ Roomy(B, U) /\ Roomy(C, U) /\ W = Nodes(C)
  BY <1>1, Roomier
<1>3. U \subseteq X /\ U \subseteq A /\ U \subseteq B /\ U \subseteq C
  BY <1>2 DEF Roomy
<1>4. PICK p, c, a : p = Field(d, plan) /\ c = Field(p, command) /\ a = Field(c, jvmArguments)
  OBVIOUS
<1>5. c = Command(d)
  BY <1>4 DEF Command
<1>6. Has(p, command) /\ Has(c, jvmArguments) /\ a.kind = "array"
  BY <1>4, <1>5
<1>7. p \in U
  <2>1. d \in Nodes(U)
    OBVIOUS
  <2>2. PICK i : i = Where(d, plan)
    OBVIOUS
  <2> QED BY <1>4, <2>1, <2>2, FieldIs
<1>8. c \in U
  <2>1. p \in Nodes(U)
    BY <1>7
  <2>2. PICK i : i = Where(p, command)
    OBVIOUS
  <2> QED BY <1>4, <1>6, <2>1, <2>2, FieldIs
<1>9. a \in U
  <2>1. c \in Nodes(U)
    BY <1>8
  <2>2. PICK i : i = Where(c, jvmArguments)
    OBVIOUS
  <2> QED BY <1>4, <1>6, <2>1, <2>2, FieldIs
<1>10. ExampleArgument \in X
  <2>1. <<25>> \in Texts
    BY DEF Texts, NotUtf8
  <2>2. ExampleArgument \in [kind : {"string"}, s : Texts]
    BY <2>1 DEF ExampleArgument, Text
  <2> QED BY <2>2 DEF Scalars, Roomy
<1>11. PICK b : b = [a EXCEPT !.items = Append(@, ExampleArgument)]
  OBVIOUS
<1>12. b \in A /\ b.items = Append(a.items, ExampleArgument)
  <2>1. a \in Nodes(U)
    BY <1>9
  <2>2. b \in Nodes(X) /\ b.items = Append(a.items, ExampleArgument)
    BY <1>3, <1>6, <1>10, <1>11, <2>1, Append1
  <2> QED BY <1>1, <2>2
<1>13. PICK f : f = With(c, jvmArguments, b)
  OBVIOUS
<1>14. /\ f \in B /\ Has(f, jvmArguments) /\ Field(f, jvmArguments) = b
       /\ \A y : With(f, jvmArguments, y) = With(c, jvmArguments, y)
  <2>1. c \in Nodes(U)
    BY <1>8
  <2> QED BY <1>1, <1>3, <1>6, <1>12, <1>13, <2>1, WithMap
<1>15. PICK q : q = With(p, command, f)
  OBVIOUS
<1>16. /\ q \in C /\ Has(q, command) /\ Field(q, command) = f
       /\ \A y : With(q, command, y) = With(p, command, y)
  <2>1. p \in Nodes(U)
    BY <1>7
  <2> QED BY <1>1, <1>3, <1>6, <1>14, <1>15, <2>1, WithMap
<1>17. e = With(d, plan, q)
  BY <1>4, <1>5, <1>11, <1>13, <1>15 DEF Pushed
<1>18. /\ e \in W /\ Has(e, plan) /\ Field(e, plan) = q
       /\ \A y : With(e, plan, y) = With(d, plan, y)
  <2>1. d \in Nodes(U)
    OBVIOUS
  <2> QED BY <1>2, <1>3, <1>16, <1>17, <2>1, WithMap
<1>19. Command(e) = f
  BY <1>16, <1>18 DEF Command
<1>20. PlanWithout(e) = PlanWithout(d)
  <2>1. PICK m : m = Map(<<>>)
    OBVIOUS
  <2>2. PlanWithout(e) = With(e, plan, With(q, command, With(f, jvmArguments, m)))
    BY <1>18, <1>19, <2>1 DEF PlanWithout
  <2>3. PlanWithout(d) = With(d, plan, With(p, command, With(c, jvmArguments, m)))
    BY <1>4, <1>5, <2>1 DEF PlanWithout
  <2> QED BY <1>14, <1>16, <1>18, <2>2, <2>3
<1>21. Field(Command(e), jvmArguments).items
         = Append(Field(Command(d), jvmArguments).items, ExampleArgument)
  BY <1>4, <1>5, <1>12, <1>14, <1>19
<1> QED BY <1>18, <1>20, <1>21

LEMMA Names ==
  /\ contractVersion \in Texts /\ action \in Texts /\ data \in Texts
  /\ protectedSecrets \in Texts /\ <<23>> \in Texts /\ <<24>> \in Texts
  /\ Len(contractVersion) = 1 /\ Len(action) = 1 /\ Len(<<24>>) = 1
  /\ contractVersion # action /\ contractVersion # data /\ action # data
  /\ protectedSecrets # action /\ protectedSecrets # data
  BY DEF Texts, NotUtf8, contractVersion, action, data, protectedSecrets

LEMMA EntryIs ==
  ASSUME NEW U, NEW k \in Texts, NEW x \in U
  PROVE  Entry(k, x) \in Fields(U) /\ Entry(k, x).key = k /\ Entry(k, x).val = x
  BY DEF Entry, Fields

LEMMA TextNode ==
  ASSUME NEW s \in Texts
  PROVE  Text(s) \in Scalars
  BY DEF Text, Scalars

\* One field of a map is found where it is, if it is there once.
LEMMA FieldAt ==
  ASSUME NEW s, NEW k, NEW i \in 1..Len(s), s[i].key = k,
         \A j \in 1..Len(s) : j # i => s[j].key # k
  PROVE  Has(Map(s), k) /\ Field(Map(s), k) = s[i].val
<1>1. PICK v : v = Map(s)
  OBVIOUS
<1>2. v.kind = "map" /\ v.entries = s
  BY <1>1 DEF Map
<1>3. Find(v, k) = {i}
  BY <1>2 DEF Find
<1>4. Has(v, k)
  BY <1>2, <1>3 DEF Has
<1>5. (CHOOSE j \in Find(v, k) : TRUE) = i
  BY <1>3
<1>6. Field(v, k) = s[i].val
  BY <1>2, <1>5 DEF Field
<1> QED BY <1>1, <1>4, <1>6

LEMMA UnchangedIs ==
  ASSUME NEW W, Scalars \subseteq W
  PROVE  /\ Unchanged \in Nodes(W) /\ Is(Unchanged, action, unchanged)
         /\ ~Is(Unchanged, action, replace)
<1>1. PICK a, b : a = Entry(contractVersion, Whole(1)) /\ b = Entry(action, unchanged)
  OBVIOUS
<1>2. Whole(1) \in W
  BY DEF Whole, Scalars
<1>3. unchanged \in W
  BY Names, TextNode DEF unchanged
<1>4. a \in Fields(W) /\ a.key = contractVersion /\ a.val = Whole(1)
  BY <1>1, <1>2, Names, EntryIs
<1>5. b \in Fields(W) /\ b.key = action /\ b.val = unchanged
  BY <1>1, <1>3, Names, EntryIs
<1>6. PICK s : s = <<a, b>>
  OBVIOUS
<1>7. Len(s) = 2 /\ s[1] = a /\ s[2] = b
  BY <1>6
<1>8. Unchanged = Map(s)
  BY <1>1, <1>6 DEF Unchanged
<1>9. Has(Map(s), action) /\ Field(Map(s), action) = unchanged
  <2>1. 2 \in 1..Len(s) /\ s[2].key = action /\ \A j \in 1..Len(s) : j # 2 => s[j].key # action
    BY <1>4, <1>5, <1>7, Names
  <2> QED BY <1>5, <1>7, <2>1, FieldAt
<1>10. unchanged # replace
  BY DEF unchanged, replace, Text
<1>11. Map(s) \in Nodes(W)
  <2> DEFINE E == Fields(W)
  <2>1. a \in E /\ b \in E
    BY <1>4, <1>5
  <2> HIDE DEF E
  <2>2. s \in Seq(E)
    BY <1>6, <2>1
  <2>3. Map(s) \in [kind : {"map"}, entries : Seq(E)]
    BY <2>2 DEF Map
  <2> QED BY <2>3 DEF E, Nodes, Fields
<1> QED BY <1>8, <1>9, <1>10, <1>11 DEF Is

LEMMA ReplaceIs ==
  ASSUME NEW W, Scalars \subseteq W, W \subseteq Nodes(W), NEW d \in W
  PROVE  /\ Replace(d) \in Nodes(Nodes(W))
         /\ Field(Replace(d), data) = d
<1>1. PICK a, b, c, e : /\ a = Entry(contractVersion, Whole(1)) /\ b = Entry(action, replace)
                        /\ c = Entry(data, d) /\ e = Entry(protectedSecrets, Map(<<>>))
  OBVIOUS
<1>2. PICK V : V = Nodes(W)
  OBVIOUS
<1>3. Whole(1) \in V
  <2>1. Whole(1) \in W
    BY DEF Whole, Scalars
  <2> QED BY <1>2, <2>1
<1>4. replace \in V
  <2>1. replace \in W
    BY Names, TextNode DEF replace
  <2> QED BY <1>2, <2>1
<1>5. Map(<<>>) \in V
  <2>1. <<>> \in Seq([key : Texts, val : W])
    OBVIOUS
  <2>2. Map(<<>>) \in [kind : {"map"}, entries : Seq([key : Texts, val : W])]
    BY <2>1 DEF Map
  <2> QED BY <1>2, <2>2 DEF Nodes
<1>6. d \in V
  BY <1>2
<1>7. a \in Fields(V) /\ a.key = contractVersion
  BY <1>1, <1>3, Names, EntryIs
<1>8. b \in Fields(V) /\ b.key = action
  BY <1>1, <1>4, Names, EntryIs
<1>9. c \in Fields(V) /\ c.key = data /\ c.val = d
  BY <1>1, <1>6, Names, EntryIs
<1>10. e \in Fields(V) /\ e.key = protectedSecrets
  BY <1>1, <1>5, Names, EntryIs
<1>11. PICK s : s = <<a, b, c, e>>
  OBVIOUS
<1>12. Len(s) = 4 /\ s[1] = a /\ s[2] = b /\ s[3] = c /\ s[4] = e
  BY <1>11
<1>13. Replace(d) = Map(s)
  BY <1>1, <1>11 DEF Replace
<1>14. Field(Map(s), data) = d
  <2>1. 3 \in 1..Len(s) /\ s[3].key = data /\ \A j \in 1..Len(s) : j # 3 => s[j].key # data
    BY <1>7, <1>8, <1>9, <1>10, <1>12, Names
  <2> QED BY <1>9, <1>12, <2>1, FieldAt
<1>15. Map(s) \in Nodes(V)
  <2> DEFINE E == Fields(V)
  <2>1. a \in E /\ b \in E /\ c \in E /\ e \in E
    BY <1>7, <1>8, <1>9, <1>10
  <2> HIDE DEF E
  <2>2. s \in Seq(E)
    BY <1>11, <2>1
  <2>3. Map(s) \in [kind : {"map"}, entries : Seq(E)]
    BY <2>2 DEF Map
  <2> QED BY <2>3 DEF E, Nodes, Fields
<1> QED BY <1>2, <1>13, <1>14, <1>15

-----------------------------------------------------------------------------
\* The reply that changes nothing is never refused: its encoding, step by step.

Reached(e, s, c, m) == Writes(e) /\ e.stack = s /\ e.content = c /\ e.values = m

\* Nothing speaks against writing x, with b bytes of content and m values
\* before it.
Accepted(x, b, m, depth) ==
  ~TooDeep(depth) /\ m < MaxValues /\ Fine(HeadOf(x), Len(Parts(x)), b)

LEMMA PutOn ==
  ASSUME NEW U, NEW x \in Nodes(U), NEW s, NEW b, NEW m, NEW k, Reached(k, s, b, m), NEW z,
         Accepted(x, b, m, z), NEW p, p = Put(k, x, z)
  PROVE  Reached(p, s, b + Weight(HeadOf(x)), m + 1)
<1>1. PICK h, n : h = HeadOf(x) /\ n = Len(Parts(x))
  OBVIOUS
<1>2. Writes(k) /\ k.values = m /\ k.stack = s /\ k.content = b
  BY DEF Reached
<1>3. ~TooDeep(z) /\ k.values < MaxValues /\ Fine(h, n, k.content)
  BY <1>1, <1>2 DEF Accepted
<1>4. Writes(p) /\ p.values = k.values + 1 /\ p.stack = k.stack /\ p.content = k.content + Weight(h)
  BY <1>1, <1>2, <1>3, PutWrites
<1> QED BY <1>1, <1>2, <1>4 DEF Reached

LEMMA StackChanged ==
  ASSUME NEW s, NEW c, NEW m, NEW p, Reached(p, s, c, m), NEW t, NEW g, g = WithStack(p, t)
  PROVE  Reached(g, t, c, m)
<1>1. IsEncoder(p)
  BY DEF Reached, Writes
<1>2. /\ IsEncoder(g) /\ g.ok = p.ok /\ g.out = p.out /\ g.content = p.content
      /\ g.values = p.values /\ g.stack = t
  BY <1>1, Restacked
<1> QED BY <1>2 DEF Reached, Writes

LEMMA Called ==
  ASSUME NEW U, NEW e, NEW s, NEW c, NEW m, Reached(e, s, c, m), NEW n,
         n = Len(s), n # 0, NEW f, f = s[n], ~Ended(f), NEW x \in Nodes(U),
         x = Part(f.of, f.next), NEW k, k = PutKey(e, f.of, f.next), NEW b,
         Reached(k, s, b, m), Accepted(x, b, m, n - 1),
         NEW t, t = Append(Onward(s, n), Writing(x)), NEW g, g = EncodeStep(e)
  PROVE  Reached(g, t, b + Weight(HeadOf(x)), m + 1)
<1>1. e.ok /\ e.stack = s /\ Top(e) = f
  BY DEF Reached, Writes, Top
<1>2. PICK z, p : z = n - 1 /\ p = Put(k, x, z)
  OBVIOUS
<1>3. PICK j, q : j = b + Weight(HeadOf(x)) /\ q = m + 1
  OBVIOUS
<1>4. Reached(p, s, j, q)
  <2>1. Accepted(x, b, m, z)
    BY <1>2
  <2> QED BY <1>2, <1>3, <2>1, PutOn
<1>5. p.stack = s
  BY <1>4 DEF Reached
<1>6. g = WithStack(p, t)
  <2>1. Len(e.stack) # 0 /\ Len(e.stack) = n /\ ~Ended(Top(e))
    BY <1>1
  <2>2. p = Put(PutKey(e, Top(e).of, Top(e).next), Part(Top(e).of, Top(e).next), Len(e.stack) - 1)
    BY <1>1, <1>2
  <2>3. EncodeStep(e) = WithStack(p, Append(Onward(p.stack, Len(e.stack)),
                                            Writing(Part(Top(e).of, Top(e).next))))
    BY <1>1, <2>1, <2>2, BeginsIs
  <2> QED BY <1>1, <1>5, <2>3
<1>7. Reached(g, t, j, q)
  BY <1>4, <1>6, StackChanged
<1> QED BY <1>3, <1>7

LEMMA Returned ==
  ASSUME NEW e, NEW s, NEW c, NEW m, Reached(e, s, c, m), NEW n, n = Len(s), n # 0,
         Ended(s[n]), NEW t, t = Front(s), NEW g, g = EncodeStep(e)
  PROVE  Reached(g, t, c, m)
<1>1. Writes(e) /\ Len(e.stack) = n /\ Top(e) = s[n]
  BY DEF Reached, Top
<1>2. Writes(g) /\ g.content = e.content /\ g.values = e.values /\ g.stack = Front(e.stack)
  BY <1>1, EncodeEnds
<1> QED BY <1>2 DEF Reached

\* A descent that ends within the steps there are, ends as it ended.
LEMMA EndsSo ==
  ASSUME NEW v, NEW k \in Nat, k <= Steps, Len(Encoding(v)[k].stack) = 0
  PROVE  Encode(v) = Encoding(v)[k]
<1>1. PICK E : E = Encoding(v)
  OBVIOUS
<1>2. \A n \in Nat : E[n + 1] = EncodeStep(E[n])
  BY <1>1, EncodingIs
<1>3. PICK e : e = E[k]
  OBVIOUS
<1>4. EncodeStep(e) = e
  BY <1>1, <1>3, EncodeStays
<1> DEFINE N == {n \in Nat : E[k + n] = e}
<1>5. 0 \in N
  BY <1>3
<1>6. ASSUME NEW n \in N PROVE n + 1 \in N
  <2>1. k + n \in Nat /\ k + (n + 1) = (k + n) + 1 /\ n + 1 \in Nat
    OBVIOUS
  <2>2. E[k + (n + 1)] = EncodeStep(E[k + n])
    BY <1>2, <2>1
  <2> QED BY <1>4, <2>1, <2>2
<1>7. N \in SUBSET Nat
  OBVIOUS
<1> HIDE DEF N
<1>8. N = Nat
  BY <1>5, <1>6, <1>7, Induction
<1>9. PICK n \in Nat : k + n = Steps
  <2>1. Steps \in Nat
    <3>1. MaxValues \in Nat
      BY LimitsAssumption
    <3> QED BY <3>1 DEF Steps
  <2>2. Steps - k \in Nat /\ k + (Steps - k) = Steps
    BY <2>1
  <2> QED BY <2>2
<1>10. E[Steps] = e
  BY <1>8, <1>9 DEF N
<1> QED BY <1>1, <1>3, <1>10 DEF Encode

\* Stacks of one, two and three values.
Inside(o, n) == [of |-> o, next |-> n]

LEMMA OneOff ==
  ASSUME NEW X, NEW s \in Seq(X), NEW r \in Seq(X), NEW c \in X, Len(s) = Len(r) + 1,
         \A i \in 1..Len(r) : s[i] = r[i], s[Len(s)] = c
  PROVE  Front(s) = r /\ Append(r, c) = s
<1>1. PICK n \in Nat : n = Len(r)
  OBVIOUS
<1>2. Len(s) > 0 /\ Len(s) - 1 = n
  BY <1>1
<1>3. Front(s) = r
  <2>1. PICK f : f = Front(s)
    OBVIOUS
  <2>2. f \in Seq(X) /\ Len(f) = n /\ \A i \in 1..n : f[i] = s[i]
    BY <1>2, <2>1, FrontIs
  <2> QED BY <1>1, <2>1, <2>2, SeqEqual
<1>4. Append(r, c) = s
  <2>1. PICK f : f = Append(r, c)
    OBVIOUS
  <2>2. f \in Seq(X) /\ Len(f) = n + 1 /\ (\A i \in 1..n : f[i] = r[i]) /\ f[n + 1] = c
    BY <1>1, <2>1, AppendProperties
  <2>3. Len(s) = n + 1 /\ \A i \in 1..(n + 1) : i \in 1..n \/ i = n + 1
    BY <1>1
  <2>4. \A i \in 1..(n + 1) : f[i] = s[i]
    BY <1>1, <2>2, <2>3
  <2> QED BY <2>1, <2>2, <2>3, <2>4, SeqEqual
<1> QED BY <1>3, <1>4

LEMMA Tops ==
  ASSUME NEW a, NEW b, NEW c
  PROVE  /\ Front(<<a, b>>) = <<a>> /\ Append(<<a>>, b) = <<a, b>>
         /\ Front(<<a, b, c>>) = <<a, b>> /\ Append(<<a, b>>, c) = <<a, b, c>>
<1>1. PICK X : X = {a, b, c}
  OBVIOUS
<1>2. PICK p, q, r : p = <<a>> /\ q = <<a, b>> /\ r = <<a, b, c>>
  OBVIOUS
<1>3. a \in X /\ b \in X /\ c \in X
  BY <1>1
<1>4. p \in Seq(X) /\ Len(p) = 1 /\ p[1] = a
  BY <1>2, <1>3
<1>5. q \in Seq(X) /\ Len(q) = 2 /\ q[1] = a /\ q[2] = b
  BY <1>2, <1>3
<1>6. r \in Seq(X) /\ Len(r) = 3 /\ r[1] = a /\ r[2] = b /\ r[3] = c
  BY <1>2, <1>3
<1>7. Front(q) = p /\ Append(p, b) = q
  <2>1. Len(q) = Len(p) + 1 /\ q[Len(q)] = b /\ \A i \in 1..Len(p) : q[i] = p[i]
    BY <1>4, <1>5
  <2> QED BY <1>3, <1>4, <1>5, <2>1, OneOff
<1>8. Front(r) = q /\ Append(q, c) = r
  <2>1. \A i \in 1..2 : i = 1 \/ i = 2
    OBVIOUS
  <2>2. Len(r) = Len(q) + 1 /\ r[Len(r)] = c /\ \A i \in 1..Len(q) : r[i] = q[i]
    BY <1>5, <1>6, <2>1
  <2>3. q \in Seq(X) /\ r \in Seq(X) /\ c \in X
    BY <1>3, <1>5, <1>6
  <2> QED BY <2>2, <2>3, OneOff
<1> QED BY <1>2, <1>7, <1>8

LEMMA Stacks ==
  ASSUME NEW a, NEW b, NEW c, NEW x, NEW i \in Nat, NEW o
  PROVE  /\ Writing(x) = Inside(x, 1)
         /\ Inside(o, i).of = o /\ Inside(o, i).next = i
         /\ Len(<<a>>) = 1 /\ Len(<<a, b>>) = 2 /\ Len(<<a, b, c>>) = 3
         /\ <<a>>[1] = a /\ <<a, b>>[2] = b /\ <<a, b, c>>[3] = c
         /\ Front(<<a>>) = <<>> /\ Front(<<a, b>>) = <<a>> /\ Front(<<a, b, c>>) = <<a, b>>
<1>1. Writing(x) = Inside(x, 1) /\ Inside(o, i).of = o /\ Inside(o, i).next = i
  BY DEF Writing, Inside
<1>2. Front(<<a>>) = <<>>
  BY DEF Front
<1>3. Front(<<a, b>>) = <<a>> /\ Front(<<a, b, c>>) = <<a, b>>
  BY Tops
<1> QED BY <1>1, <1>2, <1>3

LEMMA MovedOn ==
  ASSUME NEW o, NEW i, NEW j, j = i + 1
  PROVE  Moved(Inside(o, i)) = Inside(o, j)
BY DEF Moved, Inside

LEMMA DeeperFirst ==
  ASSUME NEW f, NEW g, g = Moved(f), NEW x
  PROVE  Append(Onward(<<f>>, 1), Writing(x)) = <<g, Inside(x, 1)>>
<1>1. PICK h : h = Inside(x, 1)
  OBVIOUS
<1>2. Writing(x) = h
  BY <1>1 DEF Writing, Inside
<1>3. [<<f>> EXCEPT ![1] = g] = <<g>>
  OBVIOUS
<1>4. Onward(<<f>>, 1) = <<g>>
  BY <1>3, OnwardIs
<1>5. Append(<<g>>, h) = <<g, h>>
  BY Tops
<1> QED BY <1>1, <1>2, <1>4, <1>5

LEMMA DeeperSecond ==
  ASSUME NEW a, NEW f, NEW g, g = Moved(f), NEW x
  PROVE  Append(Onward(<<a, f>>, 2), Writing(x)) = <<a, g, Inside(x, 1)>>
<1>1. PICK h : h = Inside(x, 1)
  OBVIOUS
<1>2. Writing(x) = h
  BY <1>1 DEF Writing, Inside
<1>3. [<<a, f>> EXCEPT ![2] = g] = <<a, g>>
  OBVIOUS
<1>4. Onward(<<a, f>>, 2) = <<a, g>>
  BY <1>3, OnwardIs
<1>5. Append(<<a, g>>, h) = <<a, g, h>>
  BY Tops
<1> QED BY <1>1, <1>2, <1>4, <1>5

LEMMA EndedAt ==
  ASSUME NEW o, NEW i, NEW n, n = Len(Parts(o))
  PROVE  Ended(Inside(o, i)) <=> i > n
<1>1. PICK f : f = Inside(o, i)
  OBVIOUS
<1>2. f.of = o /\ f.next = i
  BY <1>1 DEF Inside
<1> QED BY <1>1, <1>2 DEF Ended

LEMMA KeyPut ==
  ASSUME NEW e, NEW s, NEW c \in Nat, NEW m, Reached(e, s, c, m), NEW v, v.kind = "map",
         NEW i, NEW t \in Texts, v.entries[i].key = t,
         \A j \in 1..(i - 1) : v.entries[j].key # t, Allowed(c, Len(t), MaxString)
  PROVE  Reached(PutKey(e, v, i), s, c + Len(t), m)
<1>1. PICK g : g = PutKey(e, v, i)
  OBVIOUS
<1>2. Writes(e) /\ e.content = c /\ e.stack = s /\ e.values = m
  BY DEF Reached
<1>3. Wrote(e, g, (e.out \o <<Pair>>) \o Block(Str32, t), e.content + Len(t))
  BY <1>1, <1>2, KeyWrites
<1> QED BY <1>1, <1>2, <1>3 DEF Wrote, Reached

\* A part begins inside of the caller's array, or of a value one deeper.
LEMMA CalledFirst ==
  ASSUME NEW U, NEW x \in Nodes(U), NEW o, o.kind # "map", ~Ended(Inside(o, 1)), x = Part(o, 1),
         NEW e, NEW c, NEW m, Reached(e, <<Inside(o, 1)>>, c, m), Accepted(x, c, m, 0),
         NEW q, q = c + Weight(HeadOf(x)), NEW w, w = m + 1
  PROVE  Reached(EncodeStep(e), <<Inside(o, 2), Inside(x, 1)>>, q, w)
<1>1. PICK f, s, k, t, g, n :
        /\ f = Inside(o, 1) /\ s = <<f>> /\ k = PutKey(e, o, 1)
        /\ t = Append(Onward(s, 1), Writing(x)) /\ g = EncodeStep(e) /\ n = 1
  OBVIOUS
<1>2. f.of = o /\ f.next = 1
  BY <1>1 DEF Inside
<1>3. n = Len(s) /\ n # 0 /\ f = s[n]
  BY <1>1
<1>4. k = e
  BY <1>1 DEF PutKey
<1>5. Reached(e, s, c, m) /\ Reached(k, s, c, m)
  BY <1>1, <1>4
<1>6. Accepted(x, c, m, n - 1)
  BY <1>1
<1>7. t = Append(Onward(s, n), Writing(x))
  BY <1>1
<1>8. ~Ended(f) /\ x = Part(f.of, f.next) /\ k = PutKey(e, f.of, f.next) /\ g = EncodeStep(e)
  BY <1>1, <1>2
<1>9. Reached(g, t, c + Weight(HeadOf(x)), m + 1)
  BY <1>3, <1>5, <1>6, <1>7, <1>8, Called
<1>10. t = <<Inside(o, 2), Inside(x, 1)>>
  <2>1. Inside(o, 2) = Moved(f)
    BY <1>1, MovedOn
  <2>2. Append(Onward(<<f>>, 1), Writing(x)) = <<Inside(o, 2), Inside(x, 1)>>
    BY <2>1, DeeperFirst
  <2> QED BY <1>1, <2>2
<1> QED BY <1>1, <1>9, <1>10

LEMMA CalledSecond ==
  ASSUME NEW U, NEW x \in Nodes(U), NEW o, NEW i \in Nat, ~Ended(Inside(o, i)), x = Part(o, i),
         NEW j, j = i + 1, NEW a, NEW e, NEW c, NEW m, Reached(e, <<a, Inside(o, i)>>, c, m),
         NEW b, Reached(PutKey(e, o, i), <<a, Inside(o, i)>>, b, m), Accepted(x, b, m, 1),
         NEW q, q = b + Weight(HeadOf(x)), NEW w, w = m + 1
  PROVE  Reached(EncodeStep(e), <<a, Inside(o, j), Inside(x, 1)>>, q, w)
<1>1. PICK f, s, k, t, g, n :
        /\ f = Inside(o, i) /\ s = <<a, f>> /\ k = PutKey(e, o, i)
        /\ t = Append(Onward(s, 2), Writing(x)) /\ g = EncodeStep(e) /\ n = 2
  OBVIOUS
<1>2. f.of = o /\ f.next = i
  BY <1>1 DEF Inside
<1>3. n = Len(s) /\ n # 0 /\ f = s[n]
  BY <1>1
<1>5. Reached(e, s, c, m) /\ Reached(k, s, b, m)
  BY <1>1
<1>6. Accepted(x, b, m, n - 1)
  BY <1>1
<1>7. t = Append(Onward(s, n), Writing(x))
  BY <1>1
<1>8. ~Ended(f) /\ x = Part(f.of, f.next) /\ k = PutKey(e, f.of, f.next) /\ g = EncodeStep(e)
  BY <1>1, <1>2
<1>9. Reached(g, t, b + Weight(HeadOf(x)), m + 1)
  BY <1>3, <1>5, <1>6, <1>7, <1>8, Called
<1>10. t = <<a, Inside(o, j), Inside(x, 1)>>
  <2>1. Inside(o, j) = Moved(f)
    BY <1>1, MovedOn
  <2>2. Append(Onward(<<a, f>>, 2), Writing(x)) = <<a, Inside(o, j), Inside(x, 1)>>
    BY <2>1, DeeperSecond
  <2> QED BY <1>1, <2>2
<1> QED BY <1>1, <1>9, <1>10

\* The value that ends is the only one, the second or the third.
LEMMA ReturnedTo ==
  ASSUME NEW f, Ended(f), NEW a, NEW b, NEW e, NEW c, NEW m
  PROVE  /\ Reached(e, <<f>>, c, m) => Reached(EncodeStep(e), <<>>, c, m)
         /\ Reached(e, <<a, f>>, c, m) => Reached(EncodeStep(e), <<a>>, c, m)
         /\ Reached(e, <<a, b, f>>, c, m) => Reached(EncodeStep(e), <<a, b>>, c, m)
<1>1. PICK g : g = EncodeStep(e)
  OBVIOUS
<1>2. ASSUME Reached(e, <<f>>, c, m) PROVE Reached(g, <<>>, c, m)
  <2>1. PICK s, n, t : s = <<f>> /\ n = 1 /\ t = Front(s)
    OBVIOUS
  <2>2. n = Len(s) /\ n # 0 /\ Ended(s[n])
    BY <2>1
  <2>3. Reached(e, s, c, m)
    BY <1>2, <2>1
  <2>4. Reached(g, t, c, m)
    BY <1>1, <2>1, <2>2, <2>3, Returned
  <2> QED BY <2>1, <2>4, Stacks
<1>3. ASSUME Reached(e, <<a, f>>, c, m) PROVE Reached(g, <<a>>, c, m)
  <2>1. PICK s, n, t : s = <<a, f>> /\ n = 2 /\ t = Front(s)
    OBVIOUS
  <2>2. n = Len(s) /\ n # 0 /\ Ended(s[n])
    BY <2>1
  <2>3. Reached(e, s, c, m)
    BY <1>3, <2>1
  <2>4. Reached(g, t, c, m)
    BY <1>1, <2>1, <2>2, <2>3, Returned
  <2> QED BY <2>1, <2>4, Tops
<1>4. ASSUME Reached(e, <<a, b, f>>, c, m) PROVE Reached(g, <<a, b>>, c, m)
  <2>1. PICK s, n, t : s = <<a, b, f>> /\ n = 3 /\ t = Front(s)
    OBVIOUS
  <2>2. n = Len(s) /\ n # 0 /\ Ended(s[n])
    BY <2>1
  <2>3. Reached(e, s, c, m)
    BY <1>4, <2>1
  <2>4. Reached(g, t, c, m)
    BY <1>1, <2>1, <2>2, <2>3, Returned
  <2> QED BY <2>1, <2>4, Tops
<1> QED BY <1>1, <1>2, <1>3, <1>4

\* The reply and its parts, as the encoder takes them.
LEMMA UnchangedShape ==
  ASSUME NEW v, v = Unchanged, NEW A, A = Array(<<v>>), NEW x, x = Whole(1),
         NEW y, y = unchanged
  PROVE  /\ v.kind = "map" /\ Len(Parts(v)) = 2 /\ Part(v, 1) = x /\ Part(v, 2) = y
         /\ v.entries[1].key = contractVersion /\ v.entries[2].key = action
         /\ A.kind = "array" /\ Len(Parts(A)) = 1 /\ Part(A, 1) = v
         /\ Len(Parts(x)) = 0 /\ Len(Parts(y)) = 0
<1>1. PICK a, b : a = Entry(contractVersion, x) /\ b = Entry(action, y)
  OBVIOUS
<1>2. a.key = contractVersion /\ a.val = x /\ b.key = action /\ b.val = y
  BY <1>1 DEF Entry
<1>3. v.kind = "map" /\ v.entries = <<a, b>>
  BY <1>1 DEF Unchanged, Map
<1>4. Parts(v) = <<a, b>>
  BY <1>3 DEF Parts
<1>5. Part(v, 1) = x /\ Part(v, 2) = y
  BY <1>2, <1>3 DEF Part
<1>6. A.kind = "array" /\ A.items = <<v>>
  BY DEF Array
<1>7. Len(Parts(A)) = 1 /\ Part(A, 1) = v
  BY <1>6 DEF Parts, Part
<1>8. Len(Parts(x)) = 0 /\ Len(Parts(y)) = 0
  BY DEF Parts, Whole, unchanged, Text
<1> QED BY <1>2, <1>3, <1>4, <1>5, <1>6, <1>7, <1>8

LEMMA UnchangedAccepted ==
  ASSUME NEW v, v = Unchanged, NEW x, x = Whole(1), NEW y, y = unchanged
  PROVE  /\ Accepted(v, 0, 0, 0) /\ Weight(HeadOf(v)) = 0
         /\ Allowed(0, Len(contractVersion), MaxString)
         /\ Accepted(x, 1, 1, 1) /\ Weight(HeadOf(x)) = 0
         /\ Allowed(1, Len(action), MaxString)
         /\ Accepted(y, 2, 2, 1) /\ Weight(HeadOf(y)) = 1
<1>1. PICK D \in Nat, S \in Nat, E \in Nat, C \in Nat, V \in Nat :
        D = MaxDepth /\ S = MaxString /\ E = MaxEntries /\ C = MaxContent /\ V = MaxValues
  BY LimitsAssumption
<1>2. D >= 1 /\ S >= 1 /\ E >= 2 /\ C >= 3 /\ V >= 3
  BY <1>1, RoomAssumption
<1>3. Len(Parts(v)) = 2 /\ v.kind = "map" /\ Len(Parts(x)) = 0 /\ Len(Parts(y)) = 0
  BY UnchangedShape
<1>4. ~TooDeep(0) /\ ~TooDeep(1) /\ 0 < MaxValues /\ 1 < MaxValues /\ 2 < MaxValues
  BY <1>1, <1>2 DEF TooDeep
<1>5. Allowed(0, 1, MaxString) /\ Allowed(1, 1, MaxString) /\ Allowed(2, 1, MaxString)
  BY <1>1, <1>2 DEF Allowed
<1>6. HeadOf(v) = [kind |-> "map"]
  BY <1>3 DEF HeadOf
<1>7. PICK h : h = [kind |-> "map"]
  OBVIOUS
<1>8. Fine(h, 2, 0) /\ Weight(h) = 0
  BY <1>1, <1>2, <1>7 DEF Fine, Weight
<1>9. HeadOf(x) = x /\ Fine(x, 0, 1) /\ Weight(x) = 0
  BY DEF HeadOf, Fine, Weight, Whole
<1>10. y.kind = "string" /\ y.s = <<24>> /\ HeadOf(y) = y
  BY DEF HeadOf, unchanged, Text
<1>11. Fine(y, 0, 2) /\ Weight(y) = 1
  BY <1>5, <1>10, Names DEF Fine, Weight
<1> QED BY <1>3, <1>4, <1>5, <1>6, <1>7, <1>8, <1>9, <1>10, <1>11, Names DEF Accepted

LEMMA UnchangedFits == Encode(Unchanged).ok
<1>1. PICK v, A : v = Unchanged /\ A = Array(<<v>>)
  OBVIOUS
<1>2. PICK x, y : x = Whole(1) /\ y = unchanged
  OBVIOUS
<1>3. PICK U : U = Nodes(Scalars)
  OBVIOUS
<1>4. v \in U /\ U \subseteq Nodes(U) /\ v \in Nodes(U) /\ x \in Nodes(U) /\ y \in Nodes(U)
  <2>1. Scalars \subseteq Nodes(Scalars)
    BY DEF Nodes
  <2>2. Scalars \subseteq U /\ U \subseteq Nodes(U)
    BY <1>3, <2>1, NodesGrow
  <2>3. v \in Nodes(Scalars)
    BY <1>1, UnchangedIs
  <2>4. x \in Scalars
    BY <1>2 DEF Whole, Scalars
  <2>5. y \in Scalars
    BY <1>2, Names, TextNode DEF unchanged
  <2> QED BY <1>3, <2>2, <2>3, <2>4, <2>5
<1>5. /\ v.kind = "map" /\ Len(Parts(v)) = 2 /\ Part(v, 1) = x /\ Part(v, 2) = y
      /\ v.entries[1].key = contractVersion /\ v.entries[2].key = action
      /\ A.kind = "array" /\ Len(Parts(A)) = 1 /\ Part(A, 1) = v
      /\ Len(Parts(x)) = 0 /\ Len(Parts(y)) = 0
  BY <1>1, <1>2, UnchangedShape
<1>6. /\ Accepted(v, 0, 0, 0) /\ Weight(HeadOf(v)) = 0
      /\ Allowed(0, Len(contractVersion), MaxString)
      /\ Accepted(x, 1, 1, 1) /\ Weight(HeadOf(x)) = 0
      /\ Allowed(1, Len(action), MaxString)
      /\ Accepted(y, 2, 2, 1) /\ Weight(HeadOf(y)) = 1
  BY <1>1, <1>2, UnchangedAccepted
<1>7. PICK E : E = Encoding(v)
  OBVIOUS
<1>8. E[0] = NewEncoder(v) /\ \A n \in Nat : E[n + 1] = EncodeStep(E[n])
  BY <1>7, EncodingIs
<1>9. /\ E[1] = EncodeStep(E[0]) /\ E[2] = EncodeStep(E[1]) /\ E[3] = EncodeStep(E[2])
      /\ E[4] = EncodeStep(E[3]) /\ E[5] = EncodeStep(E[4]) /\ E[6] = EncodeStep(E[5])
      /\ E[7] = EncodeStep(E[6])
  BY <1>8
<1>11. ~Ended(Inside(A, 1)) /\ Ended(Inside(A, 2))
  <2>1. 1 = Len(Parts(A))
    BY <1>5
  <2>2. (Ended(Inside(A, 1)) <=> 1 > 1) /\ (Ended(Inside(A, 2)) <=> 2 > 1)
    BY <2>1, EndedAt
  <2> QED BY <2>2
<1>12. ~Ended(Inside(v, 1)) /\ ~Ended(Inside(v, 2)) /\ Ended(Inside(v, 3))
  <2>1. 2 = Len(Parts(v))
    BY <1>5
  <2>2. /\ Ended(Inside(v, 1)) <=> 1 > 2
        /\ Ended(Inside(v, 2)) <=> 2 > 2
        /\ Ended(Inside(v, 3)) <=> 3 > 2
    BY <2>1, EndedAt
  <2> QED BY <2>2
<1>13. Ended(Inside(x, 1)) /\ Ended(Inside(y, 1))
  BY <1>5 DEF Ended, Inside
<1>14. PICK a : a = Inside(A, 2)
  OBVIOUS
<1>15. Reached(E[0], <<Inside(A, 1)>>, 0, 0)
  <2>1. PICK e : e = NewEncoder(v)
    OBVIOUS
  <2>2. e.stack = <<Inside(A, 1)>> /\ e.content = 0 /\ e.values = 0
    BY <1>1, <2>1 DEF NewEncoder, Writing, Inside
  <2>3. Writes(e)
    BY <1>4, <2>1, NewEncodes
  <2> QED BY <1>8, <2>1, <2>2, <2>3 DEF Reached
<1>16. Reached(E[1], <<a, Inside(v, 1)>>, 0, 1)
  <2>1. 0 = 0 + Weight(HeadOf(v)) /\ 1 = 0 + 1
    BY <1>6
  <2>2. A.kind # "map" /\ v = Part(A, 1) /\ Accepted(v, 0, 0, 0)
    BY <1>5, <1>6
  <2>3. Reached(EncodeStep(E[0]), <<Inside(A, 2), Inside(v, 1)>>, 0, 1)
    BY <1>4, <1>11, <1>15, <2>1, <2>2, CalledFirst
  <2> QED BY <1>9, <1>14, <2>3
<1>17. Reached(E[2], <<a, Inside(v, 2), Inside(x, 1)>>, 1, 2)
  <2>1. PICK s : s = <<a, Inside(v, 1)>>
    OBVIOUS
  <2>2. contractVersion \in Texts /\ Len(contractVersion) = 1
    BY Names
  <2>3. Reached(E[1], s, 0, 1)
    BY <1>16, <2>1
  <2>4. \A i \in 1..(1 - 1) : v.entries[i].key # contractVersion
    OBVIOUS
  <2>5. v.kind = "map" /\ v.entries[1].key = contractVersion
        /\ Allowed(0, Len(contractVersion), MaxString)
    BY <1>5, <1>6
  <2>6. Reached(PutKey(E[1], v, 1), s, 0 + Len(contractVersion), 1)
    BY <2>2, <2>3, <2>4, <2>5, KeyPut
  <2>7. Reached(PutKey(E[1], v, 1), <<a, Inside(v, 1)>>, 1, 1)
    BY <2>1, <2>2, <2>6
  <2>8. 1 = 1 + Weight(HeadOf(x)) /\ 2 = 1 + 1
    BY <1>6
  <2>9. x = Part(v, 1) /\ Accepted(x, 1, 1, 1) /\ ~Ended(Inside(v, 1)) /\ x \in Nodes(U)
    BY <1>4, <1>5, <1>6, <1>12
  <2>10. Reached(EncodeStep(E[1]), <<a, Inside(v, 2), Inside(x, 1)>>, 1, 2)
    BY <1>16, <2>7, <2>8, <2>9, CalledSecond
  <2> QED BY <1>9, <2>10
<1>18. Reached(E[3], <<a, Inside(v, 2)>>, 1, 2)
  BY <1>9, <1>13, <1>17, ReturnedTo
<1>19. Reached(E[4], <<a, Inside(v, 3), Inside(y, 1)>>, 3, 3)
  <2>1. PICK s : s = <<a, Inside(v, 2)>>
    OBVIOUS
  <2>2. action \in Texts /\ Len(action) = 1 /\ contractVersion # action
    BY Names DEF contractVersion, action
  <2>3. Reached(E[3], s, 1, 2)
    BY <1>18, <2>1
  <2>4. \A i \in 1..(2 - 1) : v.entries[i].key # action
    BY <1>5, <2>2
  <2>5. v.kind = "map" /\ v.entries[2].key = action /\ Allowed(1, Len(action), MaxString)
    BY <1>5, <1>6
  <2>6. Reached(PutKey(E[3], v, 2), s, 1 + Len(action), 2)
    BY <2>2, <2>3, <2>4, <2>5, KeyPut
  <2>7. Reached(PutKey(E[3], v, 2), <<a, Inside(v, 2)>>, 2, 2)
    BY <2>1, <2>2, <2>6
  <2>8. 3 = 2 + Weight(HeadOf(y)) /\ 3 = 2 + 1
    BY <1>6
  <2>9. y = Part(v, 2) /\ Accepted(y, 2, 2, 1) /\ ~Ended(Inside(v, 2)) /\ y \in Nodes(U)
    BY <1>4, <1>5, <1>6, <1>12
  <2>10. Reached(EncodeStep(E[3]), <<a, Inside(v, 3), Inside(y, 1)>>, 3, 3)
    BY <1>18, <2>7, <2>8, <2>9, CalledSecond
  <2> QED BY <1>9, <2>10
<1>20. Reached(E[5], <<a, Inside(v, 3)>>, 3, 3)
  BY <1>9, <1>13, <1>19, ReturnedTo
<1>21. Reached(E[6], <<a>>, 3, 3)
  <2>1. PICK f : f = Inside(v, 3)
    OBVIOUS
  <2>2. Ended(f) /\ Reached(E[5], <<a, f>>, 3, 3)
    BY <1>12, <1>20, <2>1
  <2>3. Reached(EncodeStep(E[5]), <<a>>, 3, 3)
    BY <2>2, ReturnedTo
  <2> QED BY <1>9, <2>3
<1>22. Reached(E[7], <<>>, 3, 3)
  <2>1. Ended(a)
    BY <1>11, <1>14
  <2>2. Reached(EncodeStep(E[6]), <<>>, 3, 3)
    BY <1>21, <2>1, ReturnedTo
  <2> QED BY <1>9, <2>2
<1>23. 7 <= Steps
  <2>1. MaxValues \in Nat /\ MaxValues >= 3
    BY LimitsAssumption, RoomAssumption
  <2> QED BY <2>1 DEF Steps
<1>24. Encode(v) = E[7]
  <2>1. Len(Encoding(v)[7].stack) = 0
    BY <1>7, <1>22 DEF Reached
  <2> QED BY <1>7, <1>23, <2>1, EndsSo
<1> QED BY <1>1, <1>22, <1>24 DEF Reached, Writes

-----------------------------------------------------------------------------
\* The reply to a launch.

\* What is to be shown of a reply to v, by its kind and its wire.
ReplacedFor(v, o) ==
  LET sent == Field(v, data)
      back == Field(o, data)
      old  == Field(Command(sent), jvmArguments).items
  IN  /\ Is(Command(sent), mode, structuredJava)
      /\ PlanWithout(back) = PlanWithout(sent)
      /\ Field(Command(back), jvmArguments).items = Append(old, ExampleArgument)
Answers(kind, w, v) ==
  /\ kind = "ok" => /\ Complete(Decode(w))
                    /\ Is(Decoded(w), action, replace) => ReplacedFor(v, Decoded(w))
  /\ InContract(v) /\ ~Structured(v) => kind = "ok" /\ Is(Decoded(w), action, unchanged)

\* What Wire() makes of a value comes back as that value.
LEMMA WireIs ==
  ASSUME NEW U, U \subseteq Nodes(U), NEW x \in U, NEW r, r = Wire(x)
  PROVE  /\ r.kind = "ok" => Complete(Decode(r.wire)) /\ Decoded(r.wire) = x
         /\ Encode(x).ok => r.kind = "ok"
<1>1. PICK e : e = Encode(x)
  OBVIOUS
<1>2. CASE e.ok
  <2>1. r.kind = "ok" /\ r.wire = e.out
    BY <1>1, <1>2 DEF Wire
  <2>2. Complete(Decode(Encode(x).out)) /\ Decoded(Encode(x).out) = x
    BY <1>1, <1>2, Arrives
  <2> QED BY <1>1, <2>1, <2>2
<1>3. CASE ~e.ok
  <2>1. r.kind = "error"
    BY <1>1, <1>3 DEF Wire, Error
  <2> QED BY <1>1, <1>3, <2>1
<1> QED BY <1>2, <1>3

LEMMA UnchangedAnswers ==
  ASSUME NEW v, NEW r, r = Wire(Unchanged)
  PROVE  Answers(r.kind, r.wire, v)
<1>1. PICK U, x : U = Nodes(Scalars) /\ x = Unchanged
  OBVIOUS
<1>2. Scalars \subseteq Nodes(Scalars)
  BY DEF Nodes
<1>3. U \subseteq Nodes(U)
  BY <1>1, <1>2, NodesGrow
<1>4. x \in U /\ Is(x, action, unchanged) /\ ~Is(x, action, replace)
  BY <1>1, UnchangedIs
<1>5. Encode(x).ok /\ r = Wire(x)
  BY <1>1, UnchangedFits
<1>6. r.kind = "ok" /\ Complete(Decode(r.wire)) /\ Decoded(r.wire) = x
  BY <1>3, <1>4, <1>5, WireIs
<1> QED BY <1>4, <1>6 DEF Answers

\* The replacement is a value like any other, and says what it should.
LEMMA ReplacementIs ==
  ASSUME NEW v \in Values, InContract(v), Structured(v), HasArguments(v), NEW x,
         x = Replace(Pushed(Field(v, data)))
  PROVE  ReplacedFor(v, x) /\ \E U : U \subseteq Nodes(U) /\ x \in U
<1>1. PICK d, e : d = Field(v, data) /\ e = Pushed(d) /\ x = Replace(e)
  OBVIOUS
<1>2. PICK X, W, U : X = Nodes(Values) /\ W = Nodes(Nodes(Nodes(Nodes(X)))) /\ U = Nodes(Nodes(W))
  OBVIOUS
<1>3. Values \subseteq X /\ Roomy(X, Values)
  <2>1. Values \subseteq Nodes(Values)
    BY LimitsAssumption
  <2>2. X \subseteq Nodes(X)
    BY <1>2, <2>1, NodesGrow
  <2>3. Scalars \subseteq X
    <3>1. Scalars \subseteq Nodes(Values)
      BY DEF Nodes
    <3> QED BY <1>2, <3>1
  <2> QED BY <1>2, <2>1, <2>2, <2>3 DEF Roomy
<1>4. Roomy(W, Values) /\ Roomy(U, Values)
  <2>1. PICK A, B, C, D : A = Nodes(X) /\ B = Nodes(A) /\ C = Nodes(B) /\ D = Nodes(W)
    OBVIOUS
  <2>2. Roomy(A, Values) /\ Roomy(B, Values) /\ Roomy(C, Values)
    BY <1>3, <2>1, Roomier
  <2>3. W = Nodes(C) /\ U = Nodes(D)
    BY <1>2, <2>1
  <2>4. Roomy(W, Values)
    BY <2>2, <2>3, Roomier
  <2> QED BY <2>1, <2>3, <2>4, Roomier
<1>5. d \in Values
  <2>1. v \in Nodes(Values) /\ Has(v, data)
    BY LimitsAssumption DEF InContract
  <2>2. PICK i : i = Where(v, data)
    OBVIOUS
  <2> QED BY <1>1, <2>1, <2>2, FieldIs
<1>6. Has(d, plan) /\ Has(Field(d, plan), command)
  BY <1>1 DEF InContract
<1>7. Has(Command(d), jvmArguments) /\ Field(Command(d), jvmArguments).kind = "array"
  BY <1>1 DEF HasArguments
<1>8. /\ e \in W /\ PlanWithout(e) = PlanWithout(d)
      /\ Field(Command(e), jvmArguments).items
           = Append(Field(Command(d), jvmArguments).items, ExampleArgument)
  <2>1. Values \subseteq Nodes(Values)
    BY LimitsAssumption
  <2> QED BY <1>1, <1>2, <1>3, <1>5, <1>6, <1>7, <2>1, PushesOne
<1>9. x \in U /\ Field(x, data) = e
  <2>1. Scalars \subseteq W /\ W \subseteq Nodes(W)
    BY <1>4 DEF Roomy
  <2> QED BY <1>1, <1>2, <1>8, <2>1, ReplaceIs
<1>10. ReplacedFor(v, x)
  <2>1. Is(Command(d), mode, structuredJava)
    BY <1>1 DEF Structured
  <2> QED BY <1>1, <1>8, <1>9, <2>1 DEF ReplacedFor
<1>11. U \subseteq Nodes(U)
  BY <1>4 DEF Roomy
<1> QED BY <1>9, <1>10, <1>11

LEMMA ReplaceAnswers ==
  ASSUME NEW v \in Values, InContract(v), Structured(v), HasArguments(v), NEW r,
         r = Wire(Replace(Pushed(Field(v, data))))
  PROVE  Answers(r.kind, r.wire, v)
<1>1. PICK x : x = Replace(Pushed(Field(v, data)))
  OBVIOUS
<1>2. ReplacedFor(v, x) /\ \E U : U \subseteq Nodes(U) /\ x \in U
  BY <1>1, ReplacementIs
<1>3. r = Wire(x)
  BY <1>1
<1>4. r.kind = "ok" => Complete(Decode(r.wire)) /\ Decoded(r.wire) = x
  BY <1>2, <1>3, WireIs
<1> QED BY <1>2, <1>4 DEF Answers

LEMMA HookAnswers ==
  ASSUME NEW v \in Values, NEW r, r = Hook(v)
  PROVE  Answers(r.kind, r.wire, v)
<1>1. ASSUME r = Error("invalid-argument"), ~(InContract(v) /\ ~Structured(v))
      PROVE  Answers(r.kind, r.wire, v)
  BY <1>1 DEF Error, Answers
<1>2. CASE ~InContract(v)
  BY <1>1, <1>2 DEF Hook
<1>3. CASE InContract(v) /\ ~Structured(v)
  <2>1. r = Wire(Unchanged)
    BY <1>3 DEF Hook
  <2> QED BY <2>1, UnchangedAnswers
<1>4. CASE InContract(v) /\ Structured(v) /\ ~HasArguments(v)
  BY <1>1, <1>4 DEF Hook
<1>5. CASE InContract(v) /\ Structured(v) /\ HasArguments(v)
  <2>1. r = Wire(Replace(Pushed(Field(v, data))))
    BY <1>5 DEF Hook
  <2> QED BY <1>5, <2>1, ReplaceAnswers
<1> QED BY <1>2, <1>3, <1>4, <1>5

\* The inductive invariant: what the example makes of a callback is made of
\* the value that was sent, for that is the value that arrived.
Answered == Sent /\ (Launch => Answers(reply.kind, reply.wire, value))

LEMMA InitAnswered == HookInit => Answered
  BY InitSent DEF HookInit, Answered, Launch, NoReply

LEMMA NextAnswered == Answered /\ [HookNext]_hook => Answered'
<1> SUFFICES ASSUME Answered, [HookNext]_hook PROVE Answered'
  OBVIOUS
<1>1. Sent /\ (Launch => Answers(reply.kind, reply.wire, value))
  BY DEF Answered
<1>2. [Next]_vars
  BY DEF HookNext, hook, vars, Invoke
<1>3. Sent' /\ value' = value
  <2>1. value' = value
    BY <1>2 DEF Next, Send, Damage, Receive, vars
  <2> QED BY <1>1, <1>2, <2>1, NextSent
<1>4. CASE UNCHANGED reply
  BY <1>1, <1>3, <1>4 DEF Answered, Launch
<1>5. CASE Invoke
  <2>1. got = value /\ value \in Values
    BY <1>1, <1>5 DEF Invoke, Sent, RoundTrip
  <2>2. ASSUME Launch' PROVE Answers(reply'.kind, reply'.wire, value)
    <3>1. PICK r : r = Hook(value)
      OBVIOUS
    <3>2. reply'.kind = r.kind /\ reply'.wire = r.wire
      BY <1>5, <2>1, <2>2, <3>1 DEF Invoke, Operations, Launch
    <3>3. Answers(r.kind, r.wire, value)
      BY <2>1, <3>1, HookAnswers
    <3> QED BY <3>2, <3>3
  <2> QED BY <1>3, <2>2 DEF Answered
<1> QED BY <1>4, <1>5 DEF HookNext, hook

\* Whatever the values and the limits, a replacement read by the launcher is
\* what it sent but for one argument at the end of jvmArguments, and any other
\* mode is answered "unchanged", which no limit refuses.
THEOREM ReplacesWell == HookSpec => []ReplacesOneThing
<1>1. Answered => ReplacesOneThing
  BY DEF Answered, Answers, ReplacedFor, ReplacesOneThing, ReplacedWell, Outcome
<1> QED BY <1>1, InitAnswered, NextAnswered, PTL DEF HookSpec

-----------------------------------------------------------------------------
\* What the decoder accepts is what the encoder writes.

\* What is left of a value without its n parts.
IsHead(h, n) ==
  \/ h \in Scalars /\ n = 0
  \/ h \in {[kind |-> "array"], [kind |-> "map"]} /\ n \in Nat

\* Behind a and c, the decoder has found a value under the tag.
Found(d, g, tag, w, a, c) ==
  \E h, n : /\ IsHead(h, n) /\ Tags[h.kind] = tag
            /\ Ahead(w, a, Body(h, n)) /\ Fine(h, n, c) /\ Taken(d, g, h, n, a, c)

LEMMA DeadThen ==
  ASSUME NEW r, Dead(r), NEW x, NEW g, g = IF r.ok THEN x ELSE r
  PROVE  Dead(g)
  BY DEF Dead

LEMMA NullFound ==
  ASSUME NEW w \in Seq(Int), NEW a \in Nat, NEW c \in Nat, NEW d, Stands(d, w, a, c),
         NEW g, g = GetKind(d, 0)
  PROVE  Dead(g) \/ Found(d, g, 0, w, a, c)
<1>1. PICK r : r = Expect(d, Nil)
  OBVIOUS
<1>2. PICK h : h = [kind |-> "null"]
  OBVIOUS
<1>3. PICK x : x = [r EXCEPT !.got = Reading(h, 0)]
  OBVIOUS
<1>4. g = IF r.ok THEN x ELSE r
  BY <1>1, <1>2, <1>3 DEF GetKind, Tags, Leaf, Then
<1>5. Body(h, 0) = <<Nil>> /\ Nil \in Int /\ h \in Scalars /\ Fine(h, 0, c) /\ Tags[h.kind] = 0
  BY <1>2 DEF Body, Nil, Scalars, Fine, Tags
<1>6. CASE a + 1 <= Len(w) /\ w[a + 1] = Nil
  <2>1. Ahead(w, a, Body(h, 0))
    BY <1>5, <1>6, OneAhead
  <2>2. Taken(d, g, h, 0, a, c)
    BY <1>2, <2>1, NullTaken
  <2> QED BY <1>5, <2>1, <2>2 DEF Found, IsHead
<1>7. CASE ~(a + 1 <= Len(w) /\ w[a + 1] = Nil)
  <2>1. Dead(r)
    BY <1>1, <1>5, <1>7, ExpectFinds DEF Stands
  <2> QED BY <1>4, <2>1, DeadThen
<1> QED BY <1>6, <1>7

LEMMA BoolFound ==
  ASSUME NEW w \in Seq(Int), NEW a \in Nat, NEW c \in Nat, NEW d, Stands(d, w, a, c),
         NEW g, g = GetKind(d, 1)
  PROVE  Dead(g) \/ Found(d, g, 1, w, a, c)
<1>1. PICK q : q = Read(d, 1)
  OBVIOUS
<1>2. PICK r : r = IF q.ok THEN Check(q, q.got \in {<<True>>, <<False>>}) ELSE q
  OBVIOUS
<1>3. PICK x : x = [r EXCEPT !.got = Reading([kind |-> "bool", b |-> r.got = <<True>>], 0)]
  OBVIOUS
<1>4. g = IF r.ok THEN x ELSE r
  BY <1>1, <1>2, <1>3 DEF GetKind, Tags, Leaf, Then
<1>5. CASE a + 1 <= Len(w) /\ w[a + 1] \in {True, False}
  <2>1. PICK b \in BOOLEAN : w[a + 1] = IF b THEN True ELSE False
    BY <1>5
  <2>2. PICK h : h = [kind |-> "bool", b |-> b]
    OBVIOUS
  <2>3. PICK m \in Int : m = IF b THEN True ELSE False
    BY DEF True, False
  <2>4. Body(h, 0) = <<m>> /\ h \in Scalars /\ Fine(h, 0, c) /\ Tags[h.kind] = 1
    BY <2>2, <2>3 DEF Body, Scalars, Fine, Tags
  <2>5. Ahead(w, a, Body(h, 0))
    BY <1>5, <2>1, <2>3, <2>4, OneAhead
  <2>6. Taken(d, g, h, 0, a, c)
    BY <2>2, <2>5, BoolTaken
  <2> QED BY <2>4, <2>5, <2>6 DEF Found, IsHead
<1>6. CASE a + 1 <= Len(w) /\ ~(w[a + 1] \in {True, False})
  <2>1. PICK b \in Nat : b = a + 1
    OBVIOUS
  <2>2. Finds(d, q, b, c, SubSeq(w, b, b))
    BY <1>1, <1>6, <2>1, ReadFinds DEF Stands
  <2>3. SubSeq(w, b, b) = <<w[b]>>
    BY <1>6, <2>1, Single
  <2>4. q.ok /\ q.got = <<w[b]>> /\ Runs(q)
    BY <2>2, <2>3, FindsGot
  <2>5. ~(q.got \in {<<True>>, <<False>>})
    BY <1>6, <2>1, <2>4
  <2>6. r = Fail(q)
    BY <1>2, <2>4, <2>5 DEF Check
  <2>7. Dead(r)
    BY <2>4, <2>6, Dies
  <2> QED BY <1>4, <2>7, DeadThen
<1>7. CASE ~(a + 1 <= Len(w))
  <2>1. Dead(q)
    BY <1>1, <1>7, ReadFinds DEF Stands
  <2>2. Dead(r)
    BY <1>2, <2>1, DeadThen
  <2> QED BY <1>4, <2>2, DeadThen
<1> QED BY <1>5, <1>6, <1>7

LEMMA IntegerFound ==
  ASSUME NEW w \in Seq(Int), NEW a \in Nat, NEW c \in Nat, NEW d, Stands(d, w, a, c),
         NEW g, g = GetKind(d, 2)
  PROVE  Dead(g) \/ Found(d, g, 2, w, a, c)
<1>1. PICK r : r = Number(d, Int64)
  OBVIOUS
<1>2. PICK x : x = [r EXCEPT !.got = Reading([kind |-> "integer", n |-> r.got], 0)]
  OBVIOUS
<1>3. g = IF r.ok THEN x ELSE r
  BY <1>1, <1>2 DEF GetKind, Tags, Leaf, Then
<1>4. Int64 \in Int
  BY DEF Int64
<1>5. CASE a + 2 <= Len(w) /\ w[a + 1] = Int64
  <2>1. PICK n \in Int : n = w[a + 2]
    <3>1. a + 2 \in 1..Len(w)
      BY <1>5
    <3> QED BY <3>1
  <2>2. PICK h : h = [kind |-> "integer", n |-> n]
    OBVIOUS
  <2>3. Body(h, 0) = <<Int64, n>> /\ h \in Scalars /\ Fine(h, 0, c) /\ Tags[h.kind] = 2
    BY <2>2 DEF Body, Scalars, Fine, Tags
  <2>4. Ahead(w, a, Body(h, 0))
    BY <1>4, <1>5, <2>1, <2>3, TwoAhead
  <2>5. Taken(d, g, h, 0, a, c)
    BY <2>2, <2>4, IntegerTaken
  <2> QED BY <2>3, <2>4, <2>5 DEF Found, IsHead
<1>6. CASE ~(a + 2 <= Len(w) /\ w[a + 1] = Int64)
  <2>1. Dead(r)
    BY <1>1, <1>4, <1>6, NumberFinds DEF Stands
  <2> QED BY <1>3, <2>1, DeadThen
<1> QED BY <1>5, <1>6

LEMMA FloatFound ==
  ASSUME NEW w \in Seq(Int), NEW a \in Nat, NEW c \in Nat, NEW d, Stands(d, w, a, c),
         NEW g, g = GetKind(d, 3)
  PROVE  Dead(g) \/ Found(d, g, 3, w, a, c)
<1>1. PICK q : q = Number(d, Float64)
  OBVIOUS
<1>2. PICK r : r = IF q.ok THEN Check(q, q.got # NotFinite) ELSE q
  OBVIOUS
<1>3. PICK x : x = [r EXCEPT !.got = Reading([kind |-> "float", n |-> r.got], 0)]
  OBVIOUS
<1>4. g = IF r.ok THEN x ELSE r
  BY <1>1, <1>2, <1>3 DEF GetKind, Tags, Leaf, Then
<1>5. Float64 \in Int
  BY DEF Float64
<1>6. CASE a + 2 <= Len(w) /\ w[a + 1] = Float64 /\ w[a + 2] # NotFinite
  <2>1. PICK n \in Int : n = w[a + 2]
    <3>1. a + 2 \in 1..Len(w)
      BY <1>6
    <3> QED BY <3>1
  <2>2. PICK h : h = [kind |-> "float", n |-> n]
    OBVIOUS
  <2>3. Body(h, 0) = <<Float64, n>> /\ h \in Scalars /\ Fine(h, 0, c) /\ Tags[h.kind] = 3
    BY <1>6, <2>1, <2>2 DEF Body, Scalars, Fine, Tags
  <2>4. Ahead(w, a, Body(h, 0))
    BY <1>5, <1>6, <2>1, <2>3, TwoAhead
  <2>5. Taken(d, g, h, 0, a, c)
    BY <1>6, <2>1, <2>2, <2>4, FloatTaken
  <2> QED BY <2>3, <2>4, <2>5 DEF Found, IsHead
<1>7. CASE a + 2 <= Len(w) /\ w[a + 1] = Float64 /\ w[a + 2] = NotFinite
  <2>1. Finds(d, q, a + 2, c, w[a + 2])
    BY <1>1, <1>5, <1>7, NumberFinds DEF Stands
  <2>2. q.ok /\ q.got = NotFinite /\ Runs(q)
    BY <1>7, <2>1, FindsGot
  <2>3. r = Fail(q)
    BY <1>2, <2>2 DEF Check
  <2>4. Dead(r)
    BY <2>2, <2>3, Dies
  <2> QED BY <1>4, <2>4, DeadThen
<1>8. CASE ~(a + 2 <= Len(w) /\ w[a + 1] = Float64)
  <2>1. Dead(q)
    BY <1>1, <1>5, <1>8, NumberFinds DEF Stands
  <2>2. Dead(r)
    BY <1>2, <2>1, DeadThen
  <2> QED BY <1>4, <2>2, DeadThen
<1> QED BY <1>6, <1>7, <1>8

LEMMA StringFound ==
  ASSUME NEW w \in Seq(Int), NEW a \in Nat, NEW c \in Nat, NEW d, Stands(d, w, a, c),
         NEW g, g = GetKind(d, 4)
  PROVE  Dead(g) \/ Found(d, g, 4, w, a, c)
<1>1. PICK r : r = GetString(d)
  OBVIOUS
<1>2. PICK x : x = [r EXCEPT !.got = Reading([kind |-> "string", s |-> r.got], 0)]
  OBVIOUS
<1>3. g = IF r.ok THEN x ELSE r
  BY <1>1, <1>2 DEF GetKind, Tags, Leaf, Then
<1>4. ASSUME NEW t \in Texts, Ahead(w, a, Block(Str32, t)), Allowed(c, Len(t), MaxString)
      PROVE  Found(d, g, 4, w, a, c)
  <2>1. PICK h : h = [kind |-> "string", s |-> t]
    OBVIOUS
  <2>2. Body(h, 0) = Block(Str32, t) /\ h \in Scalars /\ Fine(h, 0, c) /\ Tags[h.kind] = 4
    BY <1>4, <2>1 DEF Body, Scalars, Fine, Tags
  <2>3. Ahead(w, a, Body(h, 0))
    BY <1>4, <2>2
  <2>4. Taken(d, g, h, 0, a, c)
    BY <1>4, <2>1, <2>3, StringTaken
  <2> QED BY <2>2, <2>3, <2>4 DEF Found, IsHead
<1>5. Dead(r) => Dead(g)
  BY <1>3, DeadThen
<1> QED BY <1>1, <1>4, <1>5, StringFinds

LEMMA BytesFound ==
  ASSUME NEW w \in Seq(Int), NEW a \in Nat, NEW c \in Nat, NEW d, Stands(d, w, a, c),
         NEW g, g = GetKind(d, 5)
  PROVE  Dead(g) \/ Found(d, g, 5, w, a, c)
<1>1. PICK r : r = GetBytes(d)
  OBVIOUS
<1>2. PICK x : x = [r EXCEPT !.got = Reading([kind |-> "bytes", s |-> r.got], 0)]
  OBVIOUS
<1>3. g = IF r.ok THEN x ELSE r
  BY <1>1, <1>2 DEF GetKind, Tags, Leaf, Then
<1>4. ASSUME NEW t \in Seq(Int), Ahead(w, a, Block(Bin32, t)), Allowed(c, Len(t), MaxBytes)
      PROVE  Found(d, g, 5, w, a, c)
  <2>1. PICK h : h = [kind |-> "bytes", s |-> t]
    OBVIOUS
  <2>2. Body(h, 0) = Block(Bin32, t) /\ h \in Scalars /\ Fine(h, 0, c) /\ Tags[h.kind] = 5
    BY <1>4, <2>1 DEF Body, Scalars, Fine, Tags
  <2>3. Ahead(w, a, Body(h, 0))
    BY <1>4, <2>2
  <2>4. Taken(d, g, h, 0, a, c)
    BY <1>4, <2>1, <2>3, BytesTaken
  <2> QED BY <2>2, <2>3, <2>4 DEF Found, IsHead
<1>5. Dead(r) => Dead(g)
  BY <1>3, DeadThen
<1> QED BY <1>1, <1>4, <1>5, BytesFind

LEMMA NodeFound ==
  ASSUME NEW w \in Seq(Int), NEW a \in Nat, NEW c \in Nat, NEW d, Stands(d, w, a, c),
         NEW kind \in {"array", "map"}, NEW g, g = GetNode(d, kind),
         NEW tag, tag = Tags[kind]
  PROVE  Dead(g) \/ Found(d, g, tag, w, a, c)
<1>1. PICK r : r = Entries(d)
  OBVIOUS
<1>2. PICK x : x = [r EXCEPT !.got = Reading([kind |-> kind], r.got)]
  OBVIOUS
<1>3. g = IF r.ok THEN x ELSE r
  BY <1>1, <1>2 DEF GetNode, Then
<1>4. ASSUME NEW n \in Nat, Ahead(w, a, <<Array32, n>>), n <= MaxEntries
      PROVE  Found(d, g, tag, w, a, c)
  <2>1. PICK h : h = [kind |-> kind]
    OBVIOUS
  <2>2. Body(h, n) = <<Array32, n>> /\ Fine(h, n, c) /\ Tags[h.kind] = tag /\ IsHead(h, n)
    <3>1. h.kind \in {"array", "map"} /\ h.kind = kind
      BY <2>1
    <3>2. h \in {[kind |-> "array"], [kind |-> "map"]}
      BY <2>1
    <3>3. Body(h, n) = <<Array32, n>>
      BY <3>1 DEF Body
    <3>4. Fine(h, n, c)
      BY <1>4, <3>1 DEF Fine
    <3> QED BY <3>1, <3>2, <3>3, <3>4 DEF IsHead
  <2>3. Ahead(w, a, Body(h, n))
    BY <1>4, <2>2
  <2>4. Taken(d, g, h, n, a, c)
    BY <1>4, <2>1, <2>3, NodeTaken
  <2> QED BY <2>2, <2>3, <2>4 DEF Found
<1>5. Dead(r) => Dead(g)
  BY <1>3, DeadThen
<1> QED BY <1>1, <1>4, <1>5, EntriesFind

LEMMA CodeIs ==
  ASSUME NEW t \in Texts, IsWireCode(t)
  PROVE  ErrorCodes[t[1]] \in Codes /\ WireCode(ErrorCodes[t[1]]) = t
<1>1. PICK i : i = t[1]
  OBVIOUS
<1>2. Len(t) = 1 /\ i \in 1..Len(ErrorCodes) /\ t \in Seq(Int)
  BY <1>1 DEF IsWireCode, Texts
<1>3. ErrorCodes[i] \in Codes
  BY <1>2 DEF Codes
<1>4. \A j \in 1..Len(ErrorCodes) : ErrorCodes[j] = ErrorCodes[i] => j = i
  <2>1. /\ ErrorCodes[1] = "InvalidArgument" /\ ErrorCodes[2] = "InvalidResult"
        /\ ErrorCodes[3] = "PermissionDenied" /\ ErrorCodes[4] = "StaleHandle"
        /\ ErrorCodes[5] = "TypeMismatch" /\ ErrorCodes[6] = "Cancelled"
        /\ ErrorCodes[7] = "CallbackFailed" /\ ErrorCodes[8] = "Unavailable"
        /\ ErrorCodes[9] = "Internal"
    BY DEF ErrorCodes
  <2>2. Len(ErrorCodes) = 9
    BY DEF ErrorCodes
  <2>3. PICK I : I = 1..Len(ErrorCodes)
    OBVIOUS
  <2>4. I = {1, 2, 3, 4, 5, 6, 7, 8, 9} /\ i \in I
    BY <1>2, <2>2, <2>3
  <2>5. PICK f : f = [InvalidArgument |-> 1, InvalidResult |-> 2, PermissionDenied |-> 3,
                      StaleHandle |-> 4, TypeMismatch |-> 5, Cancelled |-> 6,
                      CallbackFailed |-> 7, Unavailable |-> 8, Internal |-> 9]
    OBVIOUS
  <2>6. /\ f["InvalidArgument"] = 1 /\ f["InvalidResult"] = 2 /\ f["PermissionDenied"] = 3
        /\ f["StaleHandle"] = 4 /\ f["TypeMismatch"] = 5 /\ f["Cancelled"] = 6
        /\ f["CallbackFailed"] = 7 /\ f["Unavailable"] = 8 /\ f["Internal"] = 9
    BY <2>5
  <2>7. \A j \in I : f[ErrorCodes[j]] = j
    BY <2>1, <2>4, <2>6
  <2>8. i \in I
    BY <2>4
  <2> QED BY <2>3, <2>7, <2>8, Zenon
<1>5. i = CHOOSE j \in 1..Len(ErrorCodes) : ErrorCodes[j] = ErrorCodes[i]
  BY <1>2, <1>4
<1>6. WireCode(ErrorCodes[i]) = <<i>>
  BY <1>5 DEF WireCode
<1>7. t = <<i>>
  BY <1>1, <1>2
<1> QED BY <1>1, <1>3, <1>6, <1>7

LEMMA ErrorFound ==
  ASSUME NEW w \in Seq(Int), NEW a \in Nat, NEW c \in Nat, NEW d, Stands(d, w, a, c),
         NEW g, g = GetKind(d, 9)
  PROVE  Dead(g) \/ Found(d, g, 9, w, a, c)
<1>1. PICK q : q = Metadata(d)
  OBVIOUS
<1>2. PICK r : r = IF q.ok THEN Check(q, IsWireCode(q.got)) ELSE q
  OBVIOUS
<1>3. PICK x : x = [r EXCEPT !.got =
                     Reading([kind |-> "error", code |-> ErrorCodes[r.got[1]]], 0)]
  OBVIOUS
<1>4. g = IF r.ok THEN x ELSE r
  BY <1>1, <1>2, <1>3 DEF GetKind, Tags, Leaf, Then
<1>5. ASSUME NEW t \in Texts, Ahead(w, a, Block(Str32, t)), IsWireCode(t)
      PROVE  Found(d, g, 9, w, a, c)
  <2>1. PICK o : o = ErrorCodes[t[1]]
    OBVIOUS
  <2>2. o \in Codes /\ WireCode(o) = t
    BY <1>5, <2>1, CodeIs
  <2>3. PICK h : h = [kind |-> "error", code |-> o]
    OBVIOUS
  <2>4. Body(h, 0) = Block(Str32, t) /\ h \in Scalars /\ Fine(h, 0, c) /\ Tags[h.kind] = 9
    BY <2>2, <2>3 DEF Body, Scalars, Fine, Tags
  <2>5. Ahead(w, a, Body(h, 0))
    BY <1>5, <2>4
  <2>6. Taken(d, g, h, 0, a, c)
    BY <2>2, <2>3, <2>5, ErrorTaken
  <2> QED BY <2>4, <2>5, <2>6 DEF Found, IsHead
<1>6. ASSUME NEW t \in Texts, NEW b, Finds(d, q, b, c, t), ~IsWireCode(t)
      PROVE  Dead(g)
  <2>1. q.ok /\ q.got = t /\ Runs(q)
    BY <1>6, FindsGot
  <2>2. r = Fail(q)
    BY <1>2, <1>6, <2>1 DEF Check
  <2>3. Dead(r)
    BY <2>1, <2>2, Dies
  <2> QED BY <1>4, <2>3, DeadThen
<1>7. ASSUME Dead(q)
      PROVE  Dead(g)
  <2>1. Dead(r)
    BY <1>2, <1>7, DeadThen
  <2> QED BY <1>4, <2>1, DeadThen
<1>8. \/ \E t \in Texts : /\ Ahead(w, a, Block(Str32, t))
                          /\ Finds(d, q, a + 2 + Len(t), c, t)
      \/ Dead(q)
  BY <1>1, MetadataFinds
<1> QED BY <1>5, <1>6, <1>7, <1>8

LEMMA DeadNumbers ==
  ASSUME NEW d, Dead(d), NEW m
  PROVE  Dead(Number(d, m))
<1>1. PICK r : r = Read(d, 1)
  OBVIOUS
<1>2. Dead(r)
  BY <1>1, DeadReads
<1>3. PICK e : e = Expect(d, m)
  OBVIOUS
<1>4. e = IF r.ok THEN Check(r, r.got = <<m>>) ELSE r
  BY <1>1, <1>3 DEF Expect, Then
<1>5. Dead(e)
  BY <1>2, <1>4, DeadThen
<1>6. PICK s : s = Read(e, 1)
  OBVIOUS
<1>7. Dead(s)
  BY <1>5, <1>6, DeadReads
<1>8. PICK x : x = [s EXCEPT !.got = @[1]]
  OBVIOUS
<1>9. Number(d, m) = IF s.ok THEN x ELSE s
  BY <1>3, <1>6, <1>8 DEF Number, Then
<1> QED BY <1>7, <1>9, DeadThen

\* A number stands behind its marker, or the decoder gives up.
NumberAt(e, w, a, c, m) ==
  \/ Dead(e)
  \/ \E x \in Int : /\ a + 2 <= Len(w) /\ w[a + 1] = m /\ w[a + 2] = x
                    /\ Stands(e, w, a + 2, c) /\ e.got = x /\ e.ok

LEMMA NumberEither ==
  ASSUME NEW w \in Seq(Int), NEW a \in Nat, NEW c \in Nat, NEW d, Stands(d, w, a, c),
         NEW m \in Int, NEW e, e = Number(d, m)
  PROVE  NumberAt(e, w, a, c, m)
<1>1. CASE a + 2 <= Len(w) /\ w[a + 1] = m
  <2>1. PICK x \in Int : x = w[a + 2]
    <3>1. a + 2 \in 1..Len(w)
      BY <1>1
    <3> QED BY <3>1
  <2>2. Finds(d, e, a + 2, c, x)
    BY <1>1, <2>1, NumberFinds DEF Stands
  <2>3. Stands(e, w, a + 2, c)
    BY <2>2, FindsStands
  <2>4. e.ok /\ e.got = x
    BY <2>2, FindsGot
  <2> QED BY <1>1, <2>1, <2>3, <2>4 DEF NumberAt
<1>2. CASE ~(a + 2 <= Len(w) /\ w[a + 1] = m)
  BY <1>2, NumberFinds DEF Stands, NumberAt
<1> QED BY <1>1, <1>2

LEMMA HandleFound ==
  ASSUME NEW w \in Seq(Int), NEW a \in Nat, NEW c \in Nat, NEW d, Stands(d, w, a, c),
         NEW g, g = GetKind(d, 8)
  PROVE  Dead(g) \/ Found(d, g, 8, w, a, c)
<1>1. PICK y : y = Expect(d, Triple)
  OBVIOUS
<1>2. PICK e : e = Number(y, Uint64)
  OBVIOUS
<1>3. PICK f : f = Number(e, Uint64)
  OBVIOUS
<1>4. PICK q : q = Metadata(f)
  OBVIOUS
<1>5. PICK r : r = Check(q, IsHandle(e.got, f.got, q.got))
  OBVIOUS
<1>6. PICK z : z = [r EXCEPT !.got = Reading(
           [kind |-> "handle", id |-> e.got, generation |-> f.got, name |-> r.got], 0)]
  OBVIOUS
<1>7. g = IF e.ok THEN (IF f.ok THEN (IF q.ok THEN (IF r.ok THEN z ELSE r) ELSE q) ELSE f) ELSE e
  <2>1. GetKind(d, 8) = GetHandle(d)
    BY DEF GetKind, Tags, Leaf, Then
  <2>2. GetHandle(d) =
          IF e.ok THEN (IF f.ok THEN (IF q.ok THEN (IF r.ok THEN z ELSE r) ELSE q) ELSE f) ELSE e
    BY <1>1, <1>2, <1>3, <1>4, <1>5, <1>6 DEF GetHandle, Leaf, Then
  <2> QED BY <2>1, <2>2
<1>8. Triple \in Int /\ Uint64 \in Int /\ Str32 \in Int
  BY DEF Triple, Uint64, Str32
<1>9. PICK a1 \in Nat, a3 \in Nat, a5 \in Nat : a1 = a + 1 /\ a3 = a1 + 2 /\ a5 = a3 + 2
  OBVIOUS
<1>10. \/ Dead(e)
       \/ /\ a1 <= Len(w) /\ w[a1] = Triple
          /\ \E i \in Int : /\ a3 <= Len(w) /\ w[a1 + 1] = Uint64 /\ w[a1 + 2] = i
                            /\ Stands(e, w, a3, c) /\ e.got = i /\ e.ok
  <2>1. CASE a + 1 <= Len(w) /\ w[a + 1] = Triple
    <3>1. Finds(d, y, a1, c, <<Triple>>)
      BY <1>1, <1>8, <1>9, <2>1, ExpectFinds DEF Stands
    <3>2. Stands(y, w, a1, c)
      BY <3>1, FindsStands
    <3>3. NumberAt(e, w, a1, c, Uint64)
      BY <1>2, <1>8, <3>2, NumberEither
    <3> QED BY <1>9, <2>1, <3>3 DEF NumberAt
  <2>2. CASE ~(a + 1 <= Len(w) /\ w[a + 1] = Triple)
    <3>1. Dead(y)
      BY <1>1, <1>8, <2>2, ExpectFinds DEF Stands
    <3> QED BY <1>2, <3>1, DeadNumbers
  <2> QED BY <2>1, <2>2
<1>11. CASE Dead(e)
  <2>1. ~e.ok
    BY <1>11 DEF Dead
  <2> QED BY <1>7, <1>11, <2>1
<1>12. ASSUME NEW i \in Int, a1 <= Len(w), w[a1] = Triple,
              a3 <= Len(w), w[a1 + 1] = Uint64, w[a1 + 2] = i,
              Stands(e, w, a3, c), e.got = i, e.ok
       PROVE  Dead(g) \/ Found(d, g, 8, w, a, c)
  <2>1. \/ Dead(f)
        \/ \E j \in Int : /\ a5 <= Len(w) /\ w[a3 + 1] = Uint64 /\ w[a3 + 2] = j
                          /\ Stands(f, w, a5, c) /\ f.got = j /\ f.ok
    <3>1. NumberAt(f, w, a3, c, Uint64)
      BY <1>3, <1>8, <1>12, NumberEither
    <3> QED BY <1>9, <3>1 DEF NumberAt
  <2>2. CASE Dead(f)
    <3>1. ~f.ok
      BY <2>2 DEF Dead
    <3> QED BY <1>7, <1>12, <2>2, <3>1
  <2>3. ASSUME NEW j \in Int, a5 <= Len(w), w[a3 + 1] = Uint64, w[a3 + 2] = j,
               Stands(f, w, a5, c), f.got = j, f.ok
        PROVE  Dead(g) \/ Found(d, g, 8, w, a, c)
    <3>1. \/ \E t \in Texts : /\ Ahead(w, a5, Block(Str32, t))
                              /\ Finds(f, q, a5 + 2 + Len(t), c, t)
          \/ Dead(q)
      BY <1>4, <2>3, MetadataFinds
    <3>2. CASE Dead(q)
      <4>1. ~q.ok
        BY <3>2 DEF Dead
      <4> QED BY <1>7, <1>12, <2>3, <3>2, <4>1
    <3>3. ASSUME NEW t \in Texts, Ahead(w, a5, Block(Str32, t)),
                 NEW b, Finds(f, q, b, c, t)
          PROVE  Dead(g) \/ Found(d, g, 8, w, a, c)
      <4>1. q.ok /\ q.got = t /\ Runs(q)
        BY <3>3, FindsGot
      <4>2. CASE ~IsHandle(i, j, t)
        <5>1. r = Fail(q)
          BY <1>5, <1>12, <2>3, <4>1, <4>2 DEF Check
        <5>2. Dead(r)
          BY <4>1, <5>1, Dies
        <5>3. ~r.ok
          BY <5>2 DEF Dead
        <5> QED BY <1>7, <1>12, <2>3, <4>1, <5>2, <5>3
      <4>3. CASE IsHandle(i, j, t)
        <5>1. i \in Nat /\ j \in Nat
          <6>1. MaxId \in Nat
            BY LimitsAssumption
          <6> QED BY <4>3, <6>1 DEF IsHandle
        <5>2. PICK h : h = [kind |-> "handle", id |-> i, generation |-> j, name |-> t]
          OBVIOUS
        <5>3. PICK l : l = <<Triple, Uint64, i, Uint64, j>>
          OBVIOUS
        <5>4. /\ l \in Seq(Int) /\ Len(l) = 5 /\ l[1] = Triple /\ l[2] = Uint64 /\ l[3] = i
              /\ l[4] = Uint64 /\ l[5] = j
          BY <1>8, <5>3
        <5>5. PICK u : u = Block(Str32, t)
          OBVIOUS
        <5>6. Body(h, 0) = l \o u /\ h \in Scalars /\ Fine(h, 0, c) /\ Tags[h.kind] = 8
          BY <4>3, <5>1, <5>2, <5>3, <5>5 DEF Body, Scalars, Fine, Tags
        <5>7. Ahead(w, a, l)
          <6>1. /\ w[a + 1] = l[1] /\ w[a + 2] = l[2] /\ w[a + 3] = l[3]
                /\ w[a + 4] = l[4] /\ w[a + 5] = l[5] /\ a + 5 <= Len(w)
            BY <1>9, <1>12, <2>3, <5>4
          <6>2. \A k \in 1..Len(l) : k = 1 \/ k = 2 \/ k = 3 \/ k = 4 \/ k = 5
            BY <5>4
          <6> QED BY <5>4, <6>1, <6>2 DEF Ahead
        <5>8. u \in Seq(Int)
          BY <1>8, <5>5, BlockIs DEF Texts
        <5>9. Ahead(w, a + Len(l), u)
          <6>1. a + Len(l) = a5
            BY <1>9, <5>4
          <6> QED BY <3>3, <5>5, <6>1
        <5>10. Ahead(w, a, Body(h, 0))
          BY <5>4, <5>6, <5>7, <5>8, <5>9, AheadOfBoth
        <5>11. GetKind(d, 8) = g
          OBVIOUS
        <5>12. Taken(d, GetKind(d, 8), h, 0, a, c)
          BY <4>3, <5>1, <5>2, <5>10, HandleTaken
        <5> QED BY <5>6, <5>10, <5>11, <5>12 DEF Found, IsHead
      <4> QED BY <4>2, <4>3
    <3> QED BY <3>1, <3>2, <3>3
  <2> QED BY <2>1, <2>2, <2>3
<1> QED BY <1>10, <1>11, <1>12

\* Under every tag, and under none else.
LEMMA KindFound ==
  ASSUME NEW w \in Seq(Int), NEW a \in Nat, NEW c \in Nat, NEW d, Stands(d, w, a, c),
         NEW tag \in Int, NEW g, g = GetKind(d, tag)
  PROVE  Dead(g) \/ Found(d, g, tag, w, a, c)
<1>1. CASE tag = 6
  <2>1. GetKind(d, 6) = GetNode(d, "array") /\ Tags["array"] = 6
    BY DEF GetKind, Tags, Leaf, Then
  <2>2. g = GetNode(d, "array") /\ tag = Tags["array"] /\ "array" \in {"array", "map"}
    BY <1>1, <2>1
  <2> QED BY <2>2, NodeFound
<1>2. CASE tag = 7
  <2>1. GetKind(d, 7) = GetNode(d, "map") /\ Tags["map"] = 7
    BY DEF GetKind, Tags, Leaf, Then
  <2>2. g = GetNode(d, "map") /\ tag = Tags["map"] /\ "map" \in {"array", "map"}
    BY <1>2, <2>1
  <2> QED BY <2>2, NodeFound
<1>3. CASE ~(tag \in 0..9)
  <2>1. tag # 0 /\ tag # 1 /\ tag # 2 /\ tag # 3 /\ tag # 4
        /\ tag # 5 /\ tag # 6 /\ tag # 7 /\ tag # 8 /\ tag # 9
    BY <1>3
  <2>2. g = Fail(d)
    BY <2>1 DEF GetKind, Tags, Leaf, Then
  <2> QED BY <2>2, Dies DEF Stands
<1>4. CASE tag = 0
  BY <1>4, NullFound
<1>5. CASE tag = 1
  BY <1>5, BoolFound
<1>6. CASE tag = 2
  BY <1>6, IntegerFound
<1>7. CASE tag = 3
  BY <1>7, FloatFound
<1>8. CASE tag = 4
  BY <1>8, StringFound
<1>9. CASE tag = 5
  BY <1>9, BytesFound
<1>10. CASE tag = 8
  BY <1>10, HandleFound
<1>11. CASE tag = 9
  BY <1>11, ErrorFound
<1>12. tag \in 0..9 => tag \in {0, 1, 2, 3, 4, 5, 6, 7, 8, 9}
  OBVIOUS
<1> QED BY <1>1, <1>2, <1>3, <1>4, <1>5, <1>6, <1>7, <1>8, <1>9, <1>10, <1>11, <1>12

\* The key that stands on the wire behind a and c, for the next part of f; b and
\* k are where it ends.
KeyAt(f, key, w, a, c, b, k) ==
  \/ f.head.kind # "map" /\ key = <<>> /\ b = a /\ k = c
  \/ /\ f.head.kind = "map" /\ key \in Texts
     /\ Ahead(w, a, <<Pair>>) /\ Ahead(w, a + 1, Block(Str32, key))
     /\ Allowed(c, Len(key), MaxString)
     /\ \A i \in 1..Len(f.keys) : f.keys[i] # key
     /\ b = a + 1 + 2 + Len(key) /\ k = c + Len(key)

LEMMA KeyFound ==
  ASSUME NEW w \in Seq(Int), NEW a \in Nat, NEW c \in Nat, NEW d, Stands(d, w, a, c),
         NEW f, f = Top(d), NEW e, e = GetKey(d)
  PROVE  \/ Dead(e)
         \/ \E key \in Texts, b \in Nat, k \in Nat :
              KeyAt(f, key, w, a, c, b, k) /\ Finds(d, e, b, k, key)
<1>1. CASE f.head.kind # "map"
  <2>1. Finds(d, e, a, c, <<>>)
    BY <1>1, NoKeyRead
  <2>2. <<>> \in Texts
    BY DEF Texts
  <2>3. KeyAt(f, <<>>, w, a, c, a, c)
    BY <1>1 DEF KeyAt
  <2> QED BY <2>1, <2>2, <2>3
<1>2. CASE f.head.kind = "map"
  <2>1. PICK x : x = Expect(d, Pair)
    OBVIOUS
  <2>2. PICK s : s = GetString(x)
    OBVIOUS
  <2>3. PICK fresh : fresh = \A i \in 1..Len(f.keys) : f.keys[i] # s.got
    OBVIOUS
  <2>4. e = IF s.ok THEN Check(s, fresh) ELSE s
    BY <1>2, <2>1, <2>2, <2>3 DEF GetKey, Then
  <2>5. Pair \in Int
    BY DEF Pair
  <2>6. PICK b \in Nat : b = a + 1
    OBVIOUS
  <2>7. CASE ~(a + 1 <= Len(w) /\ w[a + 1] = Pair)
    <3>1. Dead(x)
      BY <2>1, <2>5, <2>7, ExpectFinds DEF Stands
    <3>2. Dead(s)
      <4>1. PICK y : y = Length(x, Str32)
        OBVIOUS
      <4>2. PICK z : z = Number(x, Str32)
        OBVIOUS
      <4>3. Dead(z)
        BY <3>1, <4>2, DeadNumbers
      <4>4. y = IF z.ok THEN Check(z, z.got \in Nat) ELSE z
        BY <4>1, <4>2 DEF Length, Then
      <4>5. Dead(y)
        BY <4>3, <4>4, DeadThen
      <4>6. ~y.ok
        BY <4>5 DEF Dead
      <4>7. s = y
        BY <2>2, <4>1, <4>6 DEF GetString, Then
      <4> QED BY <4>5, <4>7
    <3> QED BY <2>4, <3>2, DeadThen
  <2>8. CASE a + 1 <= Len(w) /\ w[a + 1] = Pair
    <3>1. Finds(d, x, b, c, <<Pair>>)
      BY <2>1, <2>5, <2>6, <2>8, ExpectFinds DEF Stands
    <3>2. Stands(x, w, b, c)
      BY <3>1, FindsStands
    <3>3. Ahead(w, a, <<Pair>>)
      BY <2>5, <2>8, OneAhead
    <3>4. \/ \E t \in Texts : /\ Ahead(w, b, Block(Str32, t)) /\ Allowed(c, Len(t), MaxString)
                              /\ Finds(x, s, b + 2 + Len(t), c + Len(t), t)
          \/ Dead(s)
      BY <2>2, <3>2, StringFinds
    <3>5. Dead(s) => Dead(e)
      BY <2>4, DeadThen
    <3>6. ASSUME NEW t \in Texts, Ahead(w, b, Block(Str32, t)), Allowed(c, Len(t), MaxString),
                 Finds(x, s, b + 2 + Len(t), c + Len(t), t)
          PROVE  \/ Dead(e)
                 \/ \E key \in Texts, l \in Nat, k \in Nat :
                      KeyAt(f, key, w, a, c, l, k) /\ Finds(d, e, l, k, key)
      <4>1. s.ok /\ s.got = t /\ Runs(s)
        BY <3>6, FindsGot
      <4>2. CASE fresh
        <5>1. e = s
          BY <2>4, <4>1, <4>2 DEF Check
        <5>2. PICK l \in Nat, k \in Nat : l = b + 2 + Len(t) /\ k = c + Len(t)
          <6>1. Len(t) \in Nat
            BY TextIs
          <6> QED BY <6>1
        <5>3. Finds(d, e, l, k, t)
          BY <3>1, <3>6, <5>1, <5>2, FindsTwice
        <5>4. \A i \in 1..Len(f.keys) : f.keys[i] # t
          BY <2>3, <4>1, <4>2
        <5>5. l = a + 1 + 2 + Len(t)
          BY <2>6, <5>2
        <5>6. KeyAt(f, t, w, a, c, l, k)
          BY <1>2, <2>6, <3>3, <3>6, <5>2, <5>4, <5>5 DEF KeyAt
        <5> QED BY <5>3, <5>6
      <4>3. CASE ~fresh
        <5>1. e = Fail(s)
          BY <2>4, <4>1, <4>3 DEF Check
        <5> QED BY <4>1, <5>1, Dies
      <4> QED BY <4>2, <4>3
    <3> QED BY <3>4, <3>5, <3>6
  <2> QED BY <2>7, <2>8
<1> QED BY <1>1, <1>2

\* A value, up to the values inside, that stands on the wire behind b and k.
HeadAt(h, m, w, b, k) ==
  /\ IsHead(h, m) /\ Ahead(w, b, <<Pair, Tags[h.kind]>>)
  /\ Ahead(w, b + 2, Body(h, m)) /\ Fine(h, m, k)

LEMMA HeadTags ==
  ASSUME NEW h, NEW n, IsHead(h, n)
  PROVE  Tags[h.kind] \in Int /\ n \in Nat
<1>1. CASE n \in Nat /\ h \in {[kind |-> "array"], [kind |-> "map"]}
  BY <1>1 DEF Tags
<1>2. CASE h \in Scalars /\ n = 0
  <2>1. h.kind \in {"null", "bool", "integer", "float", "string", "bytes", "handle", "error"}
    BY <1>2, ScalarShapes
  <2> QED BY <1>2, <2>1 DEF Tags
<1> QED BY <1>1, <1>2 DEF IsHead

\* A value has begun.
Gets(d, g, depth, w, a, c) ==
  /\ ~TooDeep(depth) /\ d.values < MaxValues
  /\ g.values = d.values + 1 /\ g.stack = d.stack
  /\ \E h, n : HeadAt(h, n, w, a, c) /\ g.got = Reading(h, n)
  /\ Runs(g) /\ g.in = w

LEMMA GetFound ==
  ASSUME NEW w \in Seq(Int), NEW a \in Nat, NEW c \in Nat, NEW d, Stands(d, w, a, c),
         NEW depth, NEW g, g = Get(d, depth)
  PROVE  Dead(g) \/ Gets(d, g, depth, w, a, c)
<1>1. d.values \in Nat /\ MaxValues \in Nat
  BY LimitsAssumption DEF Stands, Runs
<1>2. CASE TooDeep(depth) \/ d.values >= MaxValues
  <2>1. g = Fail(d)
    BY <1>2 DEF Get
  <2> QED BY <2>1, Dies DEF Stands
<1>3. CASE ~TooDeep(depth) /\ ~(d.values >= MaxValues)
  <2>1. PICK j \in Nat : j = d.values + 1
    BY <1>1, OneMore
  <2>2. PICK f : f = [d EXCEPT !.values = j]
    OBVIOUS
  <2>3. Stands(f, w, a, c) /\ f.values = j /\ f.stack = d.stack
    BY <2>1, <2>2 DEF Stands, Runs, IsDecoder
  <2>4. PICK x : x = Expect(f, Pair)
    OBVIOUS
  <2>5. PICK e : e = Read(x, 1)
    OBVIOUS
  <2>6. g = IF e.ok THEN GetKind(e, e.got[1]) ELSE e
    BY <1>3, <2>1, <2>2, <2>4, <2>5 DEF Get, Then
  <2>7. Pair \in Int
    BY DEF Pair
  <2>8. CASE ~(a + 1 <= Len(w) /\ w[a + 1] = Pair)
    <3>1. Dead(x)
      BY <2>3, <2>4, <2>7, <2>8, ExpectFinds DEF Stands
    <3>2. Dead(e)
      BY <2>5, <3>1, DeadReads
    <3> QED BY <2>6, <3>2, DeadThen
  <2>9. CASE a + 1 <= Len(w) /\ w[a + 1] = Pair
    <3>1. PICK b \in Nat, l \in Nat : b = a + 1 /\ l = b + 1 /\ l = a + 2
      OBVIOUS
    <3>2. Finds(f, x, b, c, <<Pair>>)
      BY <2>3, <2>4, <2>7, <2>9, <3>1, ExpectFinds DEF Stands
    <3>3. Stands(x, w, b, c)
      BY <2>3, <3>2, FindsStands
    <3>4. CASE ~(l <= Len(w))
      <4>1. Dead(e)
        BY <2>5, <3>1, <3>3, <3>4, ReadFinds DEF Stands
      <4> QED BY <2>6, <4>1, DeadThen
    <3>5. CASE l <= Len(w)
      <4>1. Finds(x, e, l, c, SubSeq(w, l, l))
        BY <2>5, <3>1, <3>3, <3>5, ReadFinds DEF Stands
      <4>2. SubSeq(w, l, l) = <<w[l]>> /\ w[l] \in Int
        <5>1. l \in 1..Len(w)
          BY <3>1, <3>5
        <5> QED BY <5>1, Single
      <4>3. PICK tag \in Int : tag = w[l]
        BY <4>2
      <4>4. e.ok /\ e.got[1] = tag
        <5>1. e.ok /\ e.got = SubSeq(w, l, l)
          BY <4>1, FindsGot
        <5> QED BY <4>2, <4>3, <5>1
      <4>5. Stands(e, w, l, c)
        BY <3>3, <4>1, FindsStands
      <4>6. g = GetKind(e, tag)
        BY <2>6, <4>4
      <4>7. Dead(g) \/ Found(e, g, tag, w, l, c)
        BY <4>5, <4>6, KindFound
      <4>8. ASSUME NEW h, NEW n, IsHead(h, n), Tags[h.kind] = tag, Ahead(w, l, Body(h, n)),
                   Fine(h, n, c), Taken(e, g, h, n, l, c)
            PROVE  /\ HeadAt(h, n, w, a, c) /\ g.got = Reading(h, n)
                   /\ Runs(g) /\ g.in = w /\ g.values = d.values + 1 /\ g.stack = d.stack
        <5>1. Ahead(w, a, <<Pair, tag>>)
          BY <2>7, <2>9, <3>1, <3>5, <4>3, TwoAhead
        <5>2. HeadAt(h, n, w, a, c)
          BY <3>1, <4>8, <5>1 DEF HeadAt
        <5>3. PICK b2, k2 : Finds(e, g, b2, k2, Reading(h, n))
          BY <4>8 DEF Taken
        <5>4. Finds(f, g, b2, k2, Reading(h, n))
          BY <3>2, <4>1, <5>3, FindsTwice
        <5>5. Runs(g) /\ g.in = f.in /\ g.got = Reading(h, n) /\ g.values = f.values
              /\ g.stack = f.stack
          BY <5>4 DEF Finds
        <5>6. f.in = w
          BY <2>3 DEF Stands
        <5> QED BY <2>1, <2>3, <5>2, <5>5, <5>6
      <4>9. Dead(g) \/ \E h, n : /\ HeadAt(h, n, w, a, c) /\ g.got = Reading(h, n)
                   /\ Runs(g) /\ g.in = w /\ g.values = d.values + 1 /\ g.stack = d.stack
        BY <4>7, <4>8 DEF Found
      <4>10. d.values < MaxValues
        BY <1>1, <1>3, LessIs
      <4> QED BY <1>3, <4>9, <4>10 DEF Gets
    <3> QED BY <3>4, <3>5
  <2> QED BY <2>8, <2>9
<1> QED BY <1>2, <1>3

\* What a step of the decoder does that does not give up and ends no value.
Begins(d, g, n, w, key, b, k, h, m) ==
  /\ KeyAt(Top(d), key, w, d.at, d.content, b, k) /\ HeadAt(h, m, w, b, k)
  /\ key \in Texts /\ b \in Nat /\ k \in Nat
  /\ ~TooDeep(n - 1) /\ d.values < MaxValues
  /\ Runs(g) /\ g.in = w /\ g.values = d.values + 1
  /\ g.stack = Append([d.stack EXCEPT ![n] = Keyed(d.stack[n], key)], Reading(h, m))

LEMMA StepFound ==
  ASSUME NEW w \in Seq(Int), NEW d, Runs(d), d.in = w, NEW n, n = Len(d.stack), n # 0,
         ~(Len(Top(d).parts) = Top(d).need), NEW g, g = DecodeStep(d)
  PROVE  Dead(g) \/ \E key, b, k, h, m : Begins(d, g, n, w, key, b, k, h, m)
<1>1. PICK a \in Nat, c \in Nat : a = d.at /\ c = d.content
  BY DEF Runs
<1>2. Stands(d, w, a, c) /\ d.ok
  BY <1>1 DEF Stands, Runs
<1>3. PICK e : e = GetKey(d)
  OBVIOUS
<1>4. PICK r : r = Get(e, n - 1)
  OBVIOUS
<1>5. PICK x : x = WithStack(r, Append(WithKey(r.stack, n, e.got), r.got))
  OBVIOUS
<1>6. g = IF e.ok THEN (IF r.ok THEN x ELSE r) ELSE e
  BY <1>2, <1>3, <1>4, <1>5 DEF DecodeStep, Then, WithStack
<1>7. PICK f : f = Top(d)
  OBVIOUS
<1>8. \/ Dead(e)
      \/ \E key \in Texts, b \in Nat, k \in Nat :
           KeyAt(f, key, w, a, c, b, k) /\ Finds(d, e, b, k, key)
  BY <1>2, <1>3, <1>7, KeyFound
<1>9. Dead(e) => Dead(g)
  BY <1>6, DeadThen
<1>10. ASSUME NEW key \in Texts, NEW b \in Nat, NEW k \in Nat,
              KeyAt(f, key, w, a, c, b, k), Finds(d, e, b, k, key)
       PROVE  Dead(g) \/ \E h, m : Begins(d, g, n, w, key, b, k, h, m)
  <2>1. Stands(e, w, b, k) /\ e.ok /\ e.got = key
    BY <1>2, <1>10, FindsStands, FindsGot
  <2>2. e.values = d.values /\ e.stack = d.stack
    BY <1>10 DEF Finds
  <2>3. Dead(r) \/ Gets(e, r, n - 1, w, b, k)
    BY <1>4, <2>1, GetFound
  <2>4. Dead(r) => Dead(g)
    BY <1>6, <2>1, DeadThen
  <2>5. ASSUME ~TooDeep(n - 1), e.values < MaxValues, r.values = e.values + 1,
               r.stack = e.stack, NEW h, NEW m, HeadAt(h, m, w, b, k), r.got = Reading(h, m),
               Runs(r), r.in = w
        PROVE  Begins(d, g, n, w, key, b, k, h, m)
    <3>1. r.ok /\ Stands(r, w, r.at, r.content)
      BY <2>5 DEF Runs, Stands
    <3>2. PICK R : R = Append(WithKey(d.stack, n, key), r.got)
      OBVIOUS
    <3>3. x = WithStack(r, R)
      BY <1>5, <2>1, <2>2, <2>5, <3>2
    <3>4. g = WithStack(r, R)
      BY <1>6, <2>1, <3>1, <3>3
    <3>5. Stands(g, w, r.at, r.content) /\ g.values = r.values /\ g.stack = R
      BY <3>1, <3>4, StillStands
    <3>6. R = Append([d.stack EXCEPT ![n] = Keyed(d.stack[n], key)], Reading(h, m))
      BY <2>5, <3>2 DEF WithKey, Keyed
    <3>7. Runs(g) /\ g.in = w
      BY <3>5 DEF Stands
    <3>8. g.stack = Append([d.stack EXCEPT ![n] = Keyed(d.stack[n], key)], Reading(h, m))
      BY <3>5, <3>6
    <3> QED BY <1>1, <1>7, <1>10, <2>2, <2>5, <3>5, <3>7, <3>8 DEF Begins
  <2> QED BY <2>3, <2>4, <2>5 DEF Gets
<1> QED BY <1>8, <1>9, <1>10

-----------------------------------------------------------------------------
\* The decoder on its way: what it is inside of.

\* As many keys as parts, or one more, and as many as there are to be.
Proper(r, m) ==
  /\ Len(r.keys) = Len(r.parts) + m /\ Len(r.parts) + m <= r.need
  /\ r.head.kind \notin {"array", "map"} => r.need = 0
  /\ r.head.kind # "map" => \A i \in 1..Len(r.keys) : r.keys[i] = <<>>

\* A part of every value but the last is being read.
Tower(T, U) ==
  /\ T \in Seq(Readings(U))
  /\ \A j \in 1..(Len(T) - 1) : Proper(T[j], 1)
  /\ Len(T) > 0 => /\ Proper(T[Len(T)], 0)
                   /\ T[1].head = [kind |-> "array"] /\ T[1].need = 1

LEMMA NodesOf ==
  ASSUME NEW U, NEW W, U \subseteq W
  PROVE  Nodes(U) \subseteq Nodes(W)
<1>1. Seq(U) \subseteq Seq(W)
  OBVIOUS
<1>2. Fields(U) \subseteq Fields(W)
  BY DEF Fields
<1>3. Seq(Fields(U)) \subseteq Seq(Fields(W))
  <2> DEFINE E == Fields(U)
             F == Fields(W)
  <2>1. E \subseteq F
    BY <1>2
  <2> HIDE DEF E, F
  <2>2. Seq(E) \subseteq Seq(F)
    BY <2>1
  <2> QED BY <2>2 DEF E, F
<1>4. [kind : {"array"}, items : Seq(U)] \subseteq [kind : {"array"}, items : Seq(W)]
  BY <1>1
<1>5. [kind : {"map"}, entries : Seq(Fields(U))]
        \subseteq [kind : {"map"}, entries : Seq(Fields(W))]
  BY <1>3
<1> QED BY <1>4, <1>5 DEF Nodes, Fields

LEMMA ReadingIs ==
  ASSUME NEW U, NEW r \in Readings(U)
  PROVE  /\ r.need \in Nat /\ r.keys \in Seq(Texts) /\ r.parts \in Seq(U)
         /\ Len(r.keys) \in Nat /\ Len(r.parts) \in Nat
         /\ r = [head |-> r.head, need |-> r.need, keys |-> r.keys, parts |-> r.parts]
         /\ \E v \in Nodes(U) : r.head = HeadOf(v)
  BY DEF Readings

LEMMA ReadingsOf ==
  ASSUME NEW U, NEW W, U \subseteq W
  PROVE  Readings(U) \subseteq Readings(W)
<1>1. SUFFICES ASSUME NEW r \in Readings(U) PROVE r \in Readings(W)
  OBVIOUS
<1>2. r.parts \in Seq(W)
  BY <1>1, ReadingIs
<1>3. PICK v \in Nodes(W) : r.head = HeadOf(v)
  BY <1>1, NodesOf, ReadingIs
<1> QED BY <1>1, <1>2, <1>3, ReadingIs DEF Readings

LEMMA TowerOf ==
  ASSUME NEW U, NEW W, U \subseteq W, NEW T, Tower(T, U)
  PROVE  Tower(T, W)
<1>1. Readings(U) \subseteq Readings(W)
  BY ReadingsOf
<1>2. T \in Seq(Readings(W))
  <2> DEFINE E == Readings(U)
             F == Readings(W)
  <2>1. E \subseteq F /\ T \in Seq(E)
    BY <1>1 DEF Tower
  <2> HIDE DEF E, F
  <2>2. T \in Seq(F)
    BY <2>1
  <2> QED BY <2>2 DEF F
<1> QED BY <1>2 DEF Tower

\* What has been read in full is a value, and the frame is what was read of it.
LEMMA ReadInFull ==
  ASSUME NEW U, NEW r \in Readings(U), Proper(r, 0), NEW n, n = r.need, Len(r.parts) = n,
         NEW b, b = Built(r)
  PROVE  /\ b \in Nodes(U) /\ HeadOf(b) = r.head /\ Len(Parts(b)) = n
         /\ KeysTo(b, n) = r.keys /\ PartsTo(b, n) = r.parts
<1>1. /\ n \in Nat /\ r.keys \in Seq(Texts) /\ r.parts \in Seq(U) /\ Len(r.keys) = n
      /\ r.head.kind \notin {"array", "map"} => n = 0
      /\ r.head.kind # "map" => \A i \in 1..n : r.keys[i] = <<>>
  BY ReadingIs DEF Proper
<1>2. PICK s, p : s = r.keys /\ p = r.parts
  OBVIOUS
<1>3. s = [i \in 1..n |-> s[i]] /\ p = [i \in 1..n |-> p[i]]
  BY <1>1, <1>2
<1>4. PICK v \in Nodes(U) : r.head = HeadOf(v)
  BY ReadingIs
<1>5. CASE v \in Scalars
  <2>1. r.head = v /\ v.kind \notin {"array", "map"}
    BY <1>4, <1>5, ScalarShapes DEF HeadOf
  <2>2. b = v /\ n = 0
    BY <1>1, <2>1 DEF Built
  <2>3. Parts(b) = <<>> /\ HeadOf(b) = v /\ b \in Nodes(U)
    BY <2>1, <2>2 DEF Parts, HeadOf
  <2>4. s = <<>> /\ p = <<>>
    BY <1>1, <1>2, <2>2
  <2>5. KeysTo(b, 0) = <<>> /\ PartsTo(b, 0) = <<>>
    BY DEF KeysTo, PartsTo
  <2> QED BY <1>2, <2>1, <2>2, <2>3, <2>4, <2>5
<1>6. CASE r.head = [kind |-> "array"]
  <2>1. b = [kind |-> "array", items |-> p]
    BY <1>2, <1>6 DEF Built, Array
  <2>2. b \in Nodes(U)
    BY <1>1, <1>2, <2>1 DEF Nodes
  <2>3. Parts(b) = p /\ HeadOf(b) = r.head
    BY <1>6, <2>1 DEF Parts, HeadOf
  <2>4. \A i : Part(b, i) = p[i] /\ KeyOf(b, i) = <<>>
    BY <2>1 DEF Part, KeyOf
  <2>5. PartsTo(b, n) = [i \in 1..n |-> p[i]]
    BY <2>4 DEF PartsTo
  <2>6. \A i \in 1..n : KeyOf(b, i) = s[i]
    BY <1>1, <1>2, <1>6, <2>4
  <2>7. KeysTo(b, n) = [i \in 1..n |-> s[i]]
    BY <2>6 DEF KeysTo
  <2> QED BY <1>2, <1>3, <2>2, <2>3, <2>5, <2>7
<1>7. CASE r.head = [kind |-> "map"]
  <2>1. PICK t : t = [i \in 1..n |-> [key |-> s[i], val |-> p[i]]]
    OBVIOUS
  <2>2. b = [kind |-> "map", entries |-> t]
    BY <1>2, <1>7, <2>1 DEF Built
  <2>3. t \in Seq([key : Texts, val : U]) /\ Len(t) = n
    <3>1. \A i \in 1..n : s[i] \in Texts /\ p[i] \in U
      BY <1>1, <1>2
    <3>2. PICK F : F = [key : Texts, val : U]
      OBVIOUS
    <3>3. t \in [1..n -> F]
      BY <2>1, <3>1, <3>2
    <3>4. n \in Nat
      BY <1>1
    <3>5. t \in Seq(F) /\ Len(t) = n
      BY <3>3, <3>4
    <3> QED BY <3>2, <3>5
  <2>4. b \in Nodes(U)
    BY <2>2, <2>3 DEF Nodes
  <2>5. Parts(b) = t /\ HeadOf(b) = r.head
    BY <1>7, <2>2 DEF Parts, HeadOf
  <2>6. \A i \in 1..n : Part(b, i) = p[i] /\ KeyOf(b, i) = s[i]
    BY <2>1, <2>2 DEF Part, KeyOf
  <2>7. PartsTo(b, n) = [i \in 1..n |-> p[i]]
    BY <2>6 DEF PartsTo
  <2>8. KeysTo(b, n) = [i \in 1..n |-> s[i]]
    BY <2>6 DEF KeysTo
  <2> QED BY <1>2, <1>3, <2>3, <2>4, <2>5, <2>7, <2>8
<1>8. v \in Scalars \/ r.head = [kind |-> "array"] \/ r.head = [kind |-> "map"]
  <2>1. v \in Scalars \/ v.kind = "array" \/ v.kind = "map"
    <3>1. PICK A, M : A = Seq(U) /\ M = Seq([key : Texts, val : U])
      OBVIOUS
    <3>2. v \in Scalars \cup [kind : {"array"}, items : A] \cup [kind : {"map"}, entries : M]
      BY <3>1 DEF Nodes
    <3> QED BY <3>2
  <2> QED BY <1>4, <2>1 DEF HeadOf
<1> QED BY <1>5, <1>6, <1>7, <1>8

LEMMA KeyedIs ==
  ASSUME NEW U, NEW r \in Readings(U), NEW key \in Texts, NEW s, s = Keyed(r, key)
  PROVE  /\ s \in Readings(U) /\ s.head = r.head /\ s.need = r.need /\ s.parts = r.parts
         /\ s.keys = Append(r.keys, key) /\ Len(s.keys) = Len(r.keys) + 1
         /\ s.keys[Len(r.keys) + 1] = key
         /\ \A i \in 1..Len(r.keys) : s.keys[i] = r.keys[i]
<1>1. PICK k : k = Append(r.keys, key)
  OBVIOUS
<1>2. /\ k \in Seq(Texts) /\ Len(k) = Len(r.keys) + 1 /\ k[Len(r.keys) + 1] = key
      /\ \A i \in 1..Len(r.keys) : k[i] = r.keys[i]
  BY <1>1, ReadingIs
<1>3. s = [head |-> r.head, need |-> r.need, keys |-> k, parts |-> r.parts]
  <2>1. s = [r EXCEPT !.keys = k]
    BY <1>1 DEF Keyed
  <2>2. r = [head |-> r.head, need |-> r.need, keys |-> r.keys, parts |-> r.parts]
    BY ReadingIs
  <2> QED BY <2>1, <2>2
<1>4. s.head = r.head /\ s.need = r.need /\ s.parts = r.parts /\ s.keys = k
  BY <1>3
<1>5. s \in Readings(U)
  BY <1>2, <1>3 DEF Readings
<1> QED BY <1>1, <1>2, <1>4, <1>5

Parted(r, v) == [r EXCEPT !.parts = Append(@, v)]

LEMMA PartedIs ==
  ASSUME NEW U, NEW r \in Readings(U), NEW v \in U, NEW s, s = Parted(r, v)
  PROVE  /\ s \in Readings(U) /\ s.head = r.head /\ s.need = r.need /\ s.keys = r.keys
         /\ s.parts = Append(r.parts, v) /\ Len(s.parts) = Len(r.parts) + 1
         /\ s.parts[Len(r.parts) + 1] = v
         /\ \A i \in 1..Len(r.parts) : s.parts[i] = r.parts[i]
<1>1. PICK k : k = Append(r.parts, v)
  OBVIOUS
<1>2. /\ k \in Seq(U) /\ Len(k) = Len(r.parts) + 1 /\ k[Len(r.parts) + 1] = v
      /\ \A i \in 1..Len(r.parts) : k[i] = r.parts[i]
  BY <1>1, ReadingIs
<1>3. s = [head |-> r.head, need |-> r.need, keys |-> r.keys, parts |-> k]
  <2>1. s = [r EXCEPT !.parts = k]
    BY <1>1 DEF Parted
  <2>2. r = [head |-> r.head, need |-> r.need, keys |-> r.keys, parts |-> r.parts]
    BY ReadingIs
  <2> QED BY <2>1, <2>2
<1>4. s.head = r.head /\ s.need = r.need /\ s.keys = r.keys /\ s.parts = k
  BY <1>3
<1>5. s \in Readings(U)
  BY <1>2, <1>3 DEF Readings
<1> QED BY <1>1, <1>2, <1>4, <1>5

LEMMA FirstReading ==
  ASSUME NEW U, NEW h, NEW n, IsHead(h, n), NEW r, r = Reading(h, n)
  PROVE  r \in Readings(U) /\ Proper(r, 0) /\ r.head = h /\ r.need = n
<1>1. n \in Nat
  BY HeadTags
<1>2. \E v \in Nodes(U) : h = HeadOf(v)
  <2>1. CASE h \in Scalars
    <3>1. h \in Nodes(U) /\ HeadOf(h) = h
      BY <2>1, ScalarShapes DEF Nodes, HeadOf
    <3> QED BY <3>1
  <2>2. CASE h = [kind |-> "array"]
    <3>1. PICK v : v = [kind |-> "array", items |-> <<>>]
      OBVIOUS
    <3>2. <<>> \in Seq(U)
      OBVIOUS
    <3>3. v \in Nodes(U) /\ HeadOf(v) = h
      BY <2>2, <3>1, <3>2 DEF Nodes, HeadOf
    <3> QED BY <3>3
  <2>3. CASE h = [kind |-> "map"]
    <3>1. PICK v : v = [kind |-> "map", entries |-> <<>>]
      OBVIOUS
    <3>2. <<>> \in Seq([key : Texts, val : U])
      OBVIOUS
    <3>3. v \in Nodes(U) /\ HeadOf(v) = h
      BY <2>3, <3>1, <3>2 DEF Nodes, HeadOf
    <3> QED BY <3>3
  <2> QED BY <2>1, <2>2, <2>3 DEF IsHead
<1>3. r = [head |-> h, need |-> n, keys |-> <<>>, parts |-> <<>>]
  BY DEF Reading
<1>4. h.kind \notin {"array", "map"} => n = 0
  BY DEF IsHead
<1>5. <<>> \in Seq(Texts) /\ <<>> \in Seq(U) /\ Len(<<>>) = 0
  OBVIOUS
<1>6. r \in Readings(U)
  <2>1. PICK H : H = {HeadOf(v) : v \in Nodes(U)}
    OBVIOUS
  <2>2. h \in H
    BY <1>2, <2>1
  <2>3. r \in [head : H, need : Nat, keys : Seq(Texts), parts : Seq(U)]
    BY <1>1, <1>3, <1>5, <2>2
  <2> QED BY <2>1, <2>3 DEF Readings
<1>7. Proper(r, 0)
  BY <1>1, <1>3, <1>4, <1>5 DEF Proper
<1> QED BY <1>3, <1>6, <1>7

LEMMA TowerTop ==
  ASSUME NEW U, NEW T, Tower(T, U), NEW n, n = Len(T), n # 0
  PROVE  n \in Nat /\ n > 0 /\ T[n] \in Readings(U) /\ Proper(T[n], 0)
         /\ T[1].head = [kind |-> "array"] /\ T[1].need = 1
         /\ \A j \in 1..(n - 1) : T[j] \in Readings(U) /\ Proper(T[j], 1)
<1>1. T \in Seq(Readings(U)) /\ n \in Nat /\ n > 0
  BY DEF Tower
<1>2. \A j \in 1..n : T[j] \in Readings(U)
  BY <1>1
<1> QED BY <1>1, <1>2 DEF Tower

\* The caller's array has its part.
LEMMA TowerLast ==
  ASSUME NEW U, NEW T, Tower(T, U), Len(T) = 1, NEW r, r = T[1], Len(r.parts) = r.need
  PROVE  \E x \in U : Built(r) = Array(<<x>>)
<1>1. r \in Readings(U) /\ r.head = [kind |-> "array"] /\ r.need = 1
  BY TowerTop
<1>2. PICK p \in Seq(U) : p = r.parts
  BY <1>1, ReadingIs
<1>3. Len(p) = 1
  BY <1>1, <1>2
<1>4. PICK x : x = p[1]
  OBVIOUS
<1>5. x \in U
  BY <1>2, <1>3, <1>4
<1>6. p = <<x>>
  <2>1. <<x>> \in Seq(U) /\ Len(<<x>>) = 1 /\ <<x>>[1] = x
    BY <1>5
  <2>2. \A i \in 1..1 : i = 1
    OBVIOUS
  <2> QED BY <1>2, <1>3, <1>4, <2>1, <2>2, SeqEqual
<1>7. Built(r) = Array(p)
  BY <1>1, <1>2 DEF Built
<1> QED BY <1>5, <1>6, <1>7

\* A part ends: the value at the top of T, and b is what it is.
PartEnds(T, R, m, b) == Len(T) = m + 1 /\ m # 0 /\ R = WithPart(Front(T), m, b)
EndsTower(T, R, m, b) ==
  Len(R) = m /\ R[m] = Parted(T[m], b) /\ \A i \in 1..(m - 1) : R[i] = T[i]

LEMMA TowerEnds ==
  ASSUME NEW U, NEW W, U \subseteq W, NEW T, Tower(T, U), NEW b \in W, NEW m \in Nat,
         NEW R, PartEnds(T, R, m, b)
  PROVE  Tower(R, W) /\ EndsTower(T, R, m, b) /\ T[m] \in Readings(W)
<1>1. Tower(T, W)
  BY TowerOf
<1>2. PICK n : n = m + 1
  OBVIOUS
<1>3. n \in Nat /\ n > 0 /\ m = n - 1 /\ m > 0 /\ n # 0 /\ n = Len(T)
  BY <1>2 DEF PartEnds
<1>20. T \in Seq(Readings(W)) /\ R = WithPart(Front(T), m, b)
  BY <1>1 DEF Tower, PartEnds
<1>4. PICK Q : Q = Front(T)
  OBVIOUS
<1>5. Q \in Seq(Readings(W)) /\ Len(Q) = m /\ \A i \in 1..m : Q[i] = T[i]
  BY <1>3, <1>4, <1>20, FrontIs
<1>6. PICK r : r = T[m]
  OBVIOUS
<1>7. m \in 1..(n - 1)
  BY <1>3
<1>8. r \in Readings(W) /\ Proper(r, 1)
  BY <1>1, <1>3, <1>6, <1>7, TowerTop
<1>9. PICK s : s = Parted(r, b)
  OBVIOUS
<1>10. /\ s \in Readings(W) /\ s.head = r.head /\ s.need = r.need /\ s.keys = r.keys
       /\ Len(s.parts) = Len(r.parts) + 1
  BY <1>8, <1>9, PartedIs
<1>11. R = [Q EXCEPT ![m] = s]
  <2>1. Q[m] = r /\ m \in 1..Len(Q)
    BY <1>3, <1>5, <1>6
  <2> QED BY <1>4, <1>9, <1>20, <2>1 DEF WithPart, Parted
<1>12. R \in Seq(Readings(W)) /\ Len(R) = m /\ R[m] = s /\ \A i \in 1..m : i # m => R[i] = Q[i]
  <2>1. PICK X : X = Readings(W)
    OBVIOUS
  <2>2. Q \in Seq(X) /\ m \in 1..Len(Q) /\ s \in X
    BY <1>3, <1>5, <1>10, <2>1
  <2>3. /\ R \in Seq(X) /\ Len(R) = Len(Q) /\ R[m] = s
        /\ \A i \in 1..Len(Q) : i # m => R[i] = Q[i]
    BY <1>11, <2>2, Replaced
  <2>4. Len(Q) = m
    BY <1>5
  <2> QED BY <2>1, <2>3, <2>4
<1>13. Proper(s, 0)
  <2>1. PICK p \in Nat, k \in Nat, need \in Nat :
          p = Len(r.parts) /\ k = Len(r.keys) /\ need = r.need
    BY <1>8, ReadingIs
  <2>2. k = p + 1 /\ p + 1 <= need /\ Len(s.parts) = p + 1 /\ Len(s.keys) = k /\ s.need = need
    BY <1>8, <1>10, <2>1 DEF Proper
  <2>3. Len(s.keys) = Len(s.parts) + 0 /\ Len(s.parts) + 0 <= s.need
    BY <2>2
  <2> QED BY <1>8, <1>10, <2>3 DEF Proper
<1>14. \A j \in 1..(m - 1) : R[j] = T[j]
  <2>1. \A j \in 1..(m - 1) : j \in 1..m /\ j # m
    OBVIOUS
  <2> QED BY <1>5, <1>12, <2>1
<1>15. \A j \in 1..(m - 1) : Proper(R[j], 1)
  BY <1>1, <1>3, <1>14, TowerTop
<1>16. R[1].head = [kind |-> "array"] /\ R[1].need = 1
  <2>1. T[1].head = [kind |-> "array"] /\ T[1].need = 1
    BY <1>1, <1>3, TowerTop
  <2>2. CASE m = 1
    BY <1>6, <1>10, <1>12, <2>1, <2>2
  <2>3. CASE m # 1
    <3>1. R[1] = T[1]
      BY <1>3, <1>14, <2>3
    <3> QED BY <2>1, <3>1
  <2> QED BY <2>2, <2>3
<1>17. Tower(R, W)
  <2>1. Len(R) = m
    BY <1>12
  <2> QED BY <1>12, <1>13, <1>15, <1>16, <2>1 DEF Tower
<1> QED BY <1>6, <1>8, <1>9, <1>12, <1>14, <1>17 DEF EndsTower

\* A part begins.
PartBegins(T, R, n, key, h, m) ==
  /\ n = Len(T) /\ n # 0 /\ Len(T[n].parts) # T[n].need
  /\ key \in Texts /\ (T[n].head.kind # "map" => key = <<>>) /\ IsHead(h, m)
  /\ R = Append([T EXCEPT ![n] = Keyed(T[n], key)], Reading(h, m))
BeginsTower(T, R, n, key, h, m) ==
  /\ Len(R) = n + 1 /\ R[n] = Keyed(T[n], key) /\ R[n + 1] = Reading(h, m)
  /\ \A i \in 1..(n - 1) : R[i] = T[i]

LEMMA TowerBegins ==
  ASSUME NEW U, NEW T, Tower(T, U), NEW R, NEW n, NEW key, NEW h, NEW m,
         PartBegins(T, R, n, key, h, m)
  PROVE  Tower(R, U) /\ BeginsTower(T, R, n, key, h, m) /\ n \in Nat /\ n > 0
<1>20. PICK r : r = T[n]
  OBVIOUS
<1>21. PICK s, z : s = Keyed(r, key) /\ z = Reading(h, m)
  OBVIOUS
<1>22. /\ n = Len(T) /\ n # 0 /\ Len(r.parts) # r.need /\ key \in Texts
       /\ (r.head.kind # "map" => key = <<>>) /\ IsHead(h, m)
       /\ R = Append([T EXCEPT ![n] = s], z)
  BY <1>20, <1>21 DEF PartBegins
<1>1. /\ n \in Nat /\ n > 0 /\ r \in Readings(U) /\ Proper(r, 0) /\ T \in Seq(Readings(U))
      /\ T[1].head = [kind |-> "array"] /\ T[1].need = 1
      /\ \A j \in 1..(n - 1) : Proper(T[j], 1)
  BY <1>20, <1>22, TowerTop DEF Tower
<1>2. /\ s \in Readings(U) /\ s.head = r.head /\ s.need = r.need /\ s.parts = r.parts
      /\ Len(s.keys) = Len(r.keys) + 1 /\ s.keys[Len(r.keys) + 1] = key
      /\ \A i \in 1..Len(r.keys) : s.keys[i] = r.keys[i]
  <2>1. r \in Readings(U) /\ key \in Texts /\ s = Keyed(r, key)
    BY <1>1, <1>21, <1>22
  <2> QED BY <2>1, KeyedIs
<1>3. z \in Readings(U) /\ Proper(z, 0)
  BY <1>21, <1>22, FirstReading
<1>4. PICK P : P = [T EXCEPT ![n] = s]
  OBVIOUS
<1>5. /\ R \in Seq(Readings(U)) /\ Len(R) = n + 1 /\ R[n] = s /\ R[n + 1] = z
      /\ \A i \in 1..(n - 1) : R[i] = T[i]
  <2>1. R = Append(P, z) /\ n = Len(T)
    BY <1>4, <1>22
  <2> QED BY <1>1, <1>2, <1>3, <1>4, <2>1, Stacked
<1>6. Proper(s, 1)
  <2>1. PICK p \in Nat, k \in Nat, need \in Nat :
          p = Len(r.parts) /\ k = Len(r.keys) /\ need = r.need
    BY <1>1, ReadingIs
  <2>2. k = p /\ p <= need /\ p # need
    BY <1>1, <1>22, <2>1 DEF Proper
  <2>3. Len(s.keys) = Len(s.parts) + 1 /\ Len(s.parts) + 1 <= s.need
    BY <1>2, <2>1, <2>2
  <2>4. r.head.kind # "map" => \A i \in 1..Len(s.keys) : s.keys[i] = <<>>
    <3>1. \A i \in 1..(k + 1) : i \in 1..k \/ i = k + 1
      OBVIOUS
    <3>2. r.head.kind # "map" => \A i \in 1..k : s.keys[i] = <<>>
      BY <1>1, <1>2, <2>1 DEF Proper
    <3>3. r.head.kind # "map" => s.keys[k + 1] = <<>>
      BY <1>2, <1>22, <2>1
    <3>4. Len(s.keys) = k + 1
      BY <1>2, <2>1
    <3> QED BY <3>1, <3>2, <3>3, <3>4
  <2> QED BY <1>1, <1>2, <2>3, <2>4 DEF Proper
<1>7. \A j \in 1..n : Proper(R[j], 1)
  <2>1. \A j \in 1..n : j \in 1..(n - 1) \/ j = n
    BY <1>1
  <2> QED BY <1>1, <1>5, <1>6, <2>1
<1>8. R[1].head = [kind |-> "array"] /\ R[1].need = 1
  <2>1. CASE n = 1
    BY <1>1, <1>2, <1>5, <1>20, <2>1
  <2>2. CASE n # 1
    <3>1. R[1] = T[1]
      BY <1>1, <1>5, <2>2
    <3> QED BY <1>1, <3>1
  <2> QED BY <2>1, <2>2
<1>9. Tower(R, U)
  <2>1. Len(R) - 1 = n
    BY <1>1, <1>5
  <2> QED BY <1>3, <1>5, <1>7, <1>8, <2>1 DEF Tower
<1> QED BY <1>1, <1>5, <1>9, <1>20, <1>21 DEF BeginsTower

\* A decoder k steps on its way that has not given up, inside of what U is the
\* parts of.
Decodes(d, k, w, U) ==
  /\ Runs(d) /\ d.in = w /\ Tower(d.stack, U) /\ d.values <= MaxValues
  /\ Len(d.stack) # 0 => k + Len(d.stack) = 2 * d.values + 1
  /\ Len(d.stack) = 0 => \E x \in U : d.got = Array(<<x>>)

LEMMA StandsSomewhere ==
  ASSUME NEW d, Runs(d), NEW s, NEW v
  PROVE  /\ Runs(WithStack(d, s)) /\ WithStack(d, s).values = d.values
         /\ WithStack(d, s).stack = s /\ WithStack(d, s).in = d.in
         /\ Runs(Done(d, v)) /\ Done(d, v).values = d.values
         /\ Done(d, v).stack = <<>> /\ Done(d, v).got = v /\ Done(d, v).in = d.in
<1>1. Stands(d, d.in, d.at, d.content)
  BY DEF Stands
<1> QED BY <1>1, StillStands DEF Stands

\* Of the value at the top, the last part has been read.
LEMMA DecodesEnds ==
  ASSUME NEW U, U \subseteq Nodes(U), NEW w, NEW k \in Nat, NEW d, Decodes(d, k, w, U),
         NEW n, n = Len(d.stack), n # 0, Len(Top(d).parts) = Top(d).need,
         NEW g, g = DecodeStep(d)
  PROVE  /\ Decodes(g, k + 1, w, Nodes(U)) /\ Built(Top(d)) \in Nodes(U)
         /\ Len(g.stack) = n - 1
<1>1. PICK T, r : T = d.stack /\ r = Top(d)
  OBVIOUS
<1>2. /\ Runs(d) /\ d.in = w /\ Tower(T, U) /\ d.values <= MaxValues
      /\ k + n = 2 * d.values + 1 /\ d.ok
  BY <1>1 DEF Decodes, Runs
<1>3. r = T[n] /\ n = Len(T)
  BY <1>1 DEF Top
<1>4. n \in Nat /\ n > 0 /\ r \in Readings(U) /\ Proper(r, 0)
  BY <1>2, <1>3, TowerTop
<1>5. PICK b : b = Built(r)
  OBVIOUS
<1>6. b \in Nodes(U)
  BY <1>1, <1>4, <1>5, ReadInFull
<1>7. CASE n = 1
  <2>1. g = Done(d, b)
    BY <1>1, <1>2, <1>5, <1>7, LastIs
  <2>2. Runs(g) /\ g.values = d.values /\ g.stack = <<>> /\ g.got = b /\ g.in = w
    BY <1>2, <2>1, StandsSomewhere
  <2>3. PICK x \in U : b = Array(<<x>>)
    <3>1. Tower(T, U) /\ Len(T) = 1 /\ r = T[1] /\ Len(r.parts) = r.need
      BY <1>1, <1>2, <1>3, <1>7
    <3>2. \E x \in U : Built(r) = Array(<<x>>)
      BY <3>1, TowerLast
    <3> QED BY <1>5, <3>2
  <2>4. Tower(<<>>, Nodes(U))
    BY DEF Tower
  <2>5. Len(<<>>) = 0
    OBVIOUS
  <2>6. x \in Nodes(U)
    OBVIOUS
  <2>7. Decodes(g, k + 1, w, Nodes(U))
    BY <1>2, <2>2, <2>3, <2>4, <2>5, <2>6 DEF Decodes
  <2> QED BY <1>1, <1>5, <1>6, <1>7, <2>2, <2>7
<1>8. CASE n # 1
  <2>1. PICK R : R = WithPart(Front(T), n - 1, b)
    OBVIOUS
  <2>2. g = WithStack(d, R)
    BY <1>1, <1>2, <1>5, <1>8, <2>1, DeliversIs
  <2>3. Runs(g) /\ g.values = d.values /\ g.stack = R /\ g.in = w
    BY <1>2, <2>2, StandsSomewhere
  <2>4. Tower(R, Nodes(U)) /\ Len(R) = n - 1 /\ n - 1 > 0
    <3>1. PICK W, m : W = Nodes(U) /\ m = n - 1
      OBVIOUS
    <3>2. U \subseteq W /\ b \in W /\ Tower(T, U) /\ m \in Nat /\ m > 0 /\ Len(T) = m + 1
      BY <1>2, <1>3, <1>4, <1>6, <1>8, <3>1
    <3>3. R = WithPart(Front(T), m, b)
      BY <2>1, <3>1
    <3>4. m # 0
      BY <3>2
    <3>5. PartEnds(T, R, m, b)
      BY <3>2, <3>3, <3>4 DEF PartEnds
    <3>6. Tower(R, W) /\ EndsTower(T, R, m, b)
      BY <3>2, <3>5, TowerEnds
    <3>7. Len(R) = m
      BY <3>6 DEF EndsTower
    <3> QED BY <3>1, <3>2, <3>6, <3>7
  <2>5. PICK V : V = d.values
    OBVIOUS
  <2>6. V \in Nat /\ k + n = 2 * V + 1
    BY <1>2, <2>5 DEF Runs
  <2>9. (k + 1) + Len(R) = 2 * V + 1 /\ Len(R) # 0
    <3>1. PICK i \in Nat, j \in Nat, l \in Nat : i = n /\ j = V /\ l = Len(R)
      <4>1. R \in Seq(Readings(Nodes(U)))
        BY <2>4 DEF Tower
      <4>2. Len(R) \in Nat /\ n \in Nat /\ V \in Nat
        BY <1>4, <2>6, <4>1
      <4> QED BY <4>2
    <3>2. l = i - 1 /\ l > 0
      BY <2>4, <3>1
    <3>3. k + i = 2 * j + 1
      BY <2>6, <3>1
    <3>4. (k + 1) + l = 2 * j + 1 /\ l # 0
      BY <3>2, <3>3
    <3> QED BY <3>1, <3>4
  <2>10. Decodes(g, k + 1, w, Nodes(U))
    BY <1>2, <2>3, <2>4, <2>5, <2>9 DEF Decodes
  <2> QED BY <1>1, <1>5, <1>6, <2>3, <2>4, <2>10
<1> QED BY <1>7, <1>8

LEMMA DecodesBegins ==
  ASSUME NEW U, NEW w \in Seq(Int), NEW k \in Nat, NEW d, Decodes(d, k, w, U),
         NEW n, n = Len(d.stack), n # 0, ~(Len(Top(d).parts) = Top(d).need),
         NEW g, NEW key, NEW b, NEW c, NEW h, NEW m, Begins(d, g, n, w, key, b, c, h, m)
  PROVE  Decodes(g, k + 1, w, U)
<1>1. PICK T, r : T = d.stack /\ r = Top(d)
  OBVIOUS
<1>2. /\ Runs(d) /\ Tower(T, U) /\ k + n = 2 * d.values + 1
  BY <1>1 DEF Decodes
<1>3. r = T[n] /\ n = Len(T)
  BY <1>1 DEF Top
<1>4. /\ key \in Texts /\ (r.head.kind # "map" => key = <<>>) /\ IsHead(h, m)
      /\ d.values < MaxValues /\ Runs(g) /\ g.in = w /\ g.values = d.values + 1
      /\ g.stack = Append([T EXCEPT ![n] = Keyed(r, key)], Reading(h, m))
  BY <1>1, <1>3 DEF Begins, KeyAt, HeadAt
<1>5. PICK R : R = g.stack
  OBVIOUS
<1>6. PartBegins(T, R, n, key, h, m)
  BY <1>1, <1>3, <1>4, <1>5 DEF PartBegins
<1>7. Tower(R, U) /\ Len(R) = n + 1 /\ n \in Nat
  BY <1>2, <1>6, TowerBegins DEF BeginsTower
<1>8. PICK i \in Nat, V \in Nat, M \in Nat : i = n /\ V = d.values /\ M = MaxValues
  BY <1>2, <1>7, LimitsAssumption DEF Runs
<1>9. V < M /\ k + i = 2 * V + 1
  BY <1>2, <1>4, <1>8
<1>10. V + 1 <= M /\ (k + 1) + (i + 1) = 2 * (V + 1) + 1 /\ i + 1 # 0
  BY <1>9
<1> QED BY <1>4, <1>5, <1>7, <1>8, <1>10 DEF Decodes

LEMMA DecodesOn ==
  ASSUME NEW U, U \subseteq Nodes(U), NEW w \in Seq(Int), NEW k \in Nat,
         NEW d, Decodes(d, k, w, U), NEW g, g = DecodeStep(d)
  PROVE  Dead(g) \/ Decodes(g, k + 1, w, Nodes(U))
<1>1. CASE Len(d.stack) = 0
  <2>1. g = d
    BY <1>1, DecodeStays
  <2>2. Tower(d.stack, Nodes(U))
    BY TowerOf DEF Decodes
  <2> QED BY <1>1, <2>1, <2>2 DEF Decodes
<1>2. CASE Len(d.stack) # 0 /\ Len(Top(d).parts) = Top(d).need
  BY <1>2, DecodesEnds
<1>3. CASE Len(d.stack) # 0 /\ ~(Len(Top(d).parts) = Top(d).need)
  <2>1. Runs(d) /\ d.in = w
    BY DEF Decodes
  <2>2. CASE Dead(g)
    BY <2>2
  <2>3. CASE ~Dead(g)
    <3>1. PICK key, b, c, h, m : Begins(d, g, Len(d.stack), w, key, b, c, h, m)
      BY <1>3, <2>1, <2>3, StepFound
    <3>2. Decodes(g, k + 1, w, U)
      BY <1>3, <3>1, DecodesBegins
    <3>3. Tower(g.stack, Nodes(U))
      BY <3>2, TowerOf DEF Decodes
    <3> QED BY <3>2, <3>3 DEF Decodes
  <2> QED BY <2>2, <2>3
<1> QED BY <1>1, <1>2, <1>3

LEMMA NewDecodes ==
  ASSUME NEW U, NEW w \in Seq(Int)
  PROVE  Decodes(NewDecoder(w), 0, w, U)
<1>1. PICK h, r, T, d : /\ h = [kind |-> "array"] /\ r = Reading(h, 1) /\ T = <<r>>
                        /\ d = NewDecoder(w)
  OBVIOUS
<1>2. IsHead(h, 1)
  BY <1>1 DEF IsHead
<1>3. r \in Readings(U) /\ Proper(r, 0) /\ r.head = h /\ r.need = 1
  BY <1>1, <1>2, FirstReading
<1>4. d = [in |-> w, at |-> 0, content |-> 0, values |-> 0, ok |-> TRUE, got |-> <<>>, stack |-> T]
  BY <1>1 DEF NewDecoder
<1>5. d.in = w /\ d.at = 0 /\ d.content = 0 /\ d.values = 0 /\ d.ok /\ d.stack = T
  BY <1>4
<1>6. IsDecoder(d)
  BY <1>4, Zenon DEF IsDecoder
<1>7. Runs(d)
  BY <1>5, <1>6 DEF Runs
<1>8. T \in Seq(Readings(U)) /\ Len(T) = 1 /\ T[1] = r
  BY <1>1, <1>3
<1>9. Tower(T, U)
  <2>1. 1..(Len(T) - 1) = {}
    BY <1>8
  <2> QED BY <1>1, <1>3, <1>8, <2>1 DEF Tower
<1>10. 0 <= MaxValues /\ 0 + 1 = 2 * 0 + 1
  BY LimitsAssumption
<1> QED BY <1>1, <1>5, <1>7, <1>8, <1>9, <1>10 DEF Decodes

LEMMA DecodesMore ==
  ASSUME NEW d, NEW k, NEW w, NEW U, NEW W, U \subseteq W, Decodes(d, k, w, U)
  PROVE  Decodes(d, k, w, W)
<1>1. Tower(d.stack, W)
  BY TowerOf DEF Decodes
<1> QED BY <1>1 DEF Decodes

\* The whole way of a decoder that does not give up, and whatever it has found
\* on it.
Traced(D, n, w, U) == U \subseteq Nodes(U) /\ \A j \in 0..n : Decodes(D[j], j, w, U)

LEMMA Tracing ==
  ASSUME NEW w \in Seq(Int), NEW k \in Nat, Decoding(w)[k].ok
  PROVE  \E U : Traced(Decoding(w), k, w, U)
<1>1. PICK D : D = Decoding(w)
  OBVIOUS
<1>2. D[0] = NewDecoder(w) /\ \A n \in Nat : D[n + 1] = DecodeStep(D[n])
  BY <1>1, DecodingIs
<1> DEFINE Good(n) == D[n].ok => \E U : Traced(D, n, w, U)
<1> DEFINE N == {n \in Nat : Good(n)}
<1>3. 0 \in N
  <2>1. PICK U : U = {}
    OBVIOUS
  <2>2. Decodes(D[0], 0, w, U)
    BY <1>2, NewDecodes
  <2>3. 0..0 = {0} /\ U \subseteq Nodes(U)
    BY <2>1
  <2>4. Traced(D, 0, w, U)
    BY <2>2, <2>3 DEF Traced
  <2> QED BY <2>4
<1>4. ASSUME NEW n \in N PROVE n + 1 \in N
  <2>1. n \in Nat /\ Good(n)
    OBVIOUS
  <2>2. SUFFICES ASSUME D[n + 1].ok PROVE \E U : Traced(D, n + 1, w, U)
    BY <2>1
  <2>3. PICK d, g, m : d = D[n] /\ g = D[n + 1] /\ m = n + 1
    OBVIOUS
  <2>4. g = DecodeStep(d) /\ g.ok
    BY <1>2, <2>1, <2>2, <2>3
  <2>5. d.ok
    <3>1. ~d.ok => DecodeStep(d) = d
      BY DEF DecodeStep
    <3> QED BY <2>4, <3>1
  <2>6. PICK U : Traced(D, n, w, U)
    BY <2>1, <2>3, <2>5
  <2>7. PICK W : W = Nodes(U)
    OBVIOUS
  <2>8. U \subseteq Nodes(U) /\ U \subseteq W /\ W \subseteq Nodes(W)
    BY <2>6, <2>7, NodesGrow DEF Traced
  <2>9. n \in 0..n
    BY <2>1
  <2>10. Decodes(d, n, w, U)
    BY <2>3, <2>6, <2>9 DEF Traced
  <2>11. Dead(g) \/ Decodes(g, n + 1, w, W)
    BY <2>1, <2>4, <2>7, <2>8, <2>10, DecodesOn
  <2>12. Decodes(D[m], m, w, W)
    BY <2>3, <2>4, <2>11 DEF Dead
  <2>13. \A j \in 0..n : Decodes(D[j], j, w, W)
    <3>1. ASSUME NEW j \in 0..n PROVE Decodes(D[j], j, w, W)
      <4>1. Decodes(D[j], j, w, U)
        BY <2>6 DEF Traced
      <4> QED BY <2>8, <4>1, DecodesMore
    <3> QED BY <3>1
  <2>14. \A j \in 0..m : j \in 0..n \/ j = m
    BY <2>1, <2>3
  <2>15. Traced(D, m, w, W)
    BY <2>8, <2>12, <2>13, <2>14 DEF Traced
  <2> QED BY <2>3, <2>15
<1>5. N \in SUBSET Nat
  OBVIOUS
<1> HIDE DEF N
<1>6. N = Nat
  BY <1>3, <1>4, <1>5, Induction
<1>7. Good(k)
  BY <1>6 DEF N
<1> QED BY <1>1, <1>7

-----------------------------------------------------------------------------
\* The way back: from what the decoder has built to what the encoder is inside
\* of.

\* What the decoder has of o when k of its parts have begun and m have ended.
Seen(o, k, m) ==
  [head |-> HeadOf(o), need |-> Len(Parts(o)), keys |-> KeysTo(o, k), parts |-> PartsTo(o, m)]

LEMMA MirrorSeen ==
  ASSUME NEW f, NEW k \in Nat, f.next = k + 1, NEW m
  PROVE  Mirror(f, m) = Seen(f.of, k, m)
<1>1. f.next - 1 = k
  OBVIOUS
<1> QED BY <1>1 DEF Mirror, Seen

LEMMA SeenIs ==
  ASSUME NEW o, NEW k, NEW m
  PROVE  /\ Seen(o, k, m).head = HeadOf(o) /\ Seen(o, k, m).need = Len(Parts(o))
         /\ Seen(o, k, m).keys = KeysTo(o, k) /\ Seen(o, k, m).parts = PartsTo(o, m)
  BY DEF Seen

LEMMA SeenSame ==
  ASSUME NEW U, NEW r \in Readings(U), NEW o, NEW k, NEW m, r.head = HeadOf(o),
         r.need = Len(Parts(o)), r.keys = KeysTo(o, k), r.parts = PartsTo(o, m)
  PROVE  r = Seen(o, k, m)
<1>1. r = [head |-> r.head, need |-> r.need, keys |-> r.keys, parts |-> r.parts]
  BY ReadingIs
<1> QED BY <1>1 DEF Seen

\* Nothing has been read of it yet.
LEMMA ReadBack ==
  ASSUME NEW U, NEW o \in Nodes(U), NEW k \in Nat, k <= Len(Parts(o)), NEW h, NEW n,
         Reading(h, n) = Seen(o, k, k)
  PROVE  k = 0 /\ h = HeadOf(o) /\ n = Len(Parts(o))
<1>1. PICK r : r = Reading(h, n)
  OBVIOUS
<1>2. r.head = h /\ r.need = n /\ r.keys = <<>>
  BY <1>1 DEF Reading
<1>3. r.head = HeadOf(o) /\ r.need = Len(Parts(o)) /\ r.keys = KeysTo(o, k)
  BY <1>1, SeenIs
<1>4. Len(KeysTo(o, k)) = k
  BY PartsToAre
<1> QED BY <1>2, <1>3, <1>4

\* Its last key is that of the part whose turn it was.
LEMMA KeyedBack ==
  ASSUME NEW U, NEW o \in Nodes(U), NEW i \in Nat, NEW k, k = i + 1, k <= Len(Parts(o)),
         NEW r \in Readings(U), NEW key \in Texts, Keyed(r, key) = Seen(o, k, i)
  PROVE  key = KeyOf(o, k) /\ r = Seen(o, i, i)
<1>1. PICK s : s = Keyed(r, key)
  OBVIOUS
<1>2. s.head = r.head /\ s.need = r.need /\ s.parts = r.parts /\ s.keys = Append(r.keys, key)
  BY <1>1, KeyedIs
<1>3. s.head = HeadOf(o) /\ s.need = Len(Parts(o)) /\ s.keys = KeysTo(o, k)
      /\ s.parts = PartsTo(o, i)
  BY <1>1, SeenIs
<1>4. PICK n \in Nat : n = Len(Parts(o))
  BY PartsAre
<1>5. i <= n /\ k \in 1..n
  BY <1>4
<1>6. PICK t, x : t = KeysTo(o, i) /\ x = KeyOf(o, k)
  OBVIOUS
<1>7. Append(t, x) = KeysTo(o, k)
  BY <1>6, NextPart
<1>8. t \in Seq(Texts)
  BY <1>4, <1>5, <1>6, PartsToAre
<1>9. x \in Texts
  BY <1>4, <1>5, <1>6, PartsAre
<1>10. r.keys \in Seq(Texts)
  BY ReadingIs
<1>11. Append(r.keys, key) = Append(t, x)
  BY <1>2, <1>3, <1>7
<1>12. r.keys = t /\ key = x
  BY <1>8, <1>9, <1>10, <1>11, AppendInjective
<1>13. r = Seen(o, i, i)
  <2>1. /\ r.head = HeadOf(o) /\ r.need = Len(Parts(o)) /\ r.keys = KeysTo(o, i)
        /\ r.parts = PartsTo(o, i)
    BY <1>2, <1>3, <1>6, <1>12
  <2>2. r = [head |-> r.head, need |-> r.need, keys |-> r.keys, parts |-> r.parts]
    BY ReadingIs
  <2> QED BY <2>1, <2>2 DEF Seen
<1> QED BY <1>6, <1>12, <1>13

\* Its last part is the one that has ended.
LEMMA PartedBack ==
  ASSUME NEW U, NEW W, U \subseteq W, NEW o \in Nodes(U), NEW k \in Nat, k <= Len(Parts(o)),
         NEW r \in Readings(W), NEW b \in W, Parted(r, b) = Seen(o, k, k)
  PROVE  \E i \in Nat : k = i + 1 /\ b = Part(o, k) /\ r = Seen(o, k, i)
<1>1. PICK s : s = Parted(r, b)
  OBVIOUS
<1>2. /\ s.head = r.head /\ s.need = r.need /\ s.keys = r.keys
      /\ s.parts = Append(r.parts, b) /\ Len(s.parts) = Len(r.parts) + 1
  BY <1>1, PartedIs
<1>3. s.head = HeadOf(o) /\ s.need = Len(Parts(o)) /\ s.keys = KeysTo(o, k)
      /\ s.parts = PartsTo(o, k)
  BY <1>1, SeenIs
<1>4. Len(s.parts) = k
  BY <1>3, PartsToAre
<1>5. PICK i \in Nat : i = Len(r.parts)
  BY ReadingIs
<1>6. k = i + 1
  BY <1>2, <1>4, <1>5
<1>7. PICK n \in Nat : n = Len(Parts(o))
  BY PartsAre
<1>8. i <= n /\ k \in 1..n
  BY <1>6, <1>7
<1>9. PICK t, x : t = PartsTo(o, i) /\ x = Part(o, k)
  OBVIOUS
<1>10. Append(t, x) = PartsTo(o, k)
  <2>1. i + 1 <= Len(Parts(o))
    BY <1>6, <1>7, <1>8
  <2> QED BY <1>6, <1>9, <2>1, NextPart
<1>11. t \in Seq(W)
  <2>1. t \in Seq(U)
    BY <1>7, <1>8, <1>9, PartsToAre
  <2> QED BY <2>1
<1>12. x \in W
  BY <1>7, <1>8, <1>9, PartsAre
<1>13. r.parts \in Seq(W)
  BY ReadingIs
<1>14. Append(r.parts, b) = Append(t, x)
  BY <1>2, <1>3, <1>10
<1>15. r.parts = t /\ b = x
  BY <1>11, <1>12, <1>13, <1>14, AppendInjective
<1>16. r = Seen(o, k, i)
  <2>1. /\ r.head = HeadOf(o) /\ r.need = Len(Parts(o)) /\ r.keys = KeysTo(o, k)
        /\ r.parts = PartsTo(o, i)
    BY <1>2, <1>3, <1>9, <1>15
  <2>2. r = [head |-> r.head, need |-> r.need, keys |-> r.keys, parts |-> r.parts]
    BY ReadingIs
  <2> QED BY <2>1, <2>2 DEF Seen
<1> QED BY <1>6, <1>9, <1>15, <1>16

\* What has been read in full is the value itself.
LEMMA SeenInFull ==
  ASSUME NEW U, NEW r \in Readings(U), Proper(r, 0), Len(r.parts) = r.need,
         NEW b, b = Built(r), NEW n, n = Len(Parts(b))
  PROVE  b \in Nodes(U) /\ r = Seen(b, n, n)
<1>1. PICK m : m = r.need
  OBVIOUS
<1>2. /\ b \in Nodes(U) /\ HeadOf(b) = r.head /\ Len(Parts(b)) = m
      /\ KeysTo(b, m) = r.keys /\ PartsTo(b, m) = r.parts
  BY <1>1, ReadInFull
<1> QED BY <1>1, <1>2, SeenSame

\* Back before the end of b: the encoder is inside of it, too.
FrameBack(T, Z, S, U, v, m, b, R) ==
  /\ Tower(T, U) /\ Len(T) = m + 1 /\ Len(T[m + 1].parts) = T[m + 1].need /\ b = Built(T[m + 1])
  /\ Nested(Z, U, v) /\ Len(Z) = m /\ (m = 0 => b = Array(<<v>>))
  /\ m # 0 => PartEnds(T, R, m, b) /\ Mirrored(Z, R, U)
  /\ S = Append(Z, Inside(b, Len(Parts(b)) + 1))
BackFrame(T, Z, S, U, v, m, b) ==
  /\ Nested(S, U, v) /\ Mirrored(S, T, U) /\ Len(S) = m + 1
  /\ S[m + 1] = Inside(b, Len(Parts(b)) + 1) /\ Front(S) = Z /\ Len(Parts(b)) \in Nat

LEMMA FramesEnd ==
  ASSUME NEW U, U \subseteq Nodes(U), NEW v, NEW T, NEW Z, NEW R, NEW S, NEW m \in Nat, NEW b,
         FrameBack(T, Z, S, U, v, m, b, R)
  PROVE  BackFrame(T, Z, S, U, v, m, b)
<1>20. PICK r, l, f : r = T[m + 1] /\ l = Len(Parts(b)) /\ f = Inside(b, l + 1)
  OBVIOUS
<1>21. /\ Tower(T, U) /\ Len(T) = m + 1 /\ Len(r.parts) = r.need /\ b = Built(r)
       /\ Nested(Z, U, v) /\ Len(Z) = m /\ (m = 0 => b = Array(<<v>>))
       /\ m # 0 => PartEnds(T, R, m, b) /\ Mirrored(Z, R, U)
       /\ S = Append(Z, f)
  BY <1>20 DEF FrameBack
<1>1. PICK n \in Nat : n = m + 1 /\ n # 0 /\ n > 0
  OBVIOUS
<1>2. r = T[n] /\ n = Len(T)
  BY <1>1, <1>20, <1>21
<1>3. /\ r \in Readings(U) /\ Proper(r, 0) /\ T \in Seq(Readings(U))
      /\ \A j \in 1..(n - 1) : T[j] \in Readings(U)
  BY <1>1, <1>2, <1>21, TowerTop DEF Tower
<1>4. b \in Nodes(U) /\ r = Seen(b, l, l)
  BY <1>3, <1>20, <1>21, SeenInFull
<1>5. l \in Nat
  BY <1>4, <1>20, PartsAre
<1>6. f.of = b /\ f.next = l + 1 /\ f \in Frames(U)
  <2>1. l + 1 \in Nat \ {0}
    BY <1>5
  <2> QED BY <1>4, <1>20, <2>1 DEF Inside, Frames
<1>7. /\ Z \in Seq(Frames(U))
      /\ \A j \in 1..m : Z[j].next - 1 <= Len(Parts(Z[j].of))
      /\ \A j \in 1..(m - 1) : Z[j].next - 2 \in Nat /\ Z[j + 1].of = Part(Z[j].of, Z[j].next - 1)
      /\ m > 0 => Z[1].of = Array(<<v>>)
  BY <1>21 DEF Nested
<1>8. /\ S \in Seq(Frames(U)) /\ Len(S) = n /\ S[n] = f
      /\ \A j \in 1..m : S[j] = Z[j]
  <2>1. PICK X : X = Frames(U)
    OBVIOUS
  <2>2. Z \in Seq(X) /\ f \in X /\ Len(Z) = m
    BY <1>6, <1>7, <1>21, <2>1
  <2>3. S \in Seq(X) /\ Len(S) = m + 1 /\ S[m + 1] = f /\ \A j \in 1..m : S[j] = Z[j]
    BY <1>21, <2>2, AppendProperties
  <2> QED BY <1>1, <2>1, <2>3
<1>9. T[n] = Mirror(f, f.next - 1) /\ f.next - 1 <= Len(Parts(f.of))
  <2>1. f.next - 1 = l
    BY <1>5, <1>6
  <2>2. Mirror(f, l) = Seen(b, l, l)
    BY <1>5, <1>6, MirrorSeen
  <2>3. l <= Len(Parts(f.of))
    BY <1>5, <1>6, <1>20
  <2> QED BY <1>2, <1>4, <2>1, <2>2, <2>3
\* The value below.
<1>10. ASSUME m # 0
       PROVE  /\ \A j \in 1..m : T[j] = Mirror(Z[j], Z[j].next - 2)
              /\ Z[m].next - 2 \in Nat /\ b = Part(Z[m].of, Z[m].next - 1)
  <2>1. PartEnds(T, R, m, b) /\ Mirrored(Z, R, U)
    BY <1>10, <1>21
  <2>2. EndsTower(T, R, m, b)
    <3>1. PICK W : W = Nodes(U)
      OBVIOUS
    <3>2. U \subseteq W /\ b \in W
      BY <1>4, <3>1
    <3> QED BY <1>21, <2>1, <3>2, TowerEnds
  <2>3. R[m] = Parted(T[m], b) /\ \A j \in 1..(m - 1) : R[j] = T[j]
    BY <2>2 DEF EndsTower
  <2>4. PICK q, y : q = T[m] /\ y = Z[m]
    OBVIOUS
  <2>5. m \in 1..m /\ m \in 1..(n - 1)
    BY <1>1, <1>10
  <2>6. y \in Frames(U) /\ y.next - 1 <= Len(Parts(y.of))
    BY <1>7, <1>21, <2>4, <2>5
  <2>7. PICK k \in Nat : k = y.next - 1 /\ y.next = k + 1
    BY <2>6, FrameIs
  <2>8. /\ R[m] = Mirror(y, k)
        /\ \A j \in 1..(m - 1) : R[j] = Mirror(Z[j], Z[j].next - 2)
    <3>1. Len(Z) > 0 /\ Z[Len(Z)] = y
      BY <1>10, <1>21, <2>4
    <3>2. R[Len(Z)] = Mirror(Z[Len(Z)], Z[Len(Z)].next - 1)
      BY <2>1, <3>1 DEF Mirrored
    <3>3. \A j \in 1..(Len(Z) - 1) : R[j] = Mirror(Z[j], Z[j].next - 2)
      BY <2>1 DEF Mirrored
    <3> QED BY <1>21, <2>4, <2>7, <3>2, <3>3
  <2>9. Parted(q, b) = Seen(y.of, k, k)
    <3>1. y.next = k + 1
      BY <2>7
    <3>2. Mirror(y, k) = Seen(y.of, k, k)
      BY <3>1, MirrorSeen
    <3>3. R[m] = Parted(q, b) /\ R[m] = Mirror(y, k)
      BY <2>3, <2>4, <2>8
    <3> QED BY <3>2, <3>3
  <2>10. y.of \in Nodes(U) /\ k <= Len(Parts(y.of))
    BY <2>6, <2>7, FrameIs
  <2>11. PICK i \in Nat : k = i + 1 /\ b = Part(y.of, k) /\ q = Seen(y.of, k, i)
    <3>1. PICK W : W = Nodes(U)
      OBVIOUS
    <3>2. U \subseteq W /\ b \in W /\ q \in Readings(W)
      <4>1. q \in Readings(U)
        BY <1>3, <2>4, <2>5
      <4>2. U \subseteq W
        BY <3>1
      <4>3. q \in Readings(W)
        BY <4>1, <4>2, ReadingsOf
      <4> QED BY <1>4, <3>1, <4>2, <4>3
    <3>3. \E i \in Nat : k = i + 1 /\ b = Part(y.of, k) /\ q = Seen(y.of, k, i)
      BY <2>9, <2>10, <3>2, PartedBack
    <3> QED BY <3>3
  <2>12. y.next - 2 = i /\ y.next - 1 = k
    <3>1. PICK x \in Nat : x = y.next
      BY <2>6, FrameIs
    <3>2. x = k + 1 /\ k = i + 1
      BY <2>7, <2>11, <3>1
    <3>3. x - 2 = i /\ x - 1 = k
      BY <3>2
    <3> QED BY <3>1, <3>3
  <2>13. T[m] = Mirror(Z[m], Z[m].next - 2)
    <3>1. Mirror(y, i) = Seen(y.of, k, i)
      BY <2>7, MirrorSeen
    <3> QED BY <2>4, <2>11, <2>12, <3>1
  <2>14. \A j \in 1..m : j \in 1..(m - 1) \/ j = m
    OBVIOUS
  <2>15. \A j \in 1..m : T[j] = Mirror(Z[j], Z[j].next - 2)
    BY <2>3, <2>8, <2>13, <2>14
  <2>16. Z[m].next - 2 \in Nat /\ b = Part(Z[m].of, Z[m].next - 1)
    BY <2>4, <2>11, <2>12
  <2> QED BY <2>15, <2>16
<1>11. Nested(S, U, v)
  <2>1. \A j \in 1..n : S[j].next - 1 <= Len(Parts(S[j].of))
    <3>1. \A j \in 1..n : j \in 1..m \/ j = n
      BY <1>1
    <3> QED BY <1>7, <1>8, <1>9, <3>1
  <2>2. \A j \in 1..m : S[j].next - 2 \in Nat /\ S[j + 1].of = Part(S[j].of, S[j].next - 1)
    <3>1. ASSUME NEW j \in 1..m
          PROVE  S[j].next - 2 \in Nat /\ S[j + 1].of = Part(S[j].of, S[j].next - 1)
      <4>1. CASE j = m
        <5>1. S[j + 1] = f /\ S[j] = Z[m] /\ m # 0
          BY <1>1, <1>8, <4>1
        <5> QED BY <1>6, <1>10, <5>1
      <4>2. CASE j # m
        <5>1. j \in 1..(m - 1) /\ j + 1 \in 1..m
          BY <4>2
        <5>2. S[j] = Z[j] /\ S[j + 1] = Z[j + 1]
          BY <1>8, <5>1
        <5> QED BY <1>7, <5>1, <5>2
      <4> QED BY <4>1, <4>2
    <3> QED BY <3>1
  <2>3. S[1].of = Array(<<v>>)
    <3>1. CASE m = 0
      BY <1>1, <1>6, <1>8, <1>21, <3>1
    <3>2. CASE m # 0
      <4>1. 1 \in 1..m /\ m > 0
        BY <3>2
      <4> QED BY <1>7, <1>8, <4>1
    <3> QED BY <3>1, <3>2
  <2>4. Len(S) - 1 = m
    BY <1>1, <1>8
  <2> QED BY <1>8, <2>1, <2>2, <2>3, <2>4 DEF Nested
<1>12. Mirrored(S, T, U)
  <2>1. \A j \in 1..m : T[j] = Mirror(S[j], S[j].next - 2)
    <3>1. CASE m = 0
      <4>1. 1..m = {}
        BY <3>1
      <4> QED BY <4>1
    <3>2. CASE m # 0
      BY <1>8, <1>10, <3>2
    <3> QED BY <3>1, <3>2
  <2>2. Len(S) - 1 = m
    BY <1>1, <1>8
  <2>3. T \in Seq(Readings(U)) /\ Len(T) = Len(S)
    BY <1>2, <1>3, <1>8
  <2>4. T[Len(S)] = Mirror(S[Len(S)], S[Len(S)].next - 1)
    BY <1>8, <1>9
  <2>5. \A j \in 1..(Len(S) - 1) : T[j] = Mirror(S[j], S[j].next - 2)
    BY <2>1, <2>2
  <2> QED BY <2>3, <2>4, <2>5 DEF Mirrored
<1>13. Front(S) = Z
  <2>1. PICK X, Q, Y, c : X = Frames(U) /\ Q = S /\ Y = Z /\ c = f
    OBVIOUS
  <2>2. Q \in Seq(X) /\ Y \in Seq(X) /\ c \in X /\ Len(Q) = Len(Y) + 1
    BY <1>1, <1>6, <1>7, <1>8, <1>21, <2>1
  <2>3. (\A i \in 1..Len(Y) : Q[i] = Y[i]) /\ Q[Len(Q)] = c
    BY <1>1, <1>8, <1>21, <2>1
  <2>4. Front(Q) = Y
    BY <2>2, <2>3, OneOff
  <2> QED BY <2>1, <2>4
<1> QED BY <1>1, <1>5, <1>8, <1>11, <1>12, <1>13, <1>20 DEF BackFrame

\* The decoder is inside of the values of S, or has built v.
Fits(S, d, U, v) ==
  Nested(S, U, v) /\ Mirrored(S, d.stack, U) /\ (Len(d.stack) = 0 => d.got = Array(<<v>>))

\* The encoder is inside of the same values, and what it has written is there.
Joins(e, d, S, w, U, v) == Lockstep(e, d, w, U, v) /\ e.stack = S /\ Ahead(w, 0, e.out)

LEMMA BackEnds ==
  ASSUME NEW U, U \subseteq Nodes(U), NEW v, NEW w, NEW k \in Nat, NEW d, Decodes(d, k, w, U),
         NEW n, n = Len(d.stack), n # 0, Len(Top(d).parts) = Top(d).need,
         NEW g, g = DecodeStep(d), NEW Z, Fits(Z, g, U, v)
  PROVE  \E S : /\ Fits(S, d, U, v)
                /\ \A e : Joins(e, d, S, w, U, v) => Joins(EncodeStep(e), g, Z, w, U, v)
<1>1. PICK T, R, r, b : T = d.stack /\ R = g.stack /\ r = Top(d) /\ b = Built(r)
  OBVIOUS
<1>2. Tower(T, U) /\ n = Len(T) /\ r = T[n] /\ Len(r.parts) = r.need /\ d.ok /\ Runs(d)
  BY <1>1 DEF Decodes, Top, Runs
<1>3. n \in Nat /\ n > 0
  BY <1>2, TowerTop
<1>4. PICK m \in Nat : m = n - 1 /\ n = m + 1
  BY <1>3
<1>5. Nested(Z, U, v) /\ Mirrored(Z, R, U) /\ (Len(R) = 0 => g.got = Array(<<v>>))
  BY <1>1 DEF Fits
<1>6. ASSUME m = 0 PROVE b = Array(<<v>>) /\ Len(R) = m
  <2>1. n = 1
    BY <1>4, <1>6
  <2>2. g = Done(d, b)
    BY <1>1, <1>2, <2>1, LastIs
  <2>3. R = <<>> /\ g.got = b
    BY <1>1, <1>2, <2>2, StandsSomewhere
  <2>4. Len(R) = 0
    BY <2>3
  <2> QED BY <1>5, <1>6, <2>3, <2>4
<1>7. ASSUME m # 0 PROVE PartEnds(T, R, m, b) /\ Mirrored(Z, R, U) /\ Len(R) = m
  <2>1. n # 1
    BY <1>4, <1>7
  <2>2. g = WithStack(d, WithPart(Front(T), n - 1, b))
    BY <1>1, <1>2, <2>1, DeliversIs
  <2>3. R = WithPart(Front(T), n - 1, b)
    BY <1>1, <1>2, <2>2, StandsSomewhere
  <2>4. R = WithPart(Front(T), m, b) /\ Len(T) = m + 1
    BY <1>2, <1>4, <2>3
  <2>5. PartEnds(T, R, m, b)
    BY <1>7, <2>4 DEF PartEnds
  <2>6. b \in Nodes(U)
    BY <1>1, DecodesEnds
  <2>7. EndsTower(T, R, m, b)
    <3>1. PICK W : W = Nodes(U)
      OBVIOUS
    <3>2. U \subseteq W /\ b \in W
      BY <2>6, <3>1
    <3> QED BY <1>2, <2>5, <3>2, TowerEnds
  <2>8. Len(R) = m
    BY <2>7 DEF EndsTower
  <2> QED BY <1>5, <2>5, <2>8
<1>8. Len(Z) = m
  <2>1. Len(R) = Len(Z)
    BY <1>5 DEF Mirrored
  <2> QED BY <1>6, <1>7, <2>1
<1>9. PICK l : l = Len(Parts(b))
  OBVIOUS
<1>10. PICK f : f = Inside(b, l + 1)
  OBVIOUS
<1>11. PICK S : S = Append(Z, f)
  OBVIOUS
<1>12. FrameBack(T, Z, S, U, v, m, b, R)
  <2>1. Len(T) = m + 1 /\ r = T[m + 1]
    BY <1>2, <1>4
  <2>2. Tower(T, U) /\ Len(T[m + 1].parts) = T[m + 1].need /\ b = Built(T[m + 1])
    BY <1>1, <1>2, <2>1
  <2>3. S = Append(Z, Inside(b, Len(Parts(b)) + 1))
    BY <1>9, <1>10, <1>11
  <2> QED BY <1>5, <1>6, <1>7, <1>8, <2>1, <2>2, <2>3, Zenon DEF FrameBack
<1>13. /\ Nested(S, U, v) /\ Mirrored(S, T, U) /\ Len(S) = m + 1 /\ S[m + 1] = f
       /\ Front(S) = Z /\ l \in Nat
  <2>1. BackFrame(T, Z, S, U, v, m, b)
    BY <1>12, FramesEnd
  <2> QED BY <1>9, <1>10, <2>1 DEF BackFrame
<1>14. Fits(S, d, U, v)
  BY <1>1, <1>13 DEF Fits
<1>15. Ended(f)
  <2>1. l + 1 > l
    BY <1>13
  <2> QED BY <1>9, <1>10, <2>1, EndedAt
<1>16. ASSUME NEW e, Joins(e, d, S, w, U, v) PROVE Joins(EncodeStep(e), g, Z, w, U, v)
  <2>1. Lockstep(e, d, w, U, v) /\ e.stack = S /\ Ahead(w, 0, e.out) /\ Writes(e)
    BY <1>16 DEF Joins, Lockstep
  <2>2. Top(e) = f /\ Len(e.stack) = n /\ Len(e.stack) # 0
    BY <1>4, <1>13, <2>1 DEF Top
  <2>3. PICK x : x = EncodeStep(e)
    OBVIOUS
  <2>4. x.out = e.out /\ x.stack = Front(e.stack)
    BY <1>15, <2>1, <2>2, <2>3, EncodeEnds
  <2>5. Lockstep(x, g, w, U, v)
    BY <1>15, <2>1, <2>2, <2>3, LockstepEnds
  <2>6. x.stack = Z /\ Ahead(w, 0, x.out)
    BY <1>13, <2>1, <2>4
  <2> QED BY <2>3, <2>5, <2>6 DEF Joins
<1> QED BY <1>14, <1>16

\* What is there, and what is there behind it.
LEMMA FurtherAhead ==
  ASSUME NEW w \in Seq(Int), NEW o \in Seq(Int), NEW p \in Seq(Int),
         Ahead(w, 0, o), Ahead(w, Len(o), p)
  PROVE  o \o p \in Seq(Int) /\ Ahead(w, 0, o \o p) /\ Len(o \o p) = Len(o) + Len(p)
<1>1. 0 + Len(o) = Len(o)
  OBVIOUS
<1>2. Ahead(w, 0 + Len(o), p)
  BY <1>1
<1>3. Ahead(w, 0, o \o p)
  BY <1>2, AheadOfBoth
<1>4. o \o p \in Seq(Int) /\ Len(o \o p) = Len(o) + Len(p)
  BY Lengths
<1> QED BY <1>3, <1>4

\* The encoder writes the key that the decoder has read.
KeyThere(e, w, U, v, i, r, t, b, c) ==
  /\ Writes(e) /\ w \in Seq(Int) /\ Ahead(w, 0, e.out)
  /\ v \in Nodes(U) /\ i \in 1..Len(Parts(v)) /\ r.head = HeadOf(v) /\ r.keys = KeysTo(v, i - 1)
  /\ t \in Texts /\ t = KeyOf(v, i) /\ KeyAt(r, t, w, Len(e.out), e.content, b, c)
KeyIsThere(e, w, k, b, c) ==
  /\ Writes(k) /\ k.values = e.values /\ k.stack = e.stack
  /\ Len(k.out) = b /\ k.content = c /\ Ahead(w, 0, k.out)

LEMMA KeyWritten ==
  ASSUME NEW e, NEW w, NEW U, NEW v, NEW i, NEW r, NEW t, NEW b, NEW c,
         KeyThere(e, w, U, v, i, r, t, b, c), NEW k, k = PutKey(e, v, i)
  PROVE  KeyIsThere(e, w, k, b, c)
<1> SUFFICES ASSUME Writes(e), w \in Seq(Int), Ahead(w, 0, e.out), v \in Nodes(U),
                    i \in 1..Len(Parts(v)), r.head = HeadOf(v), r.keys = KeysTo(v, i - 1),
                    t \in Texts, t = KeyOf(v, i), KeyAt(r, t, w, Len(e.out), e.content, b, c)
             PROVE  /\ Writes(k) /\ k.values = e.values /\ k.stack = e.stack
                    /\ Len(k.out) = b /\ k.content = c /\ Ahead(w, 0, k.out)
  BY DEF KeyThere, KeyIsThere
<1>1. PICK a \in Nat, x \in Nat, o \in Seq(Int) : a = Len(e.out) /\ x = e.content /\ o = e.out
  <2>1. e.out \in Seq(Int) /\ e.content \in Nat
    BY DEF Writes
  <2>2. Len(e.out) \in Nat
    BY <2>1
  <2> QED BY <2>1, <2>2, Zenon
<1>2. HeadOf(v).kind = v.kind
  BY DEF HeadOf
<1>3. CASE v.kind # "map"
  <2>1. k = e
    BY <1>3 DEF PutKey
  <2>2. b = Len(e.out) /\ c = e.content
    BY <1>2, <1>3 DEF KeyAt
  <2> QED BY <2>1, <2>2
<1>4. CASE v.kind = "map"
  <2>1. r.head.kind = "map"
    BY <1>2, <1>4
  <2>2. /\ Ahead(w, a, <<Pair>>) /\ Ahead(w, a + 1, Block(Str32, t))
        /\ Allowed(x, Len(t), MaxString)
        /\ \A j \in 1..Len(r.keys) : r.keys[j] # t
        /\ b = a + 1 + 2 + Len(t) /\ c = x + Len(t)
    BY <1>1, <2>1 DEF KeyAt
  <2>3. v.entries[i].key = t
    BY <1>4 DEF KeyOf
  <2>4. \A j \in 1..(i - 1) : v.entries[j].key # t
    <3> TAKE j \in 1..(i - 1)
    <3>1. Len(KeysTo(v, i - 1)) = i - 1
      <4>1. i - 1 \in Nat /\ i - 1 <= Len(Parts(v))
        BY PartsAre
      <4> QED BY <4>1, PartsToAre
    <3>2. j \in 1..Len(r.keys)
      BY <3>1
    <3>3. KeysTo(v, i - 1)[j] = v.entries[j].key
      BY <1>4 DEF KeysTo, KeyOf
    <3> QED BY <2>2, <3>2, <3>3
  <2>5. Wrote(e, k, (e.out \o <<Pair>>) \o Block(Str32, t), x + Len(t))
    BY <1>1, <1>4, <2>2, <2>3, <2>4, KeyWrites
  <2>6. /\ Writes(k) /\ k.out = (e.out \o <<Pair>>) \o Block(Str32, t) /\ k.content = x + Len(t)
        /\ k.values = e.values /\ k.stack = e.stack
    BY <2>5 DEF Wrote
  <2>7. PICK l \in Nat : l = Len(t)
    BY TextIs
  <2>8. PICK p \in Seq(Int), s \in Seq(Int) :
          p = <<Pair>> /\ Len(p) = 1 /\ s = Block(Str32, t) /\ Len(s) = 2 + l
    <3>1. t \in Seq(Int) /\ Str32 \in Int /\ <<Pair>> \in Seq(Int) /\ Len(<<Pair>>) = 1
      BY TextIs DEF Str32, Pair
    <3>2. Block(Str32, t) \in Seq(Int) /\ Len(Block(Str32, t)) = 2 + Len(t)
      BY <3>1, BlockLength
    <3> QED BY <2>7, <3>1, <3>2
  <2>9. PICK q : q = o \o p
    OBVIOUS
  <2>10. q \in Seq(Int) /\ Ahead(w, 0, q) /\ Len(q) = a + 1
    <3>1. Ahead(w, 0, o) /\ Ahead(w, Len(o), p) /\ a = Len(o)
      BY <1>1, <2>2, <2>8
    <3>2. o \o p \in Seq(Int) /\ Ahead(w, 0, o \o p) /\ Len(o \o p) = Len(o) + Len(p)
      BY <3>1, FurtherAhead
    <3> QED BY <2>8, <2>9, <3>1, <3>2
  <2>11. PICK y : y = q \o s
    OBVIOUS
  <2>12. Ahead(w, 0, y) /\ Len(y) = Len(q) + Len(s)
    <3>1. Ahead(w, Len(q), s) /\ Ahead(w, 0, q) /\ q \in Seq(Int)
      BY <2>2, <2>8, <2>10
    <3>2. Ahead(w, 0, q \o s) /\ Len(q \o s) = Len(q) + Len(s)
      BY <3>1, FurtherAhead
    <3> QED BY <2>11, <3>2
  <2>13. k.out = y
    BY <1>1, <2>6, <2>8, <2>9, <2>11
  <2>14. Len(k.out) = b
    <3>1. Len(y) = (a + 1) + (2 + l)
      BY <2>8, <2>10, <2>12
    <3>2. (a + 1) + (2 + l) = a + 1 + 2 + l
      OBVIOUS
    <3>3. b = a + 1 + 2 + l
      BY <2>2, <2>7
    <3> QED BY <2>13, <3>1, <3>2, <3>3
  <2> QED BY <2>2, <2>6, <2>12, <2>13, <2>14
<1> QED BY <1>3, <1>4

\* And it writes the value that the decoder has begun to read.
LEMMA ValueWritten ==
  ASSUME NEW e, Writes(e), NEW w \in Seq(Int), Ahead(w, 0, e.out), NEW U, NEW x \in Nodes(U),
         NEW h, h = HeadOf(x), NEW n, n = Len(Parts(x)),
         HeadAt(h, n, w, Len(e.out), e.content), NEW depth, ~TooDeep(depth), e.values < MaxValues,
         NEW g, g = Put(e, x, depth)
  PROVE  Writes(g) /\ Ahead(w, 0, g.out)
<1>1. PICK a \in Nat, o \in Seq(Int) : a = Len(e.out) /\ o = e.out
  <2>1. e.out \in Seq(Int)
    BY DEF Writes
  <2>2. Len(e.out) \in Nat
    BY <2>1
  <2> QED BY <2>1, <2>2, Zenon
<1>2. Fine(h, n, e.content)
  BY DEF HeadAt
<1>3. h.kind = x.kind
  BY DEF HeadOf
<1>4. Ahead(w, a, <<Pair, Tag(x)>>) /\ Ahead(w, a + 2, Body(h, n))
  BY <1>1, <1>3 DEF HeadAt, Tag
<1>5. /\ Tag(x) \in Int /\ n \in Nat /\ Writes(g)
      /\ g.out = (e.out \o <<Pair, Tag(x)>>) \o Body(h, n)
  BY <1>2, PutWrites
<1>6. PICK s \in Seq(Int) : s = Body(h, n)
  BY <1>5, BodyIs
<1>7. PICK p \in Seq(Int) : p = <<Pair, Tag(x)>> /\ Len(p) = 2
  <2>1. PICK y \in Int, z \in Int : y = Pair /\ z = Tag(x)
    BY <1>5 DEF Pair
  <2>2. <<y, z>> \in Seq(Int) /\ Len(<<y, z>>) = 2
    OBVIOUS
  <2> QED BY <2>1, <2>2
<1>8. PICK q : q = o \o p
  OBVIOUS
<1>9. q \in Seq(Int) /\ Ahead(w, 0, q) /\ Len(q) = a + 2
  <2>1. Ahead(w, 0, o) /\ Ahead(w, Len(o), p) /\ a = Len(o)
    BY <1>1, <1>4, <1>7
  <2>2. o \o p \in Seq(Int) /\ Ahead(w, 0, o \o p) /\ Len(o \o p) = Len(o) + Len(p)
    BY <2>1, FurtherAhead
  <2> QED BY <1>7, <1>8, <2>1, <2>2
<1>10. PICK y : y = q \o s
  OBVIOUS
<1>11. Ahead(w, 0, y)
  <2>1. Ahead(w, Len(q), s) /\ Ahead(w, 0, q) /\ q \in Seq(Int)
    BY <1>4, <1>6, <1>9
  <2>2. Ahead(w, 0, q \o s)
    BY <2>1, FurtherAhead
  <2> QED BY <1>10, <2>2
<1>12. g.out = y
  BY <1>1, <1>5, <1>6, <1>7, <1>8, <1>10
<1> QED BY <1>5, <1>11, <1>12

\* Back before a part begins: the encoder is in front of it, too.
BeginBack(T, Z, R, U, v, n, key, h, m) ==
  Tower(T, U) /\ PartBegins(T, R, n, key, h, m) /\ Nested(Z, U, v) /\ Mirrored(Z, R, U)
BackBegun(T, Z, S, U, v, n, key, f, x, h, m) ==
  /\ Nested(S, U, v) /\ Mirrored(S, T, U) /\ Len(S) = n /\ S[n] = f
  /\ f \in Frames(U) /\ ~Ended(f) /\ key = KeyOf(f.of, f.next)
  /\ x = Part(f.of, f.next) /\ x \in Nodes(U) /\ HeadOf(x) = h /\ Len(Parts(x)) = m
  /\ Z = Append([S EXCEPT ![n] = Moved(f)], Writing(x))

LEMMA FramesBegin ==
  ASSUME NEW U, U \subseteq Nodes(U), NEW v, NEW T, NEW Z, NEW R, NEW n, NEW key, NEW h, NEW m,
         BeginBack(T, Z, R, U, v, n, key, h, m)
  PROVE  \E S, f, x : BackBegun(T, Z, S, U, v, n, key, f, x, h, m)
<1>1. /\ Tower(T, U) /\ PartBegins(T, R, n, key, h, m) /\ Nested(Z, U, v) /\ Mirrored(Z, R, U)
      /\ n = Len(T) /\ key \in Texts
  BY DEF BeginBack, PartBegins
<1>2. BeginsTower(T, R, n, key, h, m) /\ n \in Nat /\ n > 0 /\ n # 0
  <2>1. Tower(R, U) /\ BeginsTower(T, R, n, key, h, m) /\ n \in Nat /\ n > 0
    BY <1>1, TowerBegins
  <2> QED BY <2>1
<1>3. PICK l \in Nat : l = n + 1
  BY <1>2
<1>4. PICK r, y, z : r = T[n] /\ y = Z[l] /\ z = Z[n]
  OBVIOUS
<1>5. /\ Len(R) = l /\ R[n] = Keyed(r, key) /\ R[l] = Reading(h, m)
      /\ \A i \in 1..(n - 1) : R[i] = T[i]
  BY <1>2, <1>3, <1>4 DEF BeginsTower
<1>6. Len(Z) = l
  BY <1>1, <1>5 DEF Mirrored
<1>7. /\ Z \in Seq(Frames(U))
      /\ \A j \in 1..l : Z[j].next - 1 <= Len(Parts(Z[j].of))
      /\ \A j \in 1..n : Z[j].next - 2 \in Nat /\ Z[j + 1].of = Part(Z[j].of, Z[j].next - 1)
      /\ Z[1].of = Array(<<v>>)
  <2>1. Len(Z) - 1 = n /\ Len(Z) > 0
    BY <1>2, <1>3, <1>6
  <2> QED BY <1>1, <1>6, <2>1 DEF Nested
<1>8. n \in 1..l /\ l \in 1..l /\ n \in 1..n /\ l - 1 = n /\ l > 0
  BY <1>2, <1>3
<1>9. y \in Frames(U) /\ z \in Frames(U)
  BY <1>4, <1>6, <1>7, <1>8
<1>10. /\ y.next - 1 <= Len(Parts(y.of)) /\ z.next - 1 <= Len(Parts(z.of))
       /\ z.next - 2 \in Nat /\ y.of = Part(z.of, z.next - 1)
  BY <1>3, <1>4, <1>7, <1>8
<1>11. /\ Mirror(y, y.next - 1) = Reading(h, m) /\ Mirror(z, z.next - 2) = Keyed(r, key)
       /\ \A i \in 1..(n - 1) : T[i] = Mirror(Z[i], Z[i].next - 2)
  <2>1. R[l] = Mirror(Z[l], Z[l].next - 1)
    BY <1>1, <1>6, <1>8 DEF Mirrored
  <2>2. \A j \in 1..n : R[j] = Mirror(Z[j], Z[j].next - 2)
    BY <1>1, <1>6, <1>8 DEF Mirrored
  <2>3. \A i \in 1..(n - 1) : i \in 1..n
    BY <1>2
  <2>4. \A i \in 1..(n - 1) : T[i] = Mirror(Z[i], Z[i].next - 2)
    BY <1>5, <2>2, <2>3
  <2>5. Mirror(z, z.next - 2) = Keyed(r, key)
    BY <1>4, <1>5, <1>8, <2>2
  <2> QED BY <1>4, <1>5, <2>1, <2>4, <2>5
\* The value that begins.
<1>12. PICK x : x = y.of
  OBVIOUS
<1>13. x \in Nodes(U) /\ HeadOf(x) = h /\ Len(Parts(x)) = m /\ y = Writing(x)
  <2>1. PICK k \in Nat : k = y.next - 1 /\ y.next = k + 1
    BY <1>9, FrameIs
  <2>2. y.of \in Nodes(U) /\ y = [of |-> y.of, next |-> y.next]
    BY <1>9, FrameIs
  <2>3. Mirror(y, k) = Seen(x, k, k)
    BY <1>12, <2>1, MirrorSeen
  <2>4. Reading(h, m) = Seen(x, k, k) /\ k <= Len(Parts(x)) /\ x \in Nodes(U)
    BY <1>10, <1>11, <1>12, <2>1, <2>2, <2>3
  <2>5. k = 0 /\ h = HeadOf(x) /\ m = Len(Parts(x))
    BY <2>4, ReadBack
  <2>6. y.next = 1
    BY <2>1, <2>5
  <2> QED BY <1>12, <2>2, <2>5, <2>6 DEF Writing
\* The value it is a part of.
<1>14. PICK i \in Nat, k \in Nat : /\ i = z.next - 2 /\ k = i + 1 /\ z.next = k + 1
                                   /\ z.next - 1 = k
  <2>1. PICK q \in Nat : q = z.next
    BY <1>9, FrameIs
  <2>2. PICK i \in Nat : i = q - 2
    BY <1>10, <2>1
  <2>3. PICK k \in Nat : k = i + 1
    OBVIOUS
  <2>4. q = k + 1 /\ q - 1 = k
    BY <2>2, <2>3
  <2> QED BY <2>1, <2>2, <2>3, <2>4
<1>15. PICK o, f : o = z.of /\ f = Inside(o, k)
  OBVIOUS
<1>16. o \in Nodes(U) /\ k <= Len(Parts(o)) /\ z = Inside(o, k + 1) /\ x = Part(o, k)
  <2>1. z.of \in Nodes(U) /\ z = [of |-> z.of, next |-> z.next]
    BY <1>9, FrameIs
  <2>2. z = Inside(o, k + 1)
    BY <1>14, <1>15, <2>1 DEF Inside
  <2> QED BY <1>10, <1>12, <1>14, <1>15, <2>1, <2>2
<1>17. key = KeyOf(o, k) /\ r = Seen(o, i, i)
  <2>1. r \in Readings(U)
    BY <1>1, <1>2, <1>4, TowerTop
  <2>2. Mirror(z, i) = Seen(z.of, k, i)
    BY <1>14, MirrorSeen
  <2>3. Keyed(r, key) = Seen(o, k, i)
    BY <1>11, <1>14, <1>15, <2>2
  <2>4. k = i + 1
    BY <1>14
  <2> QED BY <1>1, <1>16, <2>1, <2>3, <2>4, KeyedBack
<1>18. f.of = o /\ f.next = k /\ f \in Frames(U) /\ Moved(f) = z /\ ~Ended(f) /\ f.next - 1 = i
  <2>1. k \in Nat \ {0} /\ k - 1 = i
    BY <1>14
  <2>2. f.of = o /\ f.next = k /\ f \in Frames(U)
    BY <1>15, <1>16, <2>1 DEF Inside, Frames
  <2>3. PICK j : j = k + 1
    OBVIOUS
  <2>4. Moved(f) = z
    BY <1>15, <1>16, <2>3, MovedOn
  <2>5. PICK c \in Nat : c = Len(Parts(o))
    BY <1>16, PartsAre
  <2>6. ~(k > c)
    BY <1>16, <2>5
  <2>7. ~Ended(f)
    BY <1>15, <2>5, <2>6, EndedAt
  <2> QED BY <2>1, <2>2, <2>4, <2>7
<1>19. PICK F : F = Front(Z)
  OBVIOUS
<1>20. F \in Seq(Frames(U)) /\ Len(F) = n /\ \A j \in 1..n : F[j] = Z[j]
  <2>1. PICK X : X = Frames(U)
    OBVIOUS
  <2>2. Z \in Seq(X) /\ Len(Z) > 0
    BY <1>6, <1>7, <1>8, <2>1
  <2>3. /\ Front(Z) \in Seq(X) /\ Len(Front(Z)) = Len(Z) - 1
        /\ \A j \in 1..(Len(Z) - 1) : Front(Z)[j] = Z[j]
    BY <2>2, FrontIs
  <2> QED BY <1>6, <1>8, <1>19, <2>1, <2>3
<1>21. PICK S : S = [F EXCEPT ![n] = f]
  OBVIOUS
<1>22. /\ S \in Seq(Frames(U)) /\ Len(S) = n /\ S[n] = f
       /\ \A j \in 1..n : j # n => S[j] = Z[j]
  <2>1. PICK X : X = Frames(U)
    OBVIOUS
  <2>2. F \in Seq(X) /\ n \in 1..Len(F) /\ f \in X
    BY <1>8, <1>18, <1>20, <2>1
  <2>3. S \in Seq(X) /\ Len(S) = Len(F) /\ S[n] = f /\ \A j \in 1..Len(F) : j # n => S[j] = F[j]
    BY <1>21, <2>2, Replaced
  <2> QED BY <1>20, <2>1, <2>3
<1>23. Nested(S, U, v)
  <2>1. \A j \in 1..n : S[j].next - 1 <= Len(Parts(S[j].of))
    <3>1. ASSUME NEW j \in 1..n PROVE S[j].next - 1 <= Len(Parts(S[j].of))
      <4>1. CASE j = n
        <5>1. i <= Len(Parts(o))
          <6>1. PICK c \in Nat : c = Len(Parts(o))
            BY <1>16, PartsAre
          <6> QED BY <1>14, <1>16, <6>1
        <5> QED BY <1>18, <1>22, <4>1, <5>1
      <4>2. CASE j # n
        <5>1. S[j] = Z[j] /\ j \in 1..l
          BY <1>3, <1>22, <4>2
        <5> QED BY <1>7, <5>1
      <4> QED BY <4>1, <4>2
    <3> QED BY <3>1
  <2>2. \A j \in 1..(n - 1) :
          S[j].next - 2 \in Nat /\ S[j + 1].of = Part(S[j].of, S[j].next - 1)
    <3>1. ASSUME NEW j \in 1..(n - 1)
          PROVE  S[j].next - 2 \in Nat /\ S[j + 1].of = Part(S[j].of, S[j].next - 1)
      <4>1. j \in 1..n /\ j # n /\ j + 1 \in 1..n
        BY <1>2
      <4>2. S[j] = Z[j]
        BY <1>22, <4>1
      <4>3. S[j + 1].of = Z[j + 1].of
        <5>1. CASE j + 1 = n
          BY <1>4, <1>15, <1>18, <1>22, <5>1
        <5>2. CASE j + 1 # n
          BY <1>22, <4>1, <5>2
        <5> QED BY <5>1, <5>2
      <4> QED BY <1>7, <4>1, <4>2, <4>3
    <3> QED BY <3>1
  <2>3. S[1].of = Array(<<v>>)
    <3>1. CASE n = 1
      BY <1>4, <1>7, <1>15, <1>18, <1>22, <3>1
    <3>2. CASE n # 1
      <4>1. 1 \in 1..n
        BY <1>2
      <4> QED BY <1>7, <1>22, <3>2, <4>1
    <3> QED BY <3>1, <3>2
  <2> QED BY <1>22, <2>1, <2>2, <2>3 DEF Nested
<1>24. Mirrored(S, T, U)
  <2>1. \A j \in 1..(n - 1) : T[j] = Mirror(S[j], S[j].next - 2)
    <3>1. \A j \in 1..(n - 1) : j \in 1..n /\ j # n
      BY <1>2
    <3>2. \A j \in 1..(n - 1) : S[j] = Z[j]
      BY <1>22, <3>1
    <3> QED BY <1>11, <3>2
  <2>2. T[n] = Mirror(S[n], S[n].next - 1)
    <3>1. f.next = i + 1
      BY <1>14, <1>18
    <3>2. Mirror(f, i) = Seen(f.of, i, i)
      BY <3>1, MirrorSeen
    <3> QED BY <1>4, <1>17, <1>18, <1>22, <3>2
  <2>3. T \in Seq(Readings(U)) /\ Len(T) = Len(S)
    BY <1>1, <1>22 DEF Tower
  <2> QED BY <1>22, <2>1, <2>2, <2>3 DEF Mirrored
<1>25. Z = Append([S EXCEPT ![n] = z], y)
  <2>1. PICK X : X = Frames(U)
    OBVIOUS
  <2>2. PICK P : P = [S EXCEPT ![n] = z]
    OBVIOUS
  <2>3. S \in Seq(X) /\ n \in 1..Len(S) /\ z \in X /\ y \in X /\ Z \in Seq(X)
    BY <1>7, <1>8, <1>9, <1>22, <2>1
  <2>4. P \in Seq(X) /\ Len(P) = Len(S) /\ P[n] = z /\ \A j \in 1..Len(S) : j # n => P[j] = S[j]
    BY <2>2, <2>3, Replaced
  <2>5. \A j \in 1..Len(P) : Z[j] = P[j]
    BY <1>4, <1>22, <2>4
  <2>6. Len(Z) = Len(P) + 1 /\ Z[Len(Z)] = y
    BY <1>3, <1>4, <1>6, <1>22, <2>4
  <2>7. Append(P, y) = Z
    BY <2>3, <2>4, <2>5, <2>6, OneOff
  <2> QED BY <2>2, <2>7
<1>26. Z = Append([S EXCEPT ![n] = Moved(f)], Writing(x))
  BY <1>13, <1>18, <1>25
<1>27. BackBegun(T, Z, S, U, v, n, key, f, x, h, m)
  <2>1. key = KeyOf(f.of, f.next) /\ x = Part(f.of, f.next)
    BY <1>16, <1>17, <1>18
  <2> QED BY <1>13, <1>18, <1>22, <1>23, <1>24, <1>26, <2>1 DEF BackBegun
<1> QED BY <1>27

\* The encoder writes what the decoder is about to read.
LEMMA JoinsBegin ==
  ASSUME NEW w \in Seq(Int), NEW U, U \subseteq Nodes(U), NEW v, NEW d, NEW g, g = DecodeStep(d),
         NEW n, n # 0, NEW key, NEW b, NEW c, NEW h, NEW m,
         Begins(d, g, n, w, key, b, c, h, m), NEW T, T = d.stack, NEW S, NEW Z, NEW f, NEW x,
         BackBegun(T, Z, S, U, v, n, key, f, x, h, m), NEW e, Joins(e, d, S, w, U, v)
  PROVE  Joins(EncodeStep(e), g, Z, w, U, v)
<1>1. /\ Lockstep(e, d, w, U, v) /\ e.stack = S /\ Ahead(w, 0, e.out) /\ Writes(e)
      /\ Runs(d) /\ d.at = Len(e.out) /\ d.content = e.content /\ d.values = e.values
  BY DEF Joins, Lockstep, Stands
<1>2. /\ Nested(S, U, v) /\ Mirrored(S, T, U) /\ Len(S) = n /\ S[n] = f
      /\ f \in Frames(U) /\ ~Ended(f) /\ key = KeyOf(f.of, f.next)
      /\ x = Part(f.of, f.next) /\ x \in Nodes(U) /\ HeadOf(x) = h /\ Len(Parts(x)) = m
      /\ Z = Append([S EXCEPT ![n] = Moved(f)], Writing(x))
  BY DEF BackBegun
<1>3. /\ KeyAt(Top(d), key, w, d.at, d.content, b, c) /\ HeadAt(h, m, w, b, c)
      /\ key \in Texts /\ b \in Nat /\ c \in Nat /\ ~TooDeep(n - 1) /\ d.values < MaxValues
  BY DEF Begins
<1>4. n = Len(e.stack) /\ f = Top(e)
  BY <1>1, <1>2 DEF Top
<1>5. /\ n > 0 /\ n \in Nat /\ Len(T) = n /\ T[n] = Mirror(f, f.next - 1)
      /\ f.next - 1 <= Len(Parts(f.of))
  <2>1. n = Len(S)
    BY <1>2
  <2> QED BY <1>2, <2>1, FramesMatch
<1>6. PICK r, o, i : r = Top(d) /\ o = f.of /\ i = f.next
  OBVIOUS
<1>7. r = Mirror(f, f.next - 1)
  BY <1>5, <1>6 DEF Top
<1>8. r.head = HeadOf(o) /\ r.keys = KeysTo(o, i - 1)
  BY <1>6, <1>7 DEF Mirror
<1>9. i \in 1..Len(Parts(o)) /\ o \in Nodes(U) /\ key = KeyOf(o, i) /\ x = Part(o, i)
  BY <1>2, <1>6, NotEnded
<1>10. PICK k : k = PutKey(e, o, i)
  OBVIOUS
<1>11. /\ Writes(k) /\ k.values = e.values /\ k.stack = e.stack
       /\ Len(k.out) = b /\ k.content = c /\ Ahead(w, 0, k.out)
  <2>1. KeyAt(r, key, w, Len(e.out), e.content, b, c)
    BY <1>1, <1>3, <1>6
  <2>2. Writes(e) /\ Ahead(w, 0, e.out)
    BY <1>1
  <2>3. r.head = HeadOf(o) /\ r.keys = KeysTo(o, i - 1)
    BY <1>8
  <2>4. o \in Nodes(U) /\ i \in 1..Len(Parts(o)) /\ key \in Texts /\ key = KeyOf(o, i)
    BY <1>3, <1>9
  <2>5. KeyThere(e, w, U, o, i, r, key, b, c)
    BY <2>1, <2>2, <2>3, <2>4 DEF KeyThere
  <2>6. KeyIsThere(e, w, k, b, c)
    BY <1>10, <2>5, KeyWritten
  <2> QED BY <2>6 DEF KeyIsThere
<1>12. PICK p : p = Put(k, x, n - 1)
  OBVIOUS
<1>13. Writes(p) /\ Ahead(w, 0, p.out)
  <2>1. HeadAt(h, m, w, Len(k.out), k.content)
    BY <1>3, <1>11
  <2>2. k.values < MaxValues
    BY <1>1, <1>3, <1>11
  <2>3. PICK depth : depth = n - 1
    OBVIOUS
  <2>4. ~TooDeep(depth) /\ p = Put(k, x, depth)
    BY <1>3, <1>12, <2>3
  <2>5. h = HeadOf(x) /\ m = Len(Parts(x)) /\ x \in Nodes(U)
    BY <1>2
  <2> QED BY <1>11, <2>1, <2>2, <2>4, <2>5, ValueWritten
<1>14. PICK q : q = EncodeStep(e)
  OBVIOUS
<1>15. Begun(e, q, k, p, n, f, x)
  <2>1. k = PutKey(e, f.of, f.next) /\ x = Part(f.of, f.next)
    BY <1>2, <1>6, <1>10
  <2>2. Broke(q) \/ Begun(e, q, k, p, n, f, x)
    BY <1>1, <1>2, <1>4, <1>12, <1>14, <2>1, EncodeBegins
  <2>3. PICK s : s = Append(Onward(p.stack, Len(e.stack)), Writing(Part(Top(e).of, Top(e).next)))
    OBVIOUS
  <2>4. p = Put(PutKey(e, Top(e).of, Top(e).next), Part(Top(e).of, Top(e).next), Len(e.stack) - 1)
    BY <1>4, <1>12, <2>1
  <2>5. e.ok
    BY <1>1 DEF Writes
  <2>6. ~Ended(Top(e)) /\ Len(e.stack) # 0
    BY <1>2, <1>4
  <2>7. q = WithStack(p, s)
    BY <1>14, <2>3, <2>4, <2>5, <2>6, BeginsIs
  <2>8. IsEncoder(p) /\ p.ok
    BY <1>13 DEF Writes
  <2>9. q.ok
    BY <2>7, <2>8, Restacked
  <2> QED BY <2>2, <2>9 DEF Broke
<1>16. q.out = p.out /\ q.stack = Z /\ q.ok
  <2>1. q.out = p.out /\ q.stack = Append([e.stack EXCEPT ![n] = Moved(f)], Writing(x)) /\ Writes(q)
    BY <1>15 DEF Begun
  <2>2. q.ok
    BY <2>1 DEF Writes
  <2> QED BY <1>1, <1>2, <2>1, <2>2
<1>17. Lockstep(q, DecodeStep(d), w, U, v)
  <2>1. ~Ended(Top(e)) /\ Len(e.stack) # 0
    BY <1>2, <1>4
  <2>2. Ahead(w, 0, q.out)
    BY <1>13, <1>16
  <2> QED BY <1>1, <1>14, <1>16, <2>1, <2>2, LockstepBegins
<1> QED BY <1>13, <1>14, <1>16, <1>17 DEF Joins

LEMMA BackBegins ==
  ASSUME NEW U, U \subseteq Nodes(U), NEW v, NEW w \in Seq(Int), NEW j \in Nat, NEW d,
         Decodes(d, j, w, U), NEW n, n = Len(d.stack), n # 0, ~(Len(Top(d).parts) = Top(d).need),
         NEW g, g = DecodeStep(d), NEW key, NEW b, NEW c, NEW h, NEW m,
         Begins(d, g, n, w, key, b, c, h, m), NEW Z, Fits(Z, g, U, v)
  PROVE  \E S : /\ Fits(S, d, U, v)
                /\ \A e : Joins(e, d, S, w, U, v) => Joins(EncodeStep(e), g, Z, w, U, v)
<1>1. PICK T, R : T = d.stack /\ R = g.stack
  OBVIOUS
<1>2. Nested(Z, U, v) /\ Mirrored(Z, R, U) /\ Tower(T, U) /\ n = Len(T)
  BY <1>1 DEF Fits, Decodes
<1>3. PartBegins(T, R, n, key, h, m)
  <2>1. KeyAt(Top(d), key, w, d.at, d.content, b, c)
    BY DEF Begins
  <2>2. Top(d) = T[n]
    BY <1>1 DEF Top
  <2>3. T[n].head.kind # "map" => key = <<>>
    BY <2>1, <2>2 DEF KeyAt
  <2>4. HeadAt(h, m, w, b, c)
    BY DEF Begins
  <2>5. IsHead(h, m)
    BY <2>4 DEF HeadAt
  <2>6. key \in Texts /\ R = Append([T EXCEPT ![n] = Keyed(T[n], key)], Reading(h, m))
    BY <1>1 DEF Begins
  <2>7. Len(T[n].parts) # T[n].need
    BY <2>2
  <2> QED BY <1>2, <2>3, <2>5, <2>6, <2>7 DEF PartBegins
<1>4. BeginBack(T, Z, R, U, v, n, key, h, m)
  BY <1>2, <1>3 DEF BeginBack
<1>5. PICK S, f, x : BackBegun(T, Z, S, U, v, n, key, f, x, h, m)
  <2>1. \E S, f, x : BackBegun(T, Z, S, U, v, n, key, f, x, h, m)
    BY <1>4, FramesBegin
  <2> QED BY <2>1
<1>6. Fits(S, d, U, v)
  <2>1. Nested(S, U, v) /\ Mirrored(S, T, U)
    BY <1>5 DEF BackBegun
  <2>2. Len(d.stack) = 0 => d.got = Array(<<v>>)
    OBVIOUS
  <2> QED BY <1>1, <2>1, <2>2 DEF Fits
<1>7. ASSUME NEW e, Joins(e, d, S, w, U, v) PROVE Joins(EncodeStep(e), g, Z, w, U, v)
  BY <1>1, <1>5, <1>7, JoinsBegin
<1> QED BY <1>6, <1>7

\* Back by one step, whatever the step was.
LEMMA BackOne ==
  ASSUME NEW U, U \subseteq Nodes(U), NEW v, NEW w \in Seq(Int), NEW k \in Nat, NEW d,
         Decodes(d, k, w, U), NEW g, g = DecodeStep(d), g.ok, NEW Z, Fits(Z, g, U, v)
  PROVE  \E S : /\ Fits(S, d, U, v)
                /\ \A e : Joins(e, d, S, w, U, v) => Joins(EncodeStep(e), g, Z, w, U, v)
<1>1. PICK n : n = Len(d.stack)
  OBVIOUS
<1>2. CASE n = 0
  <2>1. g = d
    BY <1>1, <1>2, DecodeStays
  <2>2. Fits(Z, d, U, v)
    BY <2>1
  <2>3. ASSUME NEW e, Joins(e, d, Z, w, U, v) PROVE Joins(EncodeStep(e), g, Z, w, U, v)
    <3>1. e.stack = Z /\ Mirrored(e.stack, d.stack, U)
      BY <2>3 DEF Joins, Lockstep
    <3>2. Len(e.stack) = 0
      BY <1>1, <1>2, <3>1 DEF Mirrored
    <3>3. EncodeStep(e) = e
      BY <3>2, EncodeStays
    <3> QED BY <2>1, <2>3, <3>3
  <2> QED BY <2>2, <2>3
<1>3. CASE n # 0 /\ Len(Top(d).parts) = Top(d).need
  BY <1>1, <1>3, BackEnds
<1>4. CASE n # 0 /\ ~(Len(Top(d).parts) = Top(d).need)
  <2>1. Runs(d) /\ d.in = w
    BY DEF Decodes
  <2>2. Dead(g) \/ \E key, b, c, h, m : Begins(d, g, n, w, key, b, c, h, m)
    BY <1>1, <1>4, <2>1, StepFound
  <2>3. ~Dead(g)
    BY DEF Dead
  <2>4. PICK key, b, c, h, m : Begins(d, g, n, w, key, b, c, h, m)
    BY <2>2, <2>3
  <2> QED BY <1>1, <1>4, <2>4, BackBegins
<1> QED BY <1>2, <1>3, <1>4

\* From k steps on, the encoder of v does what the decoder has done.
BackTo(w, U, v, last, k) ==
  \E S : /\ Fits(S, Decoding(w)[k], U, v)
         /\ Joins(Encoding(v)[k], Decoding(w)[k], S, w, U, v) =>
              Joins(Encoding(v)[last], Decoding(w)[last], <<>>, w, U, v)

LEMMA BackOnce ==
  ASSUME NEW w \in Seq(Int), NEW U, NEW v, NEW last \in Nat, Traced(Decoding(w), last, w, U),
         NEW k \in Nat, k < last, BackTo(w, U, v, last, k + 1)
  PROVE  BackTo(w, U, v, last, k)
<1>1. PICK e, d, f, g : /\ e = Encoding(v)[k] /\ d = Decoding(w)[k]
                        /\ f = Encoding(v)[k + 1] /\ g = Decoding(w)[k + 1]
  OBVIOUS
<1>2. f = EncodeStep(e) /\ g = DecodeStep(d)
  BY <1>1, EncodingIs, DecodingIs
<1>3. U \subseteq Nodes(U) /\ Decodes(d, k, w, U) /\ g.ok
  <2>1. k \in 0..last /\ k + 1 \in 0..last
    OBVIOUS
  <2>2. U \subseteq Nodes(U) /\ Decodes(d, k, w, U) /\ Decodes(g, k + 1, w, U)
    BY <1>1, <2>1 DEF Traced
  <2> QED BY <2>2 DEF Decodes, Runs
<1>4. PICK Z : /\ Fits(Z, g, U, v)
               /\ Joins(f, g, Z, w, U, v) =>
                    Joins(Encoding(v)[last], Decoding(w)[last], <<>>, w, U, v)
  BY <1>1 DEF BackTo
<1>5. PICK S : /\ Fits(S, d, U, v)
               /\ \A x : Joins(x, d, S, w, U, v) => Joins(EncodeStep(x), g, Z, w, U, v)
  BY <1>2, <1>3, <1>4, BackOne
<1>6. Joins(e, d, S, w, U, v) => Joins(f, g, Z, w, U, v)
  BY <1>2, <1>5
<1> QED BY <1>1, <1>4, <1>5, <1>6 DEF BackTo

LEMMA BackToFirst ==
  ASSUME NEW w \in Seq(Int), NEW U, NEW v, NEW last \in Nat, Traced(Decoding(w), last, w, U),
         Fits(<<>>, Decoding(w)[last], U, v)
  PROVE  BackTo(w, U, v, last, 0)
<1> DEFINE S == {i \in Nat : i <= last => BackTo(w, U, v, last, last - i)}
<1>1. 0 \in S
  <2>1. BackTo(w, U, v, last, last)
    BY DEF BackTo
  <2>2. last - 0 = last
    OBVIOUS
  <2> QED BY <2>1, <2>2
<1>2. ASSUME NEW i \in S PROVE i + 1 \in S
  <2>1. i \in Nat /\ i + 1 \in Nat
    OBVIOUS
  <2>2. ASSUME i + 1 <= last PROVE BackTo(w, U, v, last, last - (i + 1))
    <3>1. PICK k \in Nat : k = last - (i + 1)
      BY <2>1, <2>2
    <3>2. k + 1 = last - i /\ k < last /\ i <= last
      BY <2>1, <2>2, <3>1
    <3>3. BackTo(w, U, v, last, last - i)
      BY <3>2
    <3>4. BackTo(w, U, v, last, k + 1)
      BY <3>2, <3>3
    <3>5. BackTo(w, U, v, last, k)
      BY <3>2, <3>4, BackOnce
    <3> QED BY <3>1, <3>5
  <2> QED BY <2>1, <2>2
<1>3. S = Nat
  <2> HIDE DEF S
  <2>1. S \in SUBSET Nat
    BY DEF S
  <2> QED BY <1>1, <1>2, <2>1, Induction
<1>4. last <= last /\ last - last = 0
  OBVIOUS
<1>5. last \in S
  BY <1>3, Zenon
<1>6. BackTo(w, U, v, last, last - last)
  BY <1>4, <1>5
<1> QED BY <1>4, <1>6

\* In front of everything, the encoder of v is where it begins.
LEMMA BackAtFirst ==
  ASSUME NEW w \in Seq(Int), NEW U, NEW v, NEW S, Fits(S, NewDecoder(w), U, v)
  PROVE  S = NewEncoder(v).stack
<1>1. PICK T, h : h = [kind |-> "array"] /\ T = <<Reading(h, 1)>>
  OBVIOUS
<1>2. NewDecoder(w).stack = T /\ Len(T) = 1 /\ T[1] = Reading(h, 1)
  BY <1>1 DEF NewDecoder
<1>3. Nested(S, U, v) /\ Mirrored(S, T, U)
  BY <1>2 DEF Fits
<1>4. Len(S) = 1
  BY <1>2, <1>3 DEF Mirrored
<1>5. PICK f : f = S[1]
  OBVIOUS
<1>6. f \in Frames(U) /\ f.next - 1 <= Len(Parts(f.of)) /\ T[1] = Mirror(f, f.next - 1)
  <2>1. PICK n : n = 1
    OBVIOUS
  <2>2. n = Len(S) /\ n # 0
    BY <1>4, <2>1
  <2>3. /\ S[n] \in Frames(U) /\ S[n].next - 1 <= Len(Parts(S[n].of))
        /\ T[n] = Mirror(S[n], S[n].next - 1)
    BY <1>3, <2>2, FramesMatch
  <2> QED BY <1>5, <2>1, <2>3
<1>7. f.of = Array(<<v>>) /\ S \in Seq(Frames(U))
  BY <1>3, <1>4, <1>5 DEF Nested
<1>8. PICK k \in Nat : k = f.next - 1 /\ f.next = k + 1
  BY <1>6, FrameIs
<1>9. f.of \in Nodes(U) /\ f = [of |-> f.of, next |-> f.next]
  BY <1>6, FrameIs
<1>10. Reading(h, 1) = Seen(f.of, k, k)
  BY <1>2, <1>6, <1>8, MirrorSeen
<1>11. k = 0
  BY <1>6, <1>8, <1>9, <1>10, ReadBack
<1>12. f = Writing(Array(<<v>>))
  BY <1>7, <1>8, <1>9, <1>11 DEF Writing
<1>13. S = <<f>>
  <2>1. PICK X : X = Frames(U)
    OBVIOUS
  <2>2. S \in Seq(X) /\ <<f>> \in Seq(X) /\ Len(<<f>>) = 1 /\ <<f>>[1] = f
    BY <1>6, <1>7, <2>1
  <2>3. \A i \in 1..Len(S) : S[i] = <<f>>[i]
    BY <1>4, <1>5, <2>2
  <2> QED BY <1>4, <2>2, <2>3, SeqEqual
<1> QED BY <1>12, <1>13 DEF NewEncoder

\* Nothing follows what was written, and it was all there.
LEMMA WrittenInFull ==
  ASSUME NEW w \in Seq(Int), NEW o \in Seq(Int), Ahead(w, 0, o), Len(o) = Len(w)
  PROVE  o = w
<1>1. \A i \in 1..Len(o) : o[i] = w[i]
  <2>1. ASSUME NEW i \in 1..Len(o) PROVE o[i] = w[i]
    <3>1. w[0 + i] = o[i]
      BY DEF Ahead
    <3>2. 0 + i = i
      OBVIOUS
    <3> QED BY <3>1, <3>2
  <2> QED BY <2>1
<1> QED BY <1>1, SeqEqual

\* The decoder at its end.
LEMMA DecodesInFull ==
  ASSUME NEW w \in Seq(Int), NEW U, NEW d, Decodes(d, Steps, w, U)
  PROVE  d.stack = <<>> /\ \E v \in U : d.got = Array(<<v>>)
<1>1. PICK n : n = Len(d.stack)
  OBVIOUS
<1>2. d.stack \in Seq(Readings(U)) /\ d.values \in Nat /\ d.values <= MaxValues
  BY DEF Decodes, Tower, Runs
<1>3. n \in Nat
  BY <1>1, <1>2
<1>4. n = 0
  <2>1. ASSUME n # 0 PROVE FALSE
    <3>1. Steps + n = 2 * d.values + 1
      BY <1>1, <2>1 DEF Decodes
    <3>2. PICK m \in Nat, x \in Nat : m = MaxValues /\ x = d.values
      BY <1>2, LimitsAssumption
    <3>3. (2 * m + 1) + n = 2 * x + 1 /\ x <= m
      BY <1>2, <3>1, <3>2 DEF Steps
    <3>4. n <= 0
      BY <1>3, <3>3
    <3> QED BY <1>3, <2>1, <3>4
  <2> QED BY <2>1
<1>5. d.stack = <<>>
  <2>1. PICK X, s : X = Readings(U) /\ s = d.stack
    OBVIOUS
  <2>2. s \in Seq(X) /\ Len(s) = 0
    BY <1>1, <1>2, <1>4, <2>1
  <2>3. s = <<>>
    BY <2>2, EmptySeq
  <2> QED BY <2>1, <2>3
<1>6. \E v \in U : d.got = Array(<<v>>)
  BY <1>1, <1>4 DEF Decodes
<1> QED BY <1>5, <1>6

\* Whatever stands on the wire: if the decoder accepts it, it is what the
\* encoder writes for what the decoder has made of it.
LEMMA WritesItAgain ==
  ASSUME NEW w \in Seq(Int), Complete(Decode(w))
  PROVE  Encode(Decoded(w)).ok /\ Encode(Decoded(w)).out = w
<1>1. PICK d : d = Decoding(w)[Steps]
  OBVIOUS
<1>2. d.ok /\ d.at = Len(d.in) /\ Steps \in Nat /\ Decoded(w) = d.got.items[1]
  <2>1. MaxValues \in Nat
    BY LimitsAssumption
  <2>2. Steps \in Nat
    BY <2>1 DEF Steps
  <2> QED BY <1>1, <2>2 DEF Complete, Decode, Decoded
<1>3. PICK U : Traced(Decoding(w), Steps, w, U)
  BY <1>1, <1>2, Tracing
<1>4. U \subseteq Nodes(U) /\ Decodes(d, Steps, w, U)
  <2>1. Steps \in 0..Steps
    BY <1>2
  <2> QED BY <1>1, <1>3, <2>1 DEF Traced
<1>5. d.stack = <<>> /\ \E v \in U : d.got = Array(<<v>>)
  BY <1>4, DecodesInFull
<1>6. PICK v \in U : d.got = Array(<<v>>)
  BY <1>5
<1>7. Decoded(w) = v
  BY <1>2, <1>6 DEF Array
<1>8. Fits(<<>>, d, U, v)
  <2>1. Nested(<<>>, U, v)
    BY DEF Nested
  <2>2. Mirrored(<<>>, <<>>, U)
    BY DEF Mirrored
  <2> QED BY <1>5, <1>6, <2>1, <2>2 DEF Fits
<1>9. BackTo(w, U, v, Steps, 0)
  BY <1>1, <1>2, <1>3, <1>8, BackToFirst
<1>10. PICK e, a, b : e = Encoding(v)[Steps] /\ a = NewEncoder(v) /\ b = NewDecoder(w)
  OBVIOUS
<1>11. PICK S : Fits(S, b, U, v) /\ (Joins(a, b, S, w, U, v) => Joins(e, d, <<>>, w, U, v))
  <2>1. Encoding(v)[0] = a /\ Decoding(w)[0] = b
    BY <1>10, EncodingIs, DecodingIs
  <2> QED BY <1>1, <1>9, <1>10, <2>1 DEF BackTo
<1>12. Joins(a, b, S, w, U, v)
  <2>1. S = a.stack
    BY <1>10, <1>11, BackAtFirst
  <2>2. Lockstep(a, b, w, U, v)
    BY <1>4, <1>10, NewLockstep
  <2>3. a.out = <<>>
    BY <1>10 DEF NewEncoder
  <2>4. Ahead(w, 0, <<>>)
    BY DEF Ahead
  <2> QED BY <2>1, <2>2, <2>3, <2>4 DEF Joins
<1>13. Writes(e) /\ Stands(d, w, Len(e.out), e.content) /\ Ahead(w, 0, e.out)
  BY <1>11, <1>12 DEF Joins, Lockstep
<1>14. e.ok /\ e.out \in Seq(Int) /\ Len(e.out) = Len(w)
  BY <1>2, <1>13 DEF Writes, Stands
<1>15. e.out = w
  BY <1>13, <1>14, WrittenInFull
<1>16. Encode(v) = e
  BY <1>10 DEF Encode
<1> QED BY <1>7, <1>14, <1>15, <1>16

\* An edit leaves atoms on the wire.
LEMMA EditsAre ==
  ASSUME NEW w \in Seq(Int), NEW u \in Edits(w)
  PROVE  u \in Seq(Int)
<1>1. Atoms \subseteq Int
  BY LimitsAssumption
<1>2. CASE \E i \in 1..Len(w), a \in Atoms : u = ReplaceAt(w, i, a)
  <2>1. PICK i \in 1..Len(w), a \in Int : u = ReplaceAt(w, i, a)
    BY <1>1, <1>2
  <2> QED BY <2>1 DEF ReplaceAt
<1>3. CASE \E i \in 1..Len(w) : u = RemoveAt(w, i)
  <2>1. PICK i \in 1..Len(w) : u = RemoveAt(w, i)
    BY <1>3
  <2>2. i - 1 \in Nat /\ i - 1 <= Len(w) /\ i + 1 \in Nat /\ Len(w) \in Nat
    OBVIOUS
  <2>3. SubSeq(w, 1, i - 1) \in Seq(Int)
    BY <2>2
  <2>4. SubSeq(w, i + 1, Len(w)) \in Seq(Int)
    BY SubSeqProperties
  <2>5. SubSeq(w, 1, i - 1) \o SubSeq(w, i + 1, Len(w)) \in Seq(Int)
    BY <2>3, <2>4
  <2> QED BY <2>1, <2>5 DEF RemoveAt
<1>4. CASE \E i \in 1..(Len(w) + 1), a \in Atoms : u = InsertAt(w, i, a)
  <2>1. PICK i \in 1..(Len(w) + 1), a \in Int : u = InsertAt(w, i, a)
    BY <1>1, <1>4
  <2>2. i - 1 \in Nat /\ i - 1 <= Len(w) /\ i \in Nat /\ i > 0 /\ Len(w) \in Nat
    OBVIOUS
  <2>3. SubSeq(w, 1, i - 1) \in Seq(Int) /\ SubSeq(w, i, Len(w)) \in Seq(Int) /\ <<a>> \in Seq(Int)
    BY <2>2
  <2>4. (SubSeq(w, 1, i - 1) \o <<a>>) \o SubSeq(w, i, Len(w)) \in Seq(Int)
    BY <2>3
  <2> QED BY <2>1, <2>4 DEF InsertAt
<1> QED BY <1>2, <1>3, <1>4 DEF Edits

\* The inductive invariant: atoms stand on the wire, whatever came of it.
OnTheWire == value \in Values /\ wire \in Seq(Int) /\ Canonical

LEMMA InitOnTheWire == Init => OnTheWire
  BY DEF Init, OnTheWire, Canonical

LEMMA NextOnTheWire == OnTheWire /\ [Next]_vars => OnTheWire'
<1> SUFFICES ASSUME OnTheWire, [Next]_vars PROVE OnTheWire'
  OBVIOUS
<1>1. Values \subseteq Nodes(Values)
  BY LimitsAssumption
<1>2. CASE Send
  <2>1. PICK e : e = Encode(value)
    OBVIOUS
  <2>2. wire' = (IF e.ok THEN e.out ELSE <<>>) /\ stage' = (IF e.ok THEN "sent" ELSE "refused")
        /\ value' = value
    BY <1>2, <2>1 DEF Send
  <2>3. value \in Values
    BY DEF OnTheWire
  <2>4. e.ok => e.out \in Seq(Int)
    BY <1>1, <2>1, <2>3, Arrives
  <2>5. wire' \in Seq(Int) /\ stage' # "accepted"
    BY <2>2, <2>4
  <2> QED BY <2>2, <2>3, <2>5 DEF OnTheWire, Canonical
<1>3. CASE Damage
  <2>1. wire' \in Edits(wire) /\ stage' = "damaged" /\ value' = value
    BY <1>3 DEF Damage
  <2>2. wire' \in Seq(Int)
    BY <2>1, EditsAre DEF OnTheWire
  <2> QED BY <2>1, <2>2 DEF OnTheWire, Canonical
<1>4. CASE Receive
  <2>1. value' = value /\ wire' = wire
    BY <1>4 DEF Receive
  <2>2. CASE stage' # "accepted"
    BY <2>1, <2>2 DEF OnTheWire, Canonical
  <2>3. CASE stage' = "accepted"
    <3>1. Complete(Decode(wire)) /\ got' = Decoded(wire)
      BY <1>4, <2>3 DEF Receive
    <3>2. Encode(Decoded(wire)).ok /\ Encode(Decoded(wire)).out = wire
      BY <3>1, WritesItAgain DEF OnTheWire
    <3>3. Encode(got').ok /\ Encode(got').out = wire'
      BY <2>1, <3>1, <3>2
    <3>4. Canonical'
      BY <3>3 DEF Canonical
    <3> QED BY <2>1, <3>4 DEF OnTheWire
  <2> QED BY <2>2, <2>3
<1>5. CASE UNCHANGED vars
  BY <1>5 DEF vars, OnTheWire, Canonical
<1> QED BY <1>2, <1>3, <1>4, <1>5 DEF Next

\* A value has one encoding, whatever the limits and whatever was done to the
\* wire: from_wire() accepts only what to_wire() writes for the value it found.
THEOREM AcceptsItsOwn == Spec => []Canonical
<1>1. OnTheWire => Canonical
  BY DEF OnTheWire
<1> QED BY <1>1, InitOnTheWire, NextOnTheWire, PTL DEF Spec

-----------------------------------------------------------------------------
\* The places in a value.

\* The values on the way from v along p, up to the n-th.
WayTo(f, v, p, n) ==
  /\ f = [m \in 0..n |-> f[m]] /\ f[0] = v
  /\ \A m \in 1..n : f[m] = Part(f[m - 1], p[m])
Way(f, v, p) == WayTo(f, v, p, Len(p))
EndOf(f, p) == f[Len(p)]

LEMMA WaysOn ==
  ASSUME NEW v, NEW p \in Seq(Nat)
  PROVE  \E f : Way(f, v, p)
<1> DEFINE S == {k \in Nat : \E f : WayTo(f, v, p, k)}
<1>1. 0 \in S
  <2>1. PICK f : f = [m \in 0..0 |-> v]
    OBVIOUS
  <2>2. WayTo(f, v, p, 0)
    BY <2>1 DEF WayTo
  <2> QED BY <2>2
<1>2. ASSUME NEW k \in S PROVE k + 1 \in S
  <2>1. PICK f : WayTo(f, v, p, k)
    OBVIOUS
  <2>2. f[0] = v /\ \A m \in 1..k : f[m] = Part(f[m - 1], p[m])
    BY <2>1 DEF WayTo
  <2>3. PICK g : g = [m \in 0..(k + 1) |-> IF m <= k THEN f[m] ELSE Part(f[k], p[k + 1])]
    OBVIOUS
  <2>4. g = [m \in 0..(k + 1) |-> g[m]]
    BY <2>3
  <2>5. g[0] = v
    BY <2>2, <2>3
  <2>6. ASSUME NEW m \in 1..(k + 1) PROVE g[m] = Part(g[m - 1], p[m])
    <3>1. m - 1 \in 0..(k + 1) /\ m - 1 <= k /\ g[m - 1] = f[m - 1]
      BY <2>3
    <3>2. CASE m = k + 1
      BY <2>3, <3>1, <3>2
    <3>3. CASE m \in 1..k
      BY <2>2, <2>3, <3>1, <3>3
    <3> QED BY <3>2, <3>3
  <2>7. WayTo(g, v, p, k + 1)
    BY <2>4, <2>5, <2>6 DEF WayTo
  <2> QED BY <2>7
<1>3. S \in SUBSET Nat
  OBVIOUS
<1> HIDE DEF S
<1>4. S = Nat
  BY <1>1, <1>2, <1>3, Induction
<1>5. Len(p) \in S
  BY <1>4
<1> QED BY <1>5 DEF S, Way

LEMMA AtIs ==
  ASSUME NEW v, NEW p \in Seq(Nat)
  PROVE  \E f : Way(f, v, p) /\ At(v, p) = EndOf(f, p)
<1>1. PICK n \in Nat : n = Len(p)
  OBVIOUS
<1> DEFINE Down(f) == f = [m \in 0..n |-> IF m = 0 THEN v ELSE Part(f[m - 1], p[m])]
<1>2. PICK f : Way(f, v, p)
  BY WaysOn
<1>3. Down(f)
  <2>1. f[0] = v /\ \A m \in 1..n : f[m] = Part(f[m - 1], p[m])
    BY <1>1, <1>2 DEF Way, WayTo
  <2>2. \A m \in 0..n : f[m] = IF m = 0 THEN v ELSE Part(f[m - 1], p[m])
    BY <2>1
  <2>3. f = [m \in 0..n |-> f[m]]
    BY <1>1, <1>2 DEF Way, WayTo
  <2> QED BY <2>2, <2>3
<1>4. PICK h : h = CHOOSE g : Down(g)
  OBVIOUS
<1>5. Down(h)
  <2> HIDE DEF Down
  <2> QED BY <1>3, <1>4
<1>6. At(v, p) = h[n]
  BY <1>1, <1>4 DEF At
<1>7. \A m \in 0..n : h[m] = IF m = 0 THEN v ELSE Part(h[m - 1], p[m])
  BY <1>5
<1>8. DOMAIN h = 0..n /\ h = [m \in DOMAIN h |-> h[m]]
  BY <1>5
<1>9. h = [m \in 0..n |-> h[m]]
  BY <1>8
<1>10. h[0] = v /\ \A m \in 1..n : h[m] = Part(h[m - 1], p[m])
  BY <1>7
<1>11. Way(h, v, p)
  BY <1>1, <1>9, <1>10 DEF Way, WayTo
<1>12. At(v, p) = EndOf(h, p)
  BY <1>1, <1>6 DEF EndOf
<1> QED BY <1>11, <1>12

\* Where the way ends, and one step further.
LEMMA AtOnce ==
  ASSUME NEW v
  PROVE  At(v, <<>>) = v
<1>1. <<>> \in Seq(Nat)
  OBVIOUS
<1>2. PICK p : p = <<>>
  OBVIOUS
<1>3. PICK f : Way(f, v, p) /\ At(v, p) = EndOf(f, p)
  BY <1>1, <1>2, AtIs
<1>4. Len(p) = 0
  BY <1>2
<1>5. f[0] = v
  BY <1>3 DEF Way, WayTo
<1> QED BY <1>2, <1>3, <1>4, <1>5 DEF EndOf

Onto(p, i, q) == p \in Seq(Nat) /\ i \in Nat /\ q = Append(p, i)

LEMMA AtNext ==
  ASSUME NEW v, NEW p, NEW i, NEW q, Onto(p, i, q)
  PROVE  q \in Seq(Nat) /\ At(v, q) = Part(At(v, p), i)
<1>1. q \in Seq(Nat) /\ p \in Seq(Nat) /\ i \in Nat /\ q = Append(p, i)
  BY DEF Onto
<1>2. PICK f : Way(f, v, p) /\ At(v, p) = EndOf(f, p)
  BY <1>1, AtIs
<1>3. PICK g : Way(g, v, q) /\ At(v, q) = EndOf(g, q)
  BY <1>1, AtIs
<1>4. EndOf(g, q) = Part(EndOf(f, p), i)
  <2>1. PICK n \in Nat : n = Len(p)
    BY <1>1
  <2>2. Len(q) = n + 1 /\ q[n + 1] = i /\ \A k \in 1..n : q[k] = p[k]
    BY <1>1, <2>1
  <2>3. f[0] = v /\ \A k \in 1..n : f[k] = Part(f[k - 1], p[k])
    BY <1>2, <2>1 DEF Way, WayTo
  <2>4. g[0] = v /\ \A k \in 1..(n + 1) : g[k] = Part(g[k - 1], q[k])
    BY <1>3, <2>2 DEF Way, WayTo
  <2> DEFINE S == {k \in Nat : k <= n => f[k] = g[k]}
  <2>5. 0 \in S
    BY <2>3, <2>4
  <2>6. ASSUME NEW k \in S PROVE k + 1 \in S
    <3> SUFFICES ASSUME k + 1 <= n PROVE f[k + 1] = g[k + 1]
      OBVIOUS
    <3>1. k + 1 \in 1..n /\ k + 1 \in 1..(n + 1) /\ (k + 1) - 1 = k /\ f[k] = g[k]
      OBVIOUS
    <3> QED BY <2>2, <2>3, <2>4, <3>1
  <2>7. S \in SUBSET Nat
    OBVIOUS
  <2> HIDE DEF S
  <2>8. S = Nat
    BY <2>5, <2>6, <2>7, Induction
  <2>9. f[n] = g[n]
    BY <2>8 DEF S
  <2>10. n + 1 \in 1..(n + 1) /\ (n + 1) - 1 = n
    OBVIOUS
  <2>11. g[n + 1] = Part(g[n], i)
    BY <2>2, <2>4, <2>10
  <2> QED BY <2>1, <2>2, <2>9, <2>11 DEF EndOf
<1> QED BY <1>1, <1>2, <1>3, <1>4

\* p leads to a value inside of v, or to v.
Leads(v, p) == p \in Seq(Nat) /\ p \in Level(v)[Len(p)]

\* q is one part further than p.
Further(v, p, i, q) == i \in 1..Len(Parts(At(v, p))) /\ q = Append(p, i)

LEMMA LevelAre ==
  ASSUME NEW U, U \subseteq Nodes(U), NEW v \in U, NEW n \in Nat, NEW p \in Level(v)[n]
  PROVE  p \in Seq(Nat) /\ Len(p) = n /\ At(v, p) \in U
<1> DEFINE Sound1(m) == \A q \in Level(v)[m] : q \in Seq(Nat) /\ Len(q) = m /\ At(v, q) \in U
           S == {m \in Nat : Sound1(m)}
<1>1. 0 \in S
  <2>1. Level(v)[0] = {<<>>}
    BY LevelIs
  <2>2. ASSUME NEW q \in Level(v)[0] PROVE q \in Seq(Nat) /\ Len(q) = 0 /\ At(v, q) \in U
    <3>1. q = <<>>
      BY <2>1
    <3>2. At(v, q) = v
      BY <3>1, AtOnce
    <3> QED BY <3>1, <3>2
  <2> QED BY <2>2
<1>2. ASSUME NEW m \in S PROVE m + 1 \in S
  <2>1. Level(v)[m + 1] = Deeper(v, Level(v)[m])
    BY LevelIs
  <2>2. ASSUME NEW q \in Level(v)[m + 1]
        PROVE  q \in Seq(Nat) /\ Len(q) = m + 1 /\ At(v, q) \in U
    <3>1. PICK r \in Level(v)[m] : q \in {Append(r, i) : i \in 1..Len(Parts(At(v, r)))}
      BY <2>1, <2>2 DEF Deeper
    <3>2. PICK x \in Nodes(U) : x = At(v, r)
      BY <1>2
    <3>3. PICK i \in 1..Len(Parts(x)) : q = Append(r, i)
      BY <3>1, <3>2
    <3>4. Len(Parts(x)) \in Nat /\ Part(x, i) \in U
      BY <3>2, PartsAre
    <3>5. r \in Seq(Nat) /\ Len(r) = m
      BY <1>2
    <3>6. PICK k \in Nat : k = i
      BY <3>4
    <3>7. q = Append(r, k)
      BY <3>3, <3>6
    <3>8. Onto(r, i, q)
      BY <3>3, <3>5, <3>6 DEF Onto
    <3>9. At(v, q) = Part(At(v, r), i)
      BY <3>8, AtNext
    <3> QED BY <3>2, <3>4, <3>5, <3>6, <3>7, <3>9
  <2> QED BY <2>2
<1>3. S \in SUBSET Nat
  OBVIOUS
<1> HIDE DEF S
<1>4. S = Nat
  BY <1>1, <1>2, <1>3, Induction
<1> QED BY <1>4 DEF S

LEMMA LeadsIs ==
  ASSUME NEW U, U \subseteq Nodes(U), NEW v \in U, NEW p, Leads(v, p)
  PROVE  /\ p \in Seq(Nat) /\ At(v, p) \in U /\ At(v, p) \in Nodes(U)
         /\ Len(Parts(At(v, p))) \in Nat
<1>1. PICK n \in Nat : n = Len(p)
  BY DEF Leads
<1>2. p \in Seq(Nat) /\ At(v, p) \in U
  BY <1>1, LevelAre DEF Leads
<1>3. PICK x \in Nodes(U) : x = At(v, p)
  BY <1>2
<1>4. Len(Parts(x)) \in Nat
  BY PartsAre
<1> QED BY <1>2, <1>3, <1>4

LEMMA LeadsFirst ==
  ASSUME NEW v
  PROVE  Leads(v, <<>>)
  BY LevelIs DEF Leads

LEMMA LeadsNext ==
  ASSUME NEW U, U \subseteq Nodes(U), NEW v \in U, NEW p, Leads(v, p),
         NEW i, NEW q, Further(v, p, i, q)
  PROVE  /\ Leads(v, q) /\ Len(q) = Len(p) + 1
         /\ At(v, q) = Part(At(v, p), i) /\ At(v, q) \in U
<1>1. p \in Seq(Nat) /\ Len(Parts(At(v, p))) \in Nat
  BY LeadsIs
<1>2. PICK n \in Nat : n = Len(p)
  BY <1>1
<1>3. PICK k \in Nat : k = i
  BY <1>1 DEF Further
<1>4. q = Append(p, k) /\ k \in 1..Len(Parts(At(v, p)))
  BY <1>3 DEF Further
<1>5. q \in Seq(Nat) /\ Len(q) = n + 1
  BY <1>1, <1>2, <1>4
<1>6. At(v, q) = Part(At(v, p), i)
  <2>1. Onto(p, i, q)
    BY <1>1, <1>3, <1>4 DEF Onto
  <2> QED BY <2>1, AtNext
<1>7. q \in Deeper(v, Level(v)[n])
  <2>1. q \in {Append(p, j) : j \in 1..Len(Parts(At(v, p)))}
    BY <1>4
  <2>2. p \in Level(v)[n]
    BY <1>2 DEF Leads
  <2> QED BY <2>1, <2>2 DEF Deeper
<1>8. q \in Level(v)[n + 1]
  BY <1>7, LevelIs
<1>9. Leads(v, q)
  BY <1>5, <1>8 DEF Leads
<1>10. At(v, q) \in U
  BY <1>9, LeadsIs
<1> QED BY <1>2, <1>3, <1>5, <1>6, <1>9, <1>10

LEMMA PlacesAre ==
  ASSUME NEW U, U \subseteq Nodes(U), NEW v \in U, NEW p
  PROVE  p \in Places(v) <=> Leads(v, p) /\ Len(p) <= MaxDepth + 1
<1>1. MaxDepth \in Nat
  BY LimitsAssumption
<1>2. ASSUME p \in Places(v) PROVE Leads(v, p) /\ Len(p) <= MaxDepth + 1
  <2>1. PICK n \in 0..(MaxDepth + 1) : p \in Level(v)[n]
    BY <1>2 DEF Places
  <2>2. n \in Nat
    BY <1>1
  <2>3. p \in Seq(Nat) /\ Len(p) = n
    BY <2>1, <2>2, LevelAre
  <2> QED BY <1>1, <2>1, <2>3 DEF Leads
<1>3. ASSUME Leads(v, p), Len(p) <= MaxDepth + 1 PROVE p \in Places(v)
  <2>1. Len(p) \in 0..(MaxDepth + 1)
    BY <1>1, <1>3 DEF Leads
  <2> QED BY <1>3, <2>1 DEF Leads, Places
<1> QED BY <1>2, <1>3

\* v, and with every value its parts.
Closed(v, P) == <<>> \in P /\ \A p \in P : \A i \in 1..Len(Parts(At(v, p))) : Append(p, i) \in P

LEMMA ClosedIs ==
  ASSUME NEW v, NEW P, Closed(v, P)
  PROVE  Places(v) \subseteq P
<1> DEFINE S == {m \in Nat : Level(v)[m] \subseteq P}
<1>1. 0 \in S
  BY LevelIs DEF Closed
<1>2. ASSUME NEW m \in S PROVE m + 1 \in S
  <2>1. Level(v)[m + 1] = Deeper(v, Level(v)[m])
    BY LevelIs
  <2>2. ASSUME NEW q \in Deeper(v, Level(v)[m]) PROVE q \in P
    <3>1. PICK r \in Level(v)[m] : q \in {Append(r, i) : i \in 1..Len(Parts(At(v, r)))}
      BY DEF Deeper
    <3> QED BY <1>2, <3>1 DEF Closed
  <2> QED BY <2>1, <2>2
<1>3. S \in SUBSET Nat
  OBVIOUS
<1> HIDE DEF S
<1>4. S = Nat
  BY <1>1, <1>2, <1>3, Induction
<1>5. \A n \in 0..(MaxDepth + 1) : n \in Nat
  BY LimitsAssumption
<1> QED BY <1>4, <1>5 DEF S, Places

-----------------------------------------------------------------------------
\* The places in a value, and its bytes of content, are finitely many.

LEMMA Images ==
  ASSUME NEW X, IsFiniteSet(X), NEW f, NEW T, T = {f[x] : x \in X}
  PROVE  IsFiniteSet(T)
<1>1. PICK g : g = [x \in X |-> f[x]]
  OBVIOUS
<1>2. g \in [X -> T] /\ \A t \in T : \E x \in X : g[x] = t
  BY <1>1
<1>3. g \in Surjection(X, T)
  BY <1>2 DEF Surjection
<1> QED BY <1>3, FS_Surjection

LEMMA Numbered ==
  ASSUME NEW n \in Nat, NEW f, NEW T, T = {f[i] : i \in 1..n}
  PROVE  /\ IsFiniteSet(T)
         /\ (\A i, j \in 1..n : f[i] = f[j] => i = j) => Cardinality(T) = n
<1>1. PICK X : X = 1..n
  OBVIOUS
<1>2. IsFiniteSet(X) /\ Cardinality(X) = n
  <2>1. 1 \in Int /\ n \in Int /\ (IF 1 > n THEN 0 ELSE n - 1 + 1) = n
    OBVIOUS
  <2> QED BY <1>1, <2>1, FS_Interval
<1>3. PICK g : g = [x \in X |-> f[x]]
  OBVIOUS
<1>4. g \in [X -> T] /\ \A t \in T : \E x \in X : g[x] = t
  BY <1>1, <1>3
<1>5. g \in Surjection(X, T)
  BY <1>4 DEF Surjection
<1>6. IsFiniteSet(T) /\ (g \in Injection(X, T) => Cardinality(T) = Cardinality(X))
  BY <1>2, <1>5, FS_Surjection
<1>7. ASSUME \A i, j \in 1..n : f[i] = f[j] => i = j PROVE Cardinality(T) = n
  <2>1. \A x, y \in X : g[x] = g[y] => x = y
    BY <1>1, <1>3, <1>7
  <2>2. g \in Injection(X, T)
    BY <1>4, <2>1 DEF Injection, IsInjective
  <2> QED BY <1>2, <1>6, <2>2
<1> QED BY <1>6, <1>7

LEMMA LevelFinite ==
  ASSUME NEW U, U \subseteq Nodes(U), NEW v \in U, NEW n \in Nat
  PROVE  IsFiniteSet(Level(v)[n])
<1> DEFINE S == {m \in Nat : IsFiniteSet(Level(v)[m])}
<1>1. 0 \in S
  BY LevelIs, FS_Singleton
<1>2. ASSUME NEW m \in S PROVE m + 1 \in S
  <2>1. PICK X : X = Level(v)[m]
    OBVIOUS
  <2>2. PICK F : F = [p \in X |-> {Append(p, i) : i \in 1..Len(Parts(At(v, p)))}]
    OBVIOUS
  <2>3. PICK T : T = {F[p] : p \in X}
    OBVIOUS
  <2>4. IsFiniteSet(T)
    BY <1>2, <2>1, <2>3, Images
  <2>5. ASSUME NEW t \in T PROVE IsFiniteSet(t)
    <3>1. PICK p \in X : t = F[p]
      BY <2>3
    <3>2. PICK x \in Nodes(U) : x = At(v, p)
      BY <1>2, <2>1, <3>1, LevelAre
    <3>3. PICK k \in Nat : k = Len(Parts(x))
      BY PartsAre
    <3>4. PICK f : f = [i \in 1..k |-> Append(p, i)]
      OBVIOUS
    <3>5. t = {f[i] : i \in 1..k}
      BY <2>2, <3>1, <3>2, <3>3, <3>4
    <3> QED BY <3>5, Numbered
  <2>6. Level(v)[m + 1] = UNION T
    <3>1. Level(v)[m + 1] = Deeper(v, X)
      BY <2>1, LevelIs
    <3>2. T = {{Append(p, i) : i \in 1..Len(Parts(At(v, p)))} : p \in X}
      BY <2>2, <2>3
    <3> QED BY <3>1, <3>2 DEF Deeper
  <2>7. IsFiniteSet(UNION T)
    BY <2>4, <2>5, FS_UNION
  <2>8. IsFiniteSet(Level(v)[m + 1])
    BY <2>6, <2>7, Zenon
  <2> QED BY <2>8
<1>3. S \in SUBSET Nat
  OBVIOUS
<1> HIDE DEF S
<1>4. S = Nat
  BY <1>1, <1>2, <1>3, Induction
<1> QED BY <1>4 DEF S

LEMMA PlacesFinite ==
  ASSUME NEW U, U \subseteq Nodes(U), NEW v \in U
  PROVE  IsFiniteSet(Places(v))
<1>1. PICK k \in Nat : k = MaxDepth + 1
  BY LimitsAssumption
<1>2. PICK X : X = 0..k
  OBVIOUS
<1>3. IsFiniteSet(X)
  BY <1>2, FS_Interval
<1>4. PICK f : f = Level(v)
  OBVIOUS
<1>5. PICK T : T = {f[n] : n \in X}
  OBVIOUS
<1>6. IsFiniteSet(T)
  BY <1>3, <1>5, Images
<1>7. \A t \in T : IsFiniteSet(t)
  BY <1>2, <1>4, <1>5, LevelFinite
<1>8. Places(v) = UNION T
  BY <1>1, <1>2, <1>4, <1>5 DEF Places
<1> QED BY <1>6, <1>7, <1>8, FS_UNION

LEMMA OwnFinite ==
  ASSUME NEW U, NEW x \in Nodes(U)
  PROVE  IsFiniteSet(Own(x))
<1>1. CASE x.kind \in {"string", "bytes"}
  <2>1. PICK k \in Nat : k = Len(x.s)
    <3>1. x \in Scalars
      <4>1. x.kind # "array" /\ x.kind # "map"
        BY <1>1
      <4>2. \A s : x # [kind |-> "array", items |-> s] /\ x # [kind |-> "map", entries |-> s]
        BY <4>1
      <4> QED BY <4>2, Shapes, Zenon
    <3>2. \/ \E s \in Texts : x = [kind |-> "string", s |-> s]
          \/ \E s \in Seq(Int) : x = [kind |-> "bytes", s |-> s]
      BY <1>1, <3>1, ScalarShapes
    <3>3. x.s \in Seq(Int)
      BY <3>2, TextIs
    <3> QED BY <3>3
  <2>2. PICK f : f = [i \in 1..k |-> <<0, i>>]
    OBVIOUS
  <2>3. Own(x) = {f[i] : i \in 1..k}
    BY <1>1, <2>1, <2>2 DEF Own
  <2> QED BY <2>3, Numbered
<1>2. CASE x.kind = "map"
  <2>1. PICK s : s = x.entries
    OBVIOUS
  <2>2. s \in Seq([key : Texts, val : U])
    BY <1>2, <2>1, Shapes, ScalarShapes
  <2>3. PICK k \in Nat : k = Len(s)
    BY <2>2
  <2>4. PICK F : F = [i \in 1..k |-> {<<i, j>> : j \in 1..Len(s[i].key)}]
    OBVIOUS
  <2>5. PICK T : T = {F[i] : i \in 1..k}
    OBVIOUS
  <2>6. IsFiniteSet(T)
    BY <2>5, Numbered
  <2>7. ASSUME NEW t \in T PROVE IsFiniteSet(t)
    <3>1. PICK i \in 1..k : t = F[i]
      BY <2>5
    <3>2. s[i].key \in Texts
      BY <2>2, <2>3, EntriesAre
    <3>3. PICK l \in Nat : l = Len(s[i].key)
      BY <3>2, TextIs
    <3>4. PICK f : f = [j \in 1..l |-> <<i, j>>]
      OBVIOUS
    <3>5. t = {f[j] : j \in 1..l}
      BY <2>4, <3>1, <3>3, <3>4
    <3> QED BY <3>5, Numbered
  <2>8. Own(x) = UNION T
    <3>1. T = {{<<i, j>> : j \in 1..Len(s[i].key)} : i \in 1..k}
      BY <2>4, <2>5
    <3> QED BY <1>2, <2>1, <2>3, <3>1 DEF Own
  <2> QED BY <2>6, <2>7, <2>8, FS_UNION
<1>3. CASE x.kind \notin {"string", "bytes"} /\ x.kind # "map"
  BY <1>3, FS_EmptySet DEF Own
<1> QED BY <1>1, <1>2, <1>3

LEMMA ContentsFinite ==
  ASSUME NEW U, U \subseteq Nodes(U), NEW v \in U
  PROVE  IsFiniteSet(Contents(v))
<1>1. PICK X : X = Places(v)
  OBVIOUS
<1>2. PICK F : F = [p \in X |-> {<<p, c>> : c \in Own(At(v, p))}]
  OBVIOUS
<1>3. PICK T : T = {F[p] : p \in X}
  OBVIOUS
<1>4. IsFiniteSet(T)
  BY <1>1, <1>3, PlacesFinite, Images
<1>5. ASSUME NEW t \in T PROVE IsFiniteSet(t)
  <2>1. PICK p \in X : t = F[p]
    BY <1>3
  <2>2. PICK x \in Nodes(U) : x = At(v, p)
    BY <1>1, <2>1, PlacesAre, LeadsIs
  <2>3. PICK Y : Y = Own(x)
    OBVIOUS
  <2>4. IsFiniteSet(Y)
    BY <2>3, OwnFinite
  <2>5. PICK f : f = [c \in Y |-> <<p, c>>]
    OBVIOUS
  <2>6. t = {f[c] : c \in Y}
    BY <1>2, <2>1, <2>2, <2>3, <2>5
  <2> QED BY <2>4, <2>6, Images
<1>6. Contents(v) = UNION T
  <2>1. T = {{<<p, c>> : c \in Own(At(v, p))} : p \in X}
    BY <1>2, <1>3
  <2> QED BY <1>1, <2>1 DEF Contents
<1> QED BY <1>4, <1>5, <1>6, FS_UNION

-----------------------------------------------------------------------------
\* The bytes of content, each with the call of value() that counts it: those of
\* a key are counted by the call about the value behind it.
Owner(y) == IF y[2][1] = 0 THEN y[1] ELSE Append(y[1], y[2][1])
BytesOf(v, P) == {y \in Contents(v) : Owner(y) \in P}

LEMMA AppendOnce ==
  ASSUME NEW p, NEW i, NEW q, Onto(p, i, q)
  PROVE  /\ q # <<>>
         /\ \A r, j : Onto(r, j, q) => p = r /\ i = j
<1>1. PICK n \in Nat : n = Len(p) /\ Len(q) = n + 1 /\ q[n + 1] = i /\ \A k \in 1..n : q[k] = p[k]
  BY DEF Onto
<1>2. q # <<>>
  <2>1. Len(q) # 0
    BY <1>1
  <2> QED BY <2>1
<1>3. ASSUME NEW r, NEW j, Onto(r, j, q) PROVE p = r /\ i = j
  <2>0. PICK m \in Nat : m = Len(r)
    BY <1>3 DEF Onto
  <2>1. m = Len(r) /\ Len(q) = m + 1 /\ q[m + 1] = j /\ \A k \in 1..m : q[k] = r[k]
    BY <1>3, <2>0 DEF Onto
  <2>2. n = m
    BY <1>1, <2>1
  <2>3. \A k \in 1..n : p[k] = r[k]
    BY <1>1, <2>1, <2>2
  <2>4. p \in Seq(Nat) /\ r \in Seq(Nat)
    BY <1>3 DEF Onto
  <2>5. p = r
    BY <1>1, <2>1, <2>2, <2>3, <2>4, SeqEqual
  <2> QED BY <1>1, <2>1, <2>2, <2>5
<1> QED BY <1>2, <1>3

LEMMA OwnIs ==
  ASSUME NEW U, NEW x \in Nodes(U), NEW c
  PROVE  c \in Own(x) <=>
           \/ \E j \in 1..Weight(HeadOf(x)) : c = <<0, j>>
           \/ \E i \in 1..Len(Parts(x)) : \E j \in 1..Len(KeyOf(x, i)) : c = <<i, j>>
<1>1. CASE x.kind = "string" \/ x.kind = "bytes"
  <2>1. HeadOf(x) = x /\ Weight(x) = Len(x.s) /\ Parts(x) = <<>>
    BY <1>1 DEF HeadOf, Weight, Parts
  <2>2. Own(x) = {<<0, i>> : i \in 1..Len(x.s)}
    BY <1>1 DEF Own
  <2> QED BY <2>1, <2>2
<1>2. CASE x.kind = "map"
  <2>1. Weight(HeadOf(x)) = 0 /\ Parts(x) = x.entries
        /\ \A i : KeyOf(x, i) = x.entries[i].key
    BY <1>2 DEF HeadOf, Weight, Parts, KeyOf
  <2>2. Own(x) = UNION {{<<i, j>> : j \in 1..Len(x.entries[i].key)} : i \in 1..Len(x.entries)}
    BY <1>2 DEF Own
  <2> QED BY <2>1, <2>2
<1>3. CASE x.kind = "array"
  <2>1. Weight(HeadOf(x)) = 0 /\ \A i : KeyOf(x, i) = <<>>
    BY <1>3 DEF HeadOf, Weight, KeyOf
  <2>2. Own(x) = {}
    BY <1>3 DEF Own
  <2> QED BY <2>1, <2>2
<1>4. CASE x.kind # "map" /\ x.kind # "array" /\ x.kind # "string" /\ x.kind # "bytes"
  <2>1. HeadOf(x) = x /\ Weight(x) = 0 /\ Parts(x) = <<>>
    BY <1>4 DEF HeadOf, Weight, Parts
  <2>2. Own(x) = {}
    BY <1>4 DEF Own
  <2> QED BY <2>1, <2>2
<1> QED BY <1>1, <1>2, <1>3, <1>4

LEMMA ContentIs ==
  ASSUME NEW U, U \subseteq Nodes(U), NEW v \in U, NEW y
  PROVE  y \in Contents(v) <=> \E p \in Places(v) :
           \/ \E j \in 1..Weight(HeadOf(At(v, p))) : y = <<p, <<0, j>>>>
           \/ \E i \in 1..Len(Parts(At(v, p))) :
                \E j \in 1..Len(KeyOf(At(v, p), i)) : y = <<p, <<i, j>>>>
<1>1. ASSUME NEW p \in Places(v)
      PROVE  y \in {<<p, c>> : c \in Own(At(v, p))} <=>
               \/ \E j \in 1..Weight(HeadOf(At(v, p))) : y = <<p, <<0, j>>>>
               \/ \E i \in 1..Len(Parts(At(v, p))) :
                    \E j \in 1..Len(KeyOf(At(v, p), i)) : y = <<p, <<i, j>>>>
  <2>1. PICK x \in Nodes(U) : x = At(v, p)
    BY PlacesAre, LeadsIs
  <2>2. \A c : c \in Own(x) <=>
           \/ \E j \in 1..Weight(HeadOf(x)) : c = <<0, j>>
           \/ \E i \in 1..Len(Parts(x)) : \E j \in 1..Len(KeyOf(x, i)) : c = <<i, j>>
    BY OwnIs
  <2> QED BY <2>1, <2>2
<1>2. y \in Contents(v) <=> \E p \in Places(v) : y \in {<<p, c>> : c \in Own(At(v, p))}
  BY DEF Contents
<1> QED BY <1>1, <1>2

\* The call that counts y is the one about what p leads to, or about a part of it.
OwnedAt(v, p, y) ==
  Owner(y) = p \/ \E i \in 1..Len(Parts(At(v, p))) : Owner(y) = Append(p, i)

LEMMA OwnerIs ==
  ASSUME NEW U, U \subseteq Nodes(U), NEW v \in U, NEW y, y \in Contents(v)
  PROVE  \E p \in Places(v) : OwnedAt(v, p, y)
<1>1. PICK p \in Places(v) :
        \/ \E j \in 1..Weight(HeadOf(At(v, p))) : y = <<p, <<0, j>>>>
        \/ \E i \in 1..Len(Parts(At(v, p))) :
             \E j \in 1..Len(KeyOf(At(v, p), i)) : y = <<p, <<i, j>>>>
  BY ContentIs
<1>2. ASSUME NEW j, y = <<p, <<0, j>>>> PROVE OwnedAt(v, p, y)
  <2>1. Owner(y) = p
    BY <1>2 DEF Owner
  <2> QED BY <2>1 DEF OwnedAt
<1>3. ASSUME NEW i \in 1..Len(Parts(At(v, p))), NEW j, y = <<p, <<i, j>>>>
      PROVE  OwnedAt(v, p, y)
  <2>1. y[1] = p /\ y[2][1] = i
    BY <1>3
  <2>2. Len(Parts(At(v, p))) \in Nat
    BY LeadsIs, PlacesAre
  <2>3. i # 0
    BY <2>2
  <2>4. Owner(y) = Append(p, i)
    BY <2>1, <2>3 DEF Owner
  <2> QED BY <2>4 DEF OwnedAt
<1> QED BY <1>1, <1>2, <1>3

\* The k bytes of the key of q, which is the i-th part of what p leads to.
KeyBytes(v, p, i, q, k) ==
  \/ q = <<>> /\ k = 0
  \/ p \in Places(v) /\ Further(v, p, i, q) /\ k = Len(KeyOf(At(v, p), i))

LEMMA BytesCounted ==
  ASSUME NEW U, U \subseteq Nodes(U), NEW v \in U, NEW q \in Places(v),
         NEW p, NEW i, NEW k \in Nat, KeyBytes(v, p, i, q, k),
         NEW h \in Nat, h = Weight(HeadOf(At(v, q)))
  PROVE  Cardinality(BytesOf(v, {q})) = k + h
<1>1. PICK T : T = BytesOf(v, {q})
  OBVIOUS
<1>2. PICK f : f = [m \in 1..(k + h) |-> IF m <= k THEN <<p, <<i, m>>>> ELSE <<q, <<0, m - k>>>>]
  OBVIOUS
<1>3. q \in Seq(Nat)
  BY PlacesAre, LeadsIs
<1>4. k # 0 => /\ p \in Places(v) /\ Further(v, p, i, q) /\ k = Len(KeyOf(At(v, p), i))
               /\ p \in Seq(Nat) /\ i \in 1..Len(Parts(At(v, p)))
               /\ Len(Parts(At(v, p))) \in Nat /\ q = Append(p, i)
  <2>1. ASSUME p \in Places(v) PROVE p \in Seq(Nat) /\ Len(Parts(At(v, p))) \in Nat
    BY <2>1, PlacesAre, LeadsIs
  <2> QED BY <2>1 DEF KeyBytes, Further
<1>5. ASSUME NEW m \in 1..(k + h) PROVE f[m] \in T
  <2>1. CASE m <= k
    <3>1. k # 0 /\ m \in 1..k /\ f[m] = <<p, <<i, m>>>>
      BY <1>2, <2>1
    <3>2. f[m] \in Contents(v)
      BY <1>4, <3>1, ContentIs
    <3>3. i # 0
      BY <1>4, <3>1
    <3>4. Owner(f[m]) = q
      BY <1>4, <3>1, <3>3 DEF Owner
    <3> QED BY <1>1, <3>2, <3>4 DEF BytesOf
  <2>2. CASE ~(m <= k)
    <3>1. m - k \in 1..h /\ f[m] = <<q, <<0, m - k>>>>
      BY <1>2, <2>2
    <3>2. PICK j \in 1..h : j = m - k
      BY <3>1
    <3>3. f[m] = <<q, <<0, j>>>>
      BY <3>1, <3>2
    <3>4. f[m] \in Contents(v)
      BY <3>2, <3>3, ContentIs
    <3>5. Owner(f[m]) = q
      BY <3>3 DEF Owner
    <3> QED BY <1>1, <3>4, <3>5 DEF BytesOf
  <2> QED BY <2>1, <2>2
<1>6. ASSUME NEW y \in T PROVE \E m \in 1..(k + h) : y = f[m]
  <2>1. y \in Contents(v) /\ Owner(y) = q
    BY <1>1 DEF BytesOf
  <2>2. PICK r \in Places(v) :
           \/ \E j \in 1..Weight(HeadOf(At(v, r))) : y = <<r, <<0, j>>>>
           \/ \E l \in 1..Len(Parts(At(v, r))) :
                \E j \in 1..Len(KeyOf(At(v, r), l)) : y = <<r, <<l, j>>>>
    BY <2>1, ContentIs
  <2>3. r \in Seq(Nat) /\ Len(Parts(At(v, r))) \in Nat
    BY PlacesAre, LeadsIs
  <2>4. ASSUME NEW j \in 1..Weight(HeadOf(At(v, r))), y = <<r, <<0, j>>>>
        PROVE  \E m \in 1..(k + h) : y = f[m]
    <3>1. r = q
      BY <2>1, <2>4 DEF Owner
    <3>2. PICK l \in 1..h : l = j
      BY <3>1
    <3>3. PICK m \in 1..(k + h) : m = k + l /\ ~(m <= k) /\ m - k = l
      BY <3>2
    <3>4. f[m] = <<q, <<0, l>>>>
      BY <1>2, <3>3
    <3> QED BY <2>4, <3>1, <3>2, <3>4
  <2>5. ASSUME NEW l \in 1..Len(Parts(At(v, r))), NEW j \in 1..Len(KeyOf(At(v, r), l)),
               y = <<r, <<l, j>>>>
        PROVE  \E m \in 1..(k + h) : y = f[m]
    <3>1. PICK n \in Nat : n = l /\ n # 0
      BY <2>3
    <3>2. Owner(y) = Append(r, n)
      BY <2>5, <3>1 DEF Owner
    <3>3. q = Append(r, n)
      BY <2>1, <3>2
    <3>4. Onto(r, l, q) /\ q # <<>>
      <4>1. Onto(r, l, q)
        BY <2>3, <3>1, <3>3 DEF Onto
      <4> QED BY <4>1, AppendOnce
    <3>5. p \in Places(v) /\ Further(v, p, i, q) /\ k = Len(KeyOf(At(v, p), i))
      BY <3>4 DEF KeyBytes
    <3>6. p \in Seq(Nat) /\ Len(Parts(At(v, p))) \in Nat
      BY <3>5, PlacesAre, LeadsIs
    <3>7. Onto(p, i, q)
      BY <3>5, <3>6 DEF Onto, Further
    <3>8. p = r /\ i = l
      BY <3>4, <3>7, AppendOnce
    <3>9. PICK m \in 1..k : m = j
      BY <3>5, <3>8
    <3>10. m \in 1..(k + h) /\ m <= k
      OBVIOUS
    <3>11. f[m] = <<p, <<i, m>>>>
      BY <1>2, <3>10
    <3> QED BY <2>5, <3>8, <3>9, <3>10, <3>11
  <2> QED BY <2>2, <2>4, <2>5
<1>7. T = {f[m] : m \in 1..(k + h)}
  BY <1>5, <1>6
<1>8. \A m, n \in 1..(k + h) : f[m] = f[n] => m = n
  <2> SUFFICES ASSUME NEW m \in 1..(k + h), NEW n \in 1..(k + h), f[m] = f[n] PROVE m = n
    OBVIOUS
  <2>1. i = 0 => k = 0
    BY <1>4
  <2>2. PICK a, b : a = f[m][2] /\ b = f[n][2]
    OBVIOUS
  <2>3. a = (IF m <= k THEN <<i, m>> ELSE <<0, m - k>>)
        /\ b = (IF n <= k THEN <<i, n>> ELSE <<0, n - k>>)
    BY <1>2, <2>2
  <2>4. a[1] = b[1] /\ a[2] = b[2]
    BY <2>2
  <2>5. CASE m <= k
    <3>1. a[1] = i /\ a[2] = m /\ i # 0
      BY <2>1, <2>3, <2>5
    <3>2. n <= k
      BY <2>3, <2>4, <3>1
    <3> QED BY <2>3, <2>4, <3>1, <3>2
  <2>6. CASE ~(m <= k)
    <3>1. PICK c \in Int, d \in Int : c = m - k /\ d = n - k
      OBVIOUS
    <3>2. a[1] = 0 /\ a[2] = c
      BY <2>3, <2>6, <3>1
    <3>3. ~(n <= k)
      <4>1. ASSUME n <= k PROVE FALSE
        <5>1. b[1] = i /\ i # 0
          BY <2>1, <2>3, <4>1
        <5> QED BY <2>4, <3>2, <5>1
      <4> QED BY <4>1
    <3>4. b[2] = d
      BY <2>3, <3>1, <3>3
    <3>5. c = d
      BY <2>4, <3>2, <3>4
    <3> QED BY <3>1, <3>5
  <2> QED BY <2>5, <2>6
<1>9. PICK n \in Nat : n = k + h
  OBVIOUS
<1>10. T = {f[m] : m \in 1..n} /\ \A m, j \in 1..n : f[m] = f[j] => m = j
  BY <1>7, <1>8, <1>9
<1>11. Cardinality(T) = n
  BY <1>10, Numbered
<1> QED BY <1>1, <1>9, <1>11

\* One more place.
LEMMA BytesAdded ==
  ASSUME NEW U, U \subseteq Nodes(U), NEW v \in U, NEW P, NEW q, q \notin P, NEW Q,
         Q = P \cup {q}
  PROVE  /\ IsFiniteSet(BytesOf(v, P)) /\ IsFiniteSet(BytesOf(v, {q}))
         /\ Cardinality(BytesOf(v, Q)) = Cardinality(BytesOf(v, P)) + Cardinality(BytesOf(v, {q}))
         /\ Cardinality(BytesOf(v, P)) \in Nat /\ Cardinality(BytesOf(v, {q})) \in Nat
         /\ Cardinality(BytesOf(v, Q)) <= Cardinality(Contents(v))
         /\ Cardinality(Contents(v)) \in Nat
<1>1. PICK X, Y, Z : X = BytesOf(v, P) /\ Y = BytesOf(v, {q}) /\ Z = BytesOf(v, Q)
  OBVIOUS
<1>2. PICK C : C = Contents(v)
  OBVIOUS
<1>3. X \in SUBSET C /\ Y \in SUBSET C /\ Z \in SUBSET C
  BY <1>1, <1>2 DEF BytesOf
<1>4. IsFiniteSet(C)
  BY <1>2, ContentsFinite
<1>5. IsFiniteSet(X) /\ IsFiniteSet(Y) /\ Cardinality(Z) <= Cardinality(C)
  BY <1>3, <1>4, FS_Subset
<1>6. Z = X \cup Y /\ X \cap Y = {}
  BY <1>1 DEF BytesOf
<1>7. Cardinality(Z) = Cardinality(X) + Cardinality(Y) - Cardinality(X \cap Y)
  BY <1>5, <1>6, FS_Union
<1>8. Cardinality(X \cap Y) = 0
  BY <1>6, FS_EmptySet
<1>9. Cardinality(X) \in Nat /\ Cardinality(Y) \in Nat /\ Cardinality(C) \in Nat
  BY <1>4, <1>5, FS_CardinalityType
<1>10. Cardinality(Z) = Cardinality(X) + Cardinality(Y)
  BY <1>7, <1>8, <1>9
<1> QED BY <1>1, <1>2, <1>5, <1>9, <1>10

-----------------------------------------------------------------------------
\* What is allowed of a value, call by call: of the key of one of its parts, and
\* of what the call about it writes itself.
KeySound(v, i) ==
  v.kind = "map" => /\ \A j \in 1..(i - 1) : v.entries[j].key # v.entries[i].key
                    /\ Len(v.entries[i].key) <= MaxString
HeadSound(v) ==
  CASE v.kind = "float"  -> v.n # NotFinite
    [] v.kind = "string" -> Len(v.s) <= MaxString
    [] v.kind = "bytes"  -> Len(v.s) <= MaxBytes
    [] v.kind = "array"  -> Len(v.items) <= MaxEntries
    [] v.kind = "map"    -> Len(v.entries) <= MaxEntries
    [] v.kind = "handle" -> IsHandle(v.id, v.generation, v.name)
    [] OTHER -> TRUE

LEMMA SoundIs ==
  ASSUME NEW U, NEW v \in Nodes(U)
  PROVE  Sound(v) <=> HeadSound(v) /\ \A i \in 1..Len(Parts(v)) : KeySound(v, i)
<1>1. CASE v.kind # "map"
  BY <1>1 DEF Sound, HeadSound, KeySound
<1>2. CASE v.kind = "map"
  <2>1. PICK s : s = v.entries
    OBVIOUS
  <2>2. Parts(v) = s
    BY <1>2, <2>1 DEF Parts
  <2>3. PICK n \in Nat : n = Len(s)
    BY <2>2, PartsAre
  <2>4. Sound(v) <=> /\ n <= MaxEntries
                     /\ \A i, j \in 1..n : i # j => s[i].key # s[j].key
                     /\ \A i \in 1..n : Len(s[i].key) <= MaxString
    BY <1>2, <2>1, <2>3 DEF Sound
  <2>5. HeadSound(v) <=> n <= MaxEntries
    BY <1>2, <2>1, <2>3 DEF HeadSound
  <2>6. \A i : KeySound(v, i) <=> /\ \A j \in 1..(i - 1) : s[j].key # s[i].key
                                  /\ Len(s[i].key) <= MaxString
    BY <1>2, <2>1 DEF KeySound
  <2>7. (\A i, j \in 1..n : i # j => s[i].key # s[j].key)
        <=> \A i \in 1..n : \A j \in 1..(i - 1) : s[j].key # s[i].key
    <3>1. ASSUME \A i, j \in 1..n : i # j => s[i].key # s[j].key
          PROVE  \A i \in 1..n : \A j \in 1..(i - 1) : s[j].key # s[i].key
      BY <3>1
    <3>2. ASSUME \A i \in 1..n : \A j \in 1..(i - 1) : s[j].key # s[i].key
          PROVE  \A i, j \in 1..n : i # j => s[i].key # s[j].key
      <4> SUFFICES ASSUME NEW i \in 1..n, NEW j \in 1..n, i # j PROVE s[i].key # s[j].key
        OBVIOUS
      <4>1. CASE i < j
        <5>1. i \in 1..(j - 1)
          BY <4>1
        <5> QED BY <3>2, <5>1
      <4>2. CASE j < i
        <5>1. j \in 1..(i - 1)
          BY <4>2
        <5> QED BY <3>2, <5>1
      <4> QED BY <4>1, <4>2
    <3> QED BY <3>1, <3>2
  <2> QED BY <2>2, <2>3, <2>4, <2>5, <2>6, <2>7
<1> QED BY <1>1, <1>2

LEMMA FineIs ==
  ASSUME NEW U, NEW x \in Nodes(U), NEW c \in Nat, c <= MaxContent,
         NEW h, h = HeadOf(x), NEW n, n = Len(Parts(x)), NEW w, w = Weight(h)
  PROVE  w \in Nat /\ (Fine(h, n, c) <=> HeadSound(x) /\ c + w <= MaxContent)
<1>1. w \in Nat
  BY BodyIs
<1>2. MaxContent \in Nat
  BY LimitsAssumption
<1>3. w = 0 => c + w <= MaxContent
  BY <1>2
<1>4. CASE x.kind = "string" \/ x.kind = "bytes"
  <2>1. h = x /\ w = Len(x.s)
    BY <1>4 DEF HeadOf, Weight
  <2> QED BY <1>1, <1>4, <2>1 DEF Fine, HeadSound, Allowed
<1>5. CASE x.kind = "array" \/ x.kind = "map"
  <2>1. h = [kind |-> x.kind] /\ w = 0
    BY <1>5 DEF HeadOf, Weight
  <2>2. h.kind = x.kind
    BY <2>1
  <2>3. n = IF x.kind = "map" THEN Len(x.entries) ELSE Len(x.items)
    BY <1>5 DEF Parts
  <2>4. Fine(h, n, c) <=> n <= MaxEntries
    BY <1>5, <2>2 DEF Fine
  <2>5. HeadSound(x) <=> n <= MaxEntries
    BY <1>5, <2>3 DEF HeadSound
  <2> QED BY <1>1, <1>3, <2>1, <2>4, <2>5
<1>6. CASE x.kind # "string" /\ x.kind # "bytes" /\ x.kind # "array" /\ x.kind # "map"
  <2>1. h = x /\ w = 0
    BY <1>6 DEF HeadOf, Weight
  <2>2. Fine(x, n, c) <=> HeadSound(x)
    BY <1>6 DEF Fine, HeadSound
  <2> QED BY <1>1, <1>3, <2>1, <2>2
<1> QED BY <1>4, <1>5, <1>6

LEMMA KeyFits ==
  ASSUME NEW e, Writes(e), e.content <= MaxContent, NEW U, NEW v \in Nodes(U),
         NEW i \in 1..Len(Parts(v)), NEW g, g = PutKey(e, v, i),
         NEW k \in Nat, k = Len(KeyOf(v, i))
  PROVE  IF KeySound(v, i) /\ e.content + k <= MaxContent
         THEN Writes(g) /\ g.content = e.content + k /\ g.values = e.values
         ELSE Broke(g)
<1>1. PICK c \in Nat : c = e.content
  BY DEF Writes
<1>2. CASE v.kind # "map"
  <2>1. g = e /\ KeySound(v, i) /\ KeyOf(v, i) = <<>>
    BY <1>2 DEF PutKey, KeySound, KeyOf
  <2>2. k = 0
    BY <2>1
  <2> QED BY <1>1, <2>1, <2>2
<1>3. CASE v.kind = "map"
  <2>1. PICK t \in Texts : t = KeyOf(v, i)
    BY PartsAre
  <2>2. v.entries[i].key = t
    BY <1>3, <2>1 DEF KeyOf
  <2>3. IF (\A j \in 1..(i - 1) : v.entries[j].key # t) /\ Allowed(e.content, Len(t), MaxString)
        THEN Wrote(e, g, (e.out \o <<Pair>>) \o Block(Str32, t), e.content + Len(t))
        ELSE Broke(g)
    BY <1>3, <2>2, KeyWrites
  <2>4. KeySound(v, i) <=> (\A j \in 1..(i - 1) : v.entries[j].key # t) /\ Len(t) <= MaxString
    BY <1>3, <2>2 DEF KeySound
  <2>5. Allowed(c, Len(t), MaxString) <=> Len(t) <= MaxString /\ c + k <= MaxContent
    BY <2>1 DEF Allowed
  <2>6. e.content + Len(t) = c + k
    BY <1>1, <2>1
  <2> QED BY <1>1, <2>3, <2>4, <2>5, <2>6 DEF Wrote
<1> QED BY <1>2, <1>3

\* What it takes for x, the next part of f, to be written at a depth.
Admitted(e, f, x, depth, k, h) ==
  /\ KeySound(f.of, f.next) /\ HeadSound(x)
  /\ ~TooDeep(depth) /\ e.values < MaxValues /\ e.content + (k + h) <= MaxContent

\* It has been, and g is inside of it.
Added(e, g, n, f, x, k, h) ==
  /\ Writes(g) /\ g.values = e.values + 1 /\ g.content = e.content + (k + h)
  /\ g.stack = Append([e.stack EXCEPT ![n] = Moved(f)], Writing(x))
Paid(e, b, k, h) ==
  Writes(b) /\ b.values = e.values + 1 /\ b.content = e.content + (k + h)

LEMMA PartFits ==
  ASSUME NEW e, Writes(e), e.content <= MaxContent, NEW U, NEW f \in Frames(U), ~Ended(f),
         NEW x \in Nodes(U), x = Part(f.of, f.next), NEW depth,
         NEW k \in Nat, k = Len(KeyOf(f.of, f.next)),
         NEW h \in Nat, h = Weight(HeadOf(x)),
         NEW a, a = PutKey(e, f.of, f.next), NEW b, b = Put(a, x, depth)
  PROVE  IF Admitted(e, f, x, depth, k, h)
         THEN Paid(e, b, k, h)
         ELSE Broke(b)
<1>1. f.of \in Nodes(U) /\ f.next \in 1..Len(Parts(f.of))
  BY NotEnded
<1>2. PICK c \in Nat : c = e.content
  BY DEF Writes
<1>3. MaxContent \in Nat
  BY LimitsAssumption
<1>4. IF KeySound(f.of, f.next) /\ e.content + k <= MaxContent
      THEN Writes(a) /\ a.content = e.content + k /\ a.values = e.values
      ELSE Broke(a)
  BY <1>1, KeyFits
<1>5. CASE ~(KeySound(f.of, f.next) /\ c + k <= MaxContent)
  <2>1. Broke(a)
    BY <1>2, <1>4, <1>5
  <2>2. Broke(b)
    BY <2>1, BrokenPuts
  <2>3. c + (k + h) <= MaxContent => c + k <= MaxContent
    <3>1. PICK m \in Nat : m = MaxContent
      BY <1>3
    <3>2. c + (k + h) <= m => c + k <= m
      OBVIOUS
    <3> QED BY <3>1, <3>2
  <2>4. ~Admitted(e, f, x, depth, k, h)
    BY <1>2, <1>5, <2>3 DEF Admitted
  <2> QED BY <2>2, <2>4
<1>6. CASE KeySound(f.of, f.next) /\ c + k <= MaxContent
  <2>1. Writes(a) /\ a.content = c + k /\ a.values = e.values
    BY <1>2, <1>4, <1>6
  <2>2. PICK m \in Nat : m = c + k
    OBVIOUS
  <2>3. PICK z, n : z = HeadOf(x) /\ n = Len(Parts(x))
    OBVIOUS
  <2>4. Fine(z, n, m) <=> HeadSound(x) /\ m + h <= MaxContent
    BY <1>6, <2>2, <2>3, FineIs
  <2>5. IF ~TooDeep(depth) /\ a.values < MaxValues /\ Fine(z, n, a.content)
        THEN Writes(b) /\ b.values = a.values + 1 /\ b.content = a.content + Weight(z)
        ELSE Broke(b)
    BY <2>1, <2>3, PutWrites
  <2>6. m + h = c + (k + h) /\ a.content = m
    BY <2>1, <2>2
  <2>7. Admitted(e, f, x, depth, k, h) <=>
          ~TooDeep(depth) /\ a.values < MaxValues /\ Fine(z, n, a.content)
    BY <1>2, <1>6, <2>1, <2>4, <2>6 DEF Admitted
  <2>8. Writes(b) /\ b.values = a.values + 1 /\ b.content = a.content + Weight(z)
        => Paid(e, b, k, h)
    BY <1>2, <2>1, <2>2, <2>3, <2>6 DEF Paid
  <2> QED BY <2>5, <2>7, <2>8
<1> QED BY <1>5, <1>6

LEMMA StepFits ==
  ASSUME NEW e, Writes(e), e.content <= MaxContent, NEW U, NEW n, n = Len(e.stack), n # 0,
         NEW f \in Frames(U), f = Top(e), ~Ended(f), NEW x \in Nodes(U), x = Part(f.of, f.next),
         NEW k \in Nat, k = Len(KeyOf(f.of, f.next)),
         NEW h \in Nat, h = Weight(HeadOf(x)), NEW g, g = EncodeStep(e)
  PROVE  IF Admitted(e, f, x, n - 1, k, h) THEN Added(e, g, n, f, x, k, h) ELSE Broke(g)
<1>1. PICK a : a = PutKey(e, f.of, f.next)
  OBVIOUS
<1>2. PICK b : b = Put(a, x, n - 1)
  OBVIOUS
<1>3. Broke(g) \/ Begun(e, g, a, b, n, f, x)
  BY <1>1, <1>2, EncodeBegins
<1>4. IF Admitted(e, f, x, n - 1, k, h) THEN Paid(e, b, k, h) ELSE Broke(b)
  <2>1. PICK depth : depth = n - 1
    OBVIOUS
  <2>2. b = Put(a, x, depth)
    BY <1>2, <2>1
  <2>3. IF Admitted(e, f, x, depth, k, h) THEN Paid(e, b, k, h) ELSE Broke(b)
    BY <1>1, <2>2, PartFits
  <2> QED BY <2>1, <2>3
<1>5. CASE ~Admitted(e, f, x, n - 1, k, h)
  BY <1>3, <1>4, <1>5 DEF Begun, Broke
<1>6. CASE Admitted(e, f, x, n - 1, k, h)
  <2>1. IsEncoder(b) /\ b.ok
    BY <1>4, <1>6 DEF Writes, Paid
  <2>2. PICK s : s = Append(Onward(b.stack, n), Writing(x))
    OBVIOUS
  <2>3. g = WithStack(b, s)
    <3>1. e.ok
      BY DEF Writes
    <3>2. b = Put(PutKey(e, Top(e).of, Top(e).next), Part(Top(e).of, Top(e).next),
                  Len(e.stack) - 1)
      BY <1>1, <1>2
    <3>3. EncodeStep(e) = WithStack(b, Append(Onward(b.stack, Len(e.stack)),
                                              Writing(Part(Top(e).of, Top(e).next))))
      BY <3>1, <3>2, BeginsIs
    <3> QED BY <2>2, <3>3
  <2>4. g.ok
    BY <2>1, <2>3, Restacked
  <2>5. Begun(e, g, a, b, n, f, x)
    BY <1>3, <2>4 DEF Broke
  <2> QED BY <1>4, <1>6, <2>5 DEF Begun, Added, Paid
<1> QED BY <1>5, <1>6

-----------------------------------------------------------------------------
\* The encoder on its way: the places it has been at, each allowed, and those of
\* the frames it is inside of.

Visited(v, P) ==
  /\ \A p \in P : Leads(v, p) /\ Len(p) <= MaxDepth /\ HeadSound(At(v, p))
  /\ \A p, i, q : Onto(p, i, q) /\ q \in P => p \in P /\ KeySound(At(v, p), i)
  /\ IsFiniteSet(P)

\* All parts of what p leads to have been.
AllVisited(v, P, p) == \A i, q : Further(v, p, i, q) => q \in P

\* Those before its next one, and no other.
SoFar(P, p, n) == \A i, q : Onto(p, i, q) => (q \in P <=> i \in 1..(n - 1))

OnTheWay(v, S, W, P) ==
  /\ W \in Seq(Seq(Nat)) /\ Len(W) = Len(S)
  /\ \A j \in 2..Len(S) : /\ W[j] \in P /\ Len(W[j]) = j - 2 /\ At(v, W[j]) = S[j].of
                          /\ SoFar(P, W[j], S[j].next)
  /\ \A p \in P : (\E j \in 2..Len(S) : W[j] = p) \/ AllVisited(v, P, p)
  /\ <<>> \in P <=> Len(S) = 0 \/ S[1].next # 1

\* The next place.
NewPlace(v, P, f, x, n, p, q) ==
  /\ q \notin P /\ Leads(v, q) /\ Len(q) = n - 1 /\ At(v, q) = x
  /\ \A j, r : Onto(q, j, r) => r \notin P
  /\ \/ n = 1 /\ q = <<>> /\ f.of = Array(<<v>>)
     \/ n # 1 /\ p \in P /\ Further(v, p, f.next, q) /\ Onto(p, f.next, q) /\ f.of = At(v, p)

LEMMA NewPlaceIs ==
  ASSUME NEW U, U \subseteq Nodes(U), NEW v \in U, NEW S, Nested(S, U, v),
         NEW n, n = Len(S), n # 0, NEW f, f = S[n], ~Ended(f),
         NEW x, x = Part(f.of, f.next), NEW P, Visited(v, P), NEW W, OnTheWay(v, S, W, P)
  PROVE  \E q : NewPlace(v, P, f, x, n, W[n], q)
<1>1. S \in Seq(Frames(U)) /\ n \in Nat /\ n > 0
  BY DEF Nested
<1>2. f \in Frames(U)
  BY <1>1
<1>3. f.next \in 1..Len(Parts(f.of)) /\ f.of \in Nodes(U)
  BY <1>2, NotEnded
<1>4. \A q : q \notin P => \A j, r : Onto(q, j, r) => r \notin P
  BY DEF Visited
<1>5. CASE n = 1
  <2>1. f.of = Array(<<v>>)
    BY <1>1, <1>5 DEF Nested
  <2>2. Parts(f.of) = <<v>> /\ \A i : Part(f.of, i) = <<v>>[i]
    BY <2>1 DEF Array, Parts, Part
  <2>3. f.next = 1
    BY <1>3, <2>2
  <2>4. x = v
    BY <2>2, <2>3
  <2>5. <<>> \notin P
    BY <1>5, <2>3 DEF OnTheWay
  <2>6. PICK q : q = <<>>
    OBVIOUS
  <2>7. Len(q) = n - 1
    BY <1>5, <2>6
  <2>8. At(v, q) = x
    BY <2>4, <2>6, AtOnce
  <2>9. Leads(v, q)
    BY <2>6, LeadsFirst
  <2>10. NewPlace(v, P, f, x, n, W[n], q)
    BY <1>4, <1>5, <2>1, <2>5, <2>6, <2>7, <2>8, <2>9 DEF NewPlace
  <2> QED BY <2>10
<1>6. CASE n # 1
  <2>1. n \in 2..Len(S)
    BY <1>1, <1>6
  <2>2. PICK p : p = W[n]
    OBVIOUS
  <2>3. p \in P /\ Len(p) = n - 2 /\ At(v, p) = f.of /\ SoFar(P, p, f.next)
    BY <2>1, <2>2 DEF OnTheWay
  <2>4. Leads(v, p)
    BY <2>3 DEF Visited
  <2>5. p \in Seq(Nat) /\ Len(Parts(At(v, p))) \in Nat
    BY <2>4, LeadsIs
  <2>6. PICK i \in Nat : i = f.next
    BY <1>2, FrameIs
  <2>7. PICK q : q = Append(p, f.next)
    OBVIOUS
  <2>8. Further(v, p, f.next, q)
    BY <1>3, <2>3, <2>7 DEF Further
  <2>9. Onto(p, f.next, q)
    BY <2>5, <2>6, <2>7 DEF Onto
  <2>10. Leads(v, q) /\ Len(q) = Len(p) + 1 /\ At(v, q) = Part(At(v, p), f.next)
    BY <2>4, <2>8, LeadsNext
  <2>11. q \notin P
    <3>1. f.next \notin 1..(f.next - 1)
      BY <2>6
    <3> QED BY <2>3, <2>9, <3>1 DEF SoFar
  <2>12. Len(q) = n - 1
    <3>1. PICK m \in Nat : n = m + 2
      BY <1>1, <1>6
    <3>2. Len(p) = m
      BY <2>3, <3>1
    <3> QED BY <2>10, <3>1, <3>2
  <2>13. NewPlace(v, P, f, x, n, p, q)
    BY <1>4, <1>6, <2>3, <2>8, <2>9, <2>10, <2>11, <2>12 DEF NewPlace
  <2> QED BY <2>2, <2>13
<1> QED BY <1>5, <1>6

LEMMA VisitedMore ==
  ASSUME NEW U, U \subseteq Nodes(U), NEW v \in U, NEW P, Visited(v, P), NEW f, NEW x,
         NEW n, NEW p, NEW q, NewPlace(v, P, f, x, n, p, q), Len(q) <= MaxDepth,
         HeadSound(x), KeySound(f.of, f.next), NEW Q, Q = P \cup {q}
  PROVE  Visited(v, Q) /\ Cardinality(Q) = Cardinality(P) + 1 /\ Cardinality(P) \in Nat
<1>1. \A r \in Q : Leads(v, r) /\ Len(r) <= MaxDepth /\ HeadSound(At(v, r))
  BY DEF Visited, NewPlace
<1>2. ASSUME NEW r, NEW i, NEW s, Onto(r, i, s), s \in Q PROVE r \in Q /\ KeySound(At(v, r), i)
  <2>1. CASE s \in P
    BY <1>2, <2>1 DEF Visited
  <2>2. CASE s = q
    <3>1. q # <<>>
      BY <1>2, <2>2, AppendOnce
    <3>2. p \in P /\ Onto(p, f.next, q) /\ f.of = At(v, p)
      BY <3>1 DEF NewPlace
    <3>3. p = r /\ f.next = i
      BY <1>2, <2>2, <3>2, AppendOnce
    <3> QED BY <3>2, <3>3
  <2> QED BY <1>2, <2>1, <2>2
<1>3. IsFiniteSet(P) /\ q \notin P
  BY DEF Visited, NewPlace
<1>4. IsFiniteSet(Q) /\ Cardinality(Q) = Cardinality(P) + 1
  BY <1>3, FS_AddElement
<1>5. Cardinality(P) \in Nat
  BY <1>3, FS_CardinalityType
<1> QED BY <1>1, <1>2, <1>4, <1>5 DEF Visited

LEMMA OnTheWayEnds ==
  ASSUME NEW U, U \subseteq Nodes(U), NEW v \in U, NEW S, Nested(S, U, v),
         NEW n, n = Len(S), n # 0, NEW f, f = S[n], Ended(f),
         NEW P, Visited(v, P), NEW W, OnTheWay(v, S, W, P)
  PROVE  OnTheWay(v, Front(S), Front(W), P)
<1>1. S \in Seq(Frames(U)) /\ n \in Nat /\ n > 0
  BY DEF Nested
<1>2. PICK R, V : R = Front(S) /\ V = Front(W)
  OBVIOUS
<1>3. PICK m \in Nat : n = m + 1
  BY <1>1
<1>4. Len(R) = m /\ \A j \in 1..m : R[j] = S[j]
  <2>1. Len(S) - 1 = m /\ Len(S) > 0
    BY <1>1, <1>3
  <2>2. Len(Front(S)) = Len(S) - 1 /\ \A i \in 1..(Len(S) - 1) : Front(S)[i] = S[i]
    <3>1. PICK X : X = Frames(U)
      OBVIOUS
    <3>2. S \in Seq(X)
      BY <1>1, <3>1
    <3> QED BY <2>1, <3>2, FrontIs
  <2>3. Len(Front(S)) = m /\ \A i \in 1..m : Front(S)[i] = S[i]
    BY <2>1, <2>2
  <2> QED BY <1>2, <2>3
<1>5. V \in Seq(Seq(Nat)) /\ Len(V) = m /\ \A j \in 1..m : V[j] = W[j]
  <2>1. PICK X : X = Seq(Nat)
    OBVIOUS
  <2>2. W \in Seq(X) /\ Len(W) > 0 /\ Len(W) - 1 = m
    BY <1>1, <1>3, <2>1 DEF OnTheWay
  <2>3. Front(W) \in Seq(X) /\ Len(Front(W)) = Len(W) - 1
        /\ \A j \in 1..(Len(W) - 1) : Front(W)[j] = W[j]
    BY <2>2, FrontIs
  <2> QED BY <1>2, <2>1, <2>2, <2>3
<1>6. ASSUME NEW j \in 2..m
      PROVE  V[j] \in P /\ Len(V[j]) = j - 2 /\ At(v, V[j]) = R[j].of /\ SoFar(P, V[j], R[j].next)
  <2>1. j \in 2..Len(S) /\ j \in 1..m
    BY <1>3
  <2>2. V[j] = W[j] /\ R[j] = S[j]
    BY <1>4, <1>5, <2>1
  <2> QED BY <2>1, <2>2 DEF OnTheWay
<1>7. f \in Frames(U)
  BY <1>1
<1>8. f.next \in Nat /\ Len(Parts(f.of)) \in Nat /\ f.next > Len(Parts(f.of))
  BY <1>7, FrameIs DEF Ended
<1>9. ASSUME NEW p \in P PROVE (\E j \in 2..m : V[j] = p) \/ AllVisited(v, P, p)
  <2>1. CASE AllVisited(v, P, p)
    BY <2>1
  <2>2. ASSUME NEW j \in 2..n, W[j] = p PROVE (\E k \in 2..m : V[k] = p) \/ AllVisited(v, P, p)
    <3>1. CASE j # n
      <4>1. j \in 2..m /\ j \in 1..m
        BY <1>3, <3>1
      <4> QED BY <1>5, <2>2, <4>1
    <3>2. CASE j = n
      <4>1. At(v, p) = f.of /\ SoFar(P, p, f.next)
        BY <2>2, <3>2 DEF OnTheWay
      <4>2. ASSUME NEW i, NEW q, Further(v, p, i, q) PROVE q \in P
        <5>1. i \in 1..Len(Parts(f.of)) /\ q = Append(p, i)
          BY <4>1, <4>2 DEF Further
        <5>2. i \in 1..(f.next - 1) /\ i \in Nat
          BY <1>8, <5>1
        <5>3. p \in Seq(Nat)
          BY DEF Visited, Leads
        <5>4. Onto(p, i, q)
          BY <5>1, <5>2, <5>3 DEF Onto
        <5> QED BY <4>1, <5>2, <5>4 DEF SoFar
      <4> QED BY <4>2 DEF AllVisited
    <3> QED BY <3>1, <3>2
  <2> QED BY <2>1, <2>2 DEF OnTheWay
<1>10. <<>> \in P <=> m = 0 \/ R[1].next # 1
  <2>1. CASE m = 0
    <3>1. f.of = Array(<<v>>) /\ f = S[1]
      BY <1>1, <1>3, <2>1 DEF Nested
    <3>2. Parts(f.of) = <<v>>
      BY <3>1 DEF Array, Parts
    <3>3. f.next # 1
      BY <1>8, <3>2
    <3> QED BY <2>1, <3>1, <3>3 DEF OnTheWay
  <2>2. CASE m # 0
    <3>1. 1 \in 1..m /\ Len(S) # 0
      BY <1>3, <2>2
    <3> QED BY <1>4, <2>2, <3>1 DEF OnTheWay
  <2> QED BY <2>1, <2>2
<1>11. Len(V) = Len(R)
  BY <1>4, <1>5
<1>12. OnTheWay(v, R, V, P)
  BY <1>4, <1>5, <1>6, <1>9, <1>10 DEF OnTheWay
<1> QED BY <1>2, <1>12

LEMMA OnTheWayBegins ==
  ASSUME NEW U, U \subseteq Nodes(U), NEW v \in U, NEW S, Nested(S, U, v),
         NEW n, n = Len(S), n # 0, NEW f, f = S[n], NEW x, NEW R, Entered(R, S, n, f, x),
         NEW P, Visited(v, P), NEW W, OnTheWay(v, S, W, P),
         NEW q, NewPlace(v, P, f, x, n, W[n], q), NEW Q, Q = P \cup {q},
         NEW V, V = Append(W, q)
  PROVE  OnTheWay(v, R, V, Q)
<1>1. S \in Seq(Frames(U)) /\ n \in Nat /\ n > 0
  BY DEF Nested
<1>2. f \in Frames(U)
  BY <1>1
<1>3. R[n + 1] = Writing(x) /\ R[n] = Moved(f) /\ Len(R) = n + 1
      /\ \A j \in 1..(n - 1) : R[j] = S[j]
  BY DEF Entered
<1>4. q \notin P /\ Leads(v, q) /\ Len(q) = n - 1 /\ At(v, q) = x
      /\ \A j, r : Onto(q, j, r) => r \notin P
  BY DEF NewPlace
<1>5. V \in Seq(Seq(Nat)) /\ Len(V) = n + 1 /\ V[n + 1] = q /\ \A j \in 1..n : V[j] = W[j]
  <2>1. PICK X : X = Seq(Nat)
    OBVIOUS
  <2>2. W \in Seq(X) /\ Len(W) = n /\ q \in X
    BY <1>4, <2>1 DEF OnTheWay, Leads
  <2>3. V \in Seq(X) /\ Len(V) = n + 1 /\ V[n + 1] = q /\ \A j \in 1..n : V[j] = W[j]
    BY <2>2, AppendProperties
  <2> QED BY <2>1, <2>3
<1>6. \A p, i, r : Onto(p, i, r) => Len(r) = Len(p) + 1
  BY DEF Onto
<1>7. /\ Moved(f).of = f.of /\ Moved(f).next = f.next + 1
      /\ f.next \in Nat /\ f.next - 1 \in Nat
  BY <1>2, FrameMoved, FrameIs
<1>8. Writing(x).of = x /\ Writing(x).next = 1
  BY DEF Writing
<1>9. ASSUME NEW j \in 2..(n + 1)
      PROVE  V[j] \in Q /\ Len(V[j]) = j - 2 /\ At(v, V[j]) = R[j].of /\ SoFar(Q, V[j], R[j].next)
  <2>1. CASE j = n + 1
    <3>1. Len(q) = j - 2
      BY <1>1, <1>4, <2>1
    <3>2. ASSUME NEW i, NEW r, Onto(q, i, r) PROVE r \notin Q
      <4>1. r \notin P
        BY <1>4, <3>2
      <4>2. Len(r) = Len(q) + 1 /\ Len(q) \in Nat
        BY <1>1, <1>4, <1>6, <3>2
      <4> QED BY <4>1, <4>2
    <3>3. SoFar(Q, q, 1)
      <4>1. \A i : i \notin 1..(1 - 1)
        OBVIOUS
      <4> QED BY <3>2, <4>1 DEF SoFar
    <3> QED BY <1>3, <1>4, <1>5, <1>8, <2>1, <3>1, <3>3
  <2>2. CASE j = n
    <3>1. n # 1 /\ j \in 2..Len(S) /\ j \in 1..n
      BY <1>1, <2>2
    <3>2. PICK p : p = W[n]
      OBVIOUS
    <3>3. p \in P /\ Len(p) = j - 2 /\ At(v, p) = f.of /\ SoFar(P, p, f.next)
      BY <2>2, <3>1, <3>2 DEF OnTheWay
    <3>4. Onto(p, f.next, q)
      BY <3>1, <3>2 DEF NewPlace
    <3>5. ASSUME NEW i, NEW r, Onto(p, i, r) PROVE r \in Q <=> i \in 1..((f.next + 1) - 1)
      <4>1. r = q <=> i = f.next
        <5>1. r = q => i = f.next
          BY <3>4, <3>5, AppendOnce
        <5>2. i = f.next => r = q
          BY <3>4, <3>5 DEF Onto
        <5> QED BY <5>1, <5>2
      <4>2. r \in P <=> i \in 1..(f.next - 1)
        BY <3>3, <3>5 DEF SoFar
      <4>3. i \in Nat
        BY <3>5 DEF Onto
      <4>4. i \in 1..((f.next + 1) - 1) <=> i \in 1..(f.next - 1) \/ i = f.next
        <5>1. PICK a \in Nat, b \in Nat : a = f.next /\ a = b + 1 /\ b = f.next - 1
          BY <1>7
        <5>2. PICK c \in Nat : c = i
          BY <4>3
        <5>3. a = b + 1 /\ (a + 1) - 1 = a
          BY <5>1
        <5>4. c \in 1..a <=> c \in 1..b \/ c = a
          BY <5>3
        <5> QED BY <5>1, <5>2, <5>3, <5>4
      <4> QED BY <4>1, <4>2, <4>4
    <3>6. SoFar(Q, p, f.next + 1)
      BY <3>5 DEF SoFar
    <3> QED BY <1>3, <1>5, <1>7, <2>2, <3>1, <3>2, <3>3, <3>6
  <2>3. CASE j \in 2..(n - 1)
    <3>1. j \in 2..Len(S) /\ j \in 1..n /\ j \in 1..(n - 1)
      BY <1>1, <2>3
    <3>2. PICK p : p = W[j]
      OBVIOUS
    <3>3. p \in P /\ Len(p) = j - 2 /\ At(v, p) = S[j].of /\ SoFar(P, p, S[j].next)
      BY <3>1, <3>2 DEF OnTheWay
    <3>4. ASSUME NEW i, NEW r, Onto(p, i, r) PROVE r \in Q <=> i \in 1..(S[j].next - 1)
      <4>1. Len(r) = Len(p) + 1
        BY <1>6, <3>4
      <4>2. r # q
        <5>1. (j - 2) + 1 # n - 1
          BY <1>1, <2>3
        <5> QED BY <1>4, <3>3, <4>1, <5>1
      <4> QED BY <3>3, <3>4, <4>2 DEF SoFar
    <3>5. SoFar(Q, p, S[j].next)
      BY <3>4 DEF SoFar
    <3> QED BY <1>3, <1>5, <3>1, <3>2, <3>3, <3>5
  <2>4. j = n + 1 \/ j = n \/ j \in 2..(n - 1)
    <3>1. PICK m \in Nat : m = n
      BY <1>1
    <3>2. PICK k : k = j
      OBVIOUS
    <3>3. k \in 2..(m + 1)
      BY <3>1, <3>2
    <3>4. k = m + 1 \/ k = m \/ k \in 2..(m - 1)
      BY <3>3
    <3> QED BY <3>1, <3>2, <3>4
  <2> QED BY <2>1, <2>2, <2>3, <2>4, Zenon
<1>10. ASSUME NEW p \in Q PROVE (\E j \in 2..(n + 1) : V[j] = p) \/ AllVisited(v, Q, p)
  <2>1. CASE p = q
    <3>1. n + 1 \in 2..(n + 1)
      BY <1>1
    <3> QED BY <1>5, <2>1, <3>1
  <2>2. CASE p \in P
    <3>1. CASE AllVisited(v, P, p)
      BY <3>1 DEF AllVisited
    <3>2. ASSUME NEW j \in 2..n, W[j] = p PROVE \E k \in 2..(n + 1) : V[k] = p
      <4>1. j \in 2..(n + 1) /\ j \in 1..n
        BY <1>1
      <4> QED BY <1>5, <3>2, <4>1
    <3> QED BY <2>2, <3>1, <3>2 DEF OnTheWay
  <2> QED BY <2>1, <2>2
<1>11. <<>> \in Q <=> R[1].next # 1
  <2>1. CASE n = 1
    <3>1. q = <<>>
      BY <2>1 DEF NewPlace
    <3>2. R[1].next = f.next + 1
      BY <1>3, <1>7, <2>1
    <3>3. f.next + 1 # 1
      <4>1. f.next # 0
        BY <1>2 DEF Frames
      <4>2. PICK a \in Nat : a = f.next
        BY <1>7
      <4>3. a + 1 # 1
        BY <4>1, <4>2
      <4> QED BY <4>2, <4>3
    <3> QED BY <3>1, <3>2, <3>3
  <2>2. CASE n # 1
    <3>1. 1 \in 1..(n - 1)
      BY <1>1, <2>2
    <3>2. R[1] = S[1]
      BY <1>3, <3>1
    <3>3. q # <<>>
      BY <2>2, AppendOnce DEF NewPlace
    <3>4. <<>> \in P <=> S[1].next # 1
      BY DEF OnTheWay
    <3> QED BY <3>2, <3>3, <3>4
  <2> QED BY <2>1, <2>2
<1>12. Len(R) # 0 /\ Len(V) = Len(R)
  BY <1>1, <1>3, <1>5
<1> QED BY <1>3, <1>5, <1>9, <1>10, <1>11, <1>12 DEF OnTheWay

\* The next place is a place, and its bytes are those of its key and its own.
LEMMA NewPlaceAt ==
  ASSUME NEW U, U \subseteq Nodes(U), NEW v \in U, NEW P, Visited(v, P), NEW f, NEW x,
         NEW n, NEW p, NEW q, NewPlace(v, P, f, x, n, p, q)
  PROVE  /\ q \in Places(v) /\ x \in U /\ (TooDeep(n - 1) <=> ~(Len(q) <= MaxDepth))
         /\ n # 1 => p \in Places(v)
<1>1. PICK D \in Nat : D = MaxDepth
  BY LimitsAssumption
<1>2. ASSUME NEW r \in P PROVE r \in Places(v) /\ Leads(v, r) /\ Len(r) \in Nat /\ Len(r) <= D
  <2>1. Leads(v, r) /\ Len(r) <= D
    BY <1>1 DEF Visited
  <2>2. r \in Seq(Nat)
    BY <2>1, LeadsIs
  <2>3. PICK m \in Nat : m = Len(r)
    BY <2>2
  <2>4. m <= D + 1
    BY <1>1, <2>1, <2>3
  <2>5. Len(r) <= MaxDepth + 1
    BY <1>1, <2>3, <2>4
  <2> QED BY <2>1, <2>3, <2>5, PlacesAre
<1>3. Leads(v, q) /\ Len(q) = n - 1 /\ At(v, q) = x
  BY DEF NewPlace
<1>4. q \in Seq(Nat) /\ x \in U
  BY <1>3, LeadsIs
<1>5. Len(q) <= D + 1
  <2>1. CASE q = <<>>
    BY <1>1, <2>1
  <2>2. CASE q # <<>>
    <3>1. p \in P /\ Further(v, p, f.next, q)
      BY <2>2 DEF NewPlace
    <3>2. Leads(v, p) /\ Len(p) \in Nat /\ Len(p) <= D
      BY <1>2, <3>1
    <3>3. Len(q) = Len(p) + 1
      BY <3>1, <3>2, LeadsNext
    <3> QED BY <1>1, <3>2, <3>3
  <2> QED BY <2>1, <2>2
<1>6. q \in Places(v)
  <2>1. Len(q) <= MaxDepth + 1
    BY <1>1, <1>5
  <2> QED BY <1>3, <2>1, PlacesAre
<1>7. TooDeep(n - 1) <=> ~(Len(q) <= MaxDepth)
  <2>1. PICK m \in Nat : m = Len(q)
    BY <1>4
  <2>2. TooDeep(m) <=> ~(m <= D)
    BY <1>1, <2>1 DEF TooDeep
  <2> QED BY <1>1, <1>3, <2>1, <2>2
<1>8. n # 1 => p \in Places(v)
  BY <1>2 DEF NewPlace
<1> QED BY <1>4, <1>6, <1>7, <1>8

\* k and h bytes more.
More(v, P, Q, k, h) ==
  /\ Cardinality(BytesOf(v, Q)) = Cardinality(BytesOf(v, P)) + (k + h)
  /\ Cardinality(BytesOf(v, P)) \in Nat
  /\ Cardinality(BytesOf(v, Q)) <= Cardinality(Contents(v)) /\ Cardinality(Contents(v)) \in Nat

LEMMA NewBytes ==
  ASSUME NEW U, U \subseteq Nodes(U), NEW v \in U, NEW P, Visited(v, P), NEW f, NEW x,
         NEW n, NEW p, NEW q, NewPlace(v, P, f, x, n, p, q), NEW Q, Q = P \cup {q},
         NEW k \in Nat, k = Len(KeyOf(f.of, f.next)), NEW h \in Nat, h = Weight(HeadOf(x))
  PROVE  More(v, P, Q, k, h)
<1>1. q \in Places(v) /\ (n # 1 => p \in Places(v))
  BY NewPlaceAt
<1>2. At(v, q) = x /\ q \notin P
  BY DEF NewPlace
<1>3. PICK i : i = f.next
  OBVIOUS
<1>4. KeyBytes(v, p, i, q, k)
  <2>1. CASE n = 1
    <3>1. q = <<>> /\ f.of = Array(<<v>>)
      BY <2>1 DEF NewPlace
    <3>2. KeyOf(f.of, f.next) = <<>>
      BY <3>1 DEF KeyOf, Array
    <3>3. k = 0
      BY <3>2
    <3> QED BY <3>1, <3>3 DEF KeyBytes
  <2>2. CASE n # 1
    <3>1. Further(v, p, i, q) /\ f.of = At(v, p)
      BY <1>3, <2>2 DEF NewPlace
    <3>2. k = Len(KeyOf(At(v, p), i))
      BY <1>3, <3>1
    <3> QED BY <1>1, <2>2, <3>1, <3>2 DEF KeyBytes
  <2> QED BY <2>1, <2>2
<1>5. h = Weight(HeadOf(At(v, q)))
  BY <1>2
<1>6. Cardinality(BytesOf(v, {q})) = k + h
  BY <1>1, <1>4, <1>5, BytesCounted
<1>7. /\ Cardinality(BytesOf(v, Q)) = Cardinality(BytesOf(v, P)) + Cardinality(BytesOf(v, {q}))
      /\ Cardinality(BytesOf(v, P)) \in Nat
      /\ Cardinality(BytesOf(v, Q)) <= Cardinality(Contents(v))
      /\ Cardinality(Contents(v)) \in Nat
  BY <1>2, BytesAdded
<1> QED BY <1>6, <1>7 DEF More

\* What the encoder has counted is what there is at the places it has been at.
Tallied(v, P, e) ==
  /\ e.values = Cardinality(P) /\ e.content = Cardinality(BytesOf(v, P))
  /\ e.values <= MaxValues /\ e.content <= MaxContent

\* What is not admitted is out of the limits on the whole value.
LEMMA NotAdmitted ==
  ASSUME NEW U, U \subseteq Nodes(U), NEW v \in U, NEW P, Visited(v, P), NEW f \in Frames(U),
         ~Ended(f), NEW x,
         NEW n, NEW p, NEW q, NewPlace(v, P, f, x, n, p, q),
         NEW k \in Nat, k = Len(KeyOf(f.of, f.next)), NEW h \in Nat, h = Weight(HeadOf(x)),
         NEW e, Tallied(v, P, e), ~Admitted(e, f, x, n - 1, k, h)
  PROVE  ~WithinLimits(v)
<1>1. q \in Places(v) /\ (TooDeep(n - 1) <=> ~(Len(q) <= MaxDepth)) /\ (n # 1 => p \in Places(v))
  BY NewPlaceAt
<1>2. PICK Q : Q = P \cup {q}
  OBVIOUS
<1>3. More(v, P, Q, k, h)
  BY <1>2, NewBytes
<1>4. At(v, q) = x
  BY DEF NewPlace
<1>5. ASSUME NEW r \in Places(v) PROVE At(v, r) \in Nodes(U)
  BY LeadsIs, PlacesAre
<1>6. ASSUME ~KeySound(f.of, f.next) PROVE ~WithinLimits(v)
  <2>1. n # 1
    <3>1. n = 1 => f.of.kind # "map"
      BY DEF NewPlace, Array
    <3> QED BY <1>6, <3>1 DEF KeySound
  <2>2. p \in Places(v) /\ f.of = At(v, p) /\ f.of \in Nodes(U)
    BY <1>1, <1>5, <2>1 DEF NewPlace
  <2>3. f.next \in 1..Len(Parts(f.of))
    BY NotEnded
  <2>4. ~Sound(f.of)
    BY <1>6, <2>2, <2>3, SoundIs
  <2> QED BY <2>2, <2>4 DEF WithinLimits
<1>7. ASSUME ~HeadSound(x) PROVE ~WithinLimits(v)
  <2>1. ~Sound(x)
    BY <1>1, <1>4, <1>5, <1>7, SoundIs
  <2> QED BY <1>1, <1>4, <2>1 DEF WithinLimits
<1>8. ASSUME TooDeep(n - 1) PROVE ~WithinLimits(v)
  BY <1>1, <1>8 DEF WithinLimits
<1>9. ASSUME ~(e.values < MaxValues) PROVE ~WithinLimits(v)
  <2>1. IsFiniteSet(P) /\ q \notin P
    BY DEF Visited, NewPlace
  <2>2. Cardinality(Q) = Cardinality(P) + 1
    BY <1>2, <2>1, FS_AddElement
  <2>3. Q \subseteq Places(v)
    <3>1. ASSUME NEW r \in P PROVE r \in Places(v)
      <4>1. Leads(v, r) /\ Len(r) <= MaxDepth
        BY DEF Visited
      <4>2. PICK m \in Nat : m = Len(r)
        BY <4>1, LeadsIs
      <4>3. PICK D \in Nat : D = MaxDepth
        BY LimitsAssumption
      <4>4. m <= D + 1
        BY <4>1, <4>2, <4>3
      <4> QED BY <4>1, <4>2, <4>3, <4>4, PlacesAre
    <3> QED BY <1>1, <1>2, <3>1
  <2>4. IsFiniteSet(Places(v))
    BY PlacesFinite
  <2>5. Cardinality(Q) <= Cardinality(Places(v))
    BY <2>3, <2>4, FS_Subset
  <2>6. PICK a \in Nat, b \in Nat, M \in Nat :
          a = Cardinality(P) /\ b = Cardinality(Places(v)) /\ M = MaxValues
    BY <2>1, <2>4, FS_CardinalityType, LimitsAssumption
  <2>7. ~(a < M) /\ a + 1 <= b
    BY <1>9, <2>2, <2>5, <2>6 DEF Tallied
  <2>8. ~(b <= M)
    BY <2>7
  <2> QED BY <2>6, <2>8 DEF WithinLimits
<1>10. ASSUME ~(e.content + (k + h) <= MaxContent) PROVE ~WithinLimits(v)
  <2>1. PICK a \in Nat, b \in Nat, M \in Nat :
          a = Cardinality(BytesOf(v, P)) /\ b = Cardinality(Contents(v)) /\ M = MaxContent
    BY <1>3, LimitsAssumption DEF More
  <2>2. PICK c \in Nat : c = k + h
    OBVIOUS
  <2>3. ~(a + c <= M) /\ a + c <= b
    BY <1>3, <1>10, <2>1, <2>2 DEF More, Tallied
  <2>4. ~(b <= M)
    BY <2>3
  <2> QED BY <2>1, <2>4 DEF WithinLimits
<1> QED BY <1>6, <1>7, <1>8, <1>9, <1>10 DEF Admitted

\* The encoder has given up on a value that is out of its limits, or is on its way.
Walked(v, e, P, W) == Visited(v, P) /\ OnTheWay(v, e.stack, W, P) /\ Tallied(v, P, e)
Judged(e, v) ==
  \/ Broke(e) /\ ~WithinLimits(v)
  \/ Writes(e) /\ \E P, W : Walked(v, e, P, W)

LEMMA JudgedFirst ==
  ASSUME NEW U, U \subseteq Nodes(U), NEW v \in U
  PROVE  Judged(NewEncoder(v), v)
<1>1. PICK e, f : e = NewEncoder(v) /\ f = Writing(Array(<<v>>))
  OBVIOUS
<1>2. e.stack = <<f>> /\ f.next = 1 /\ e.values = 0 /\ e.content = 0
  BY <1>1 DEF NewEncoder, Writing
<1>3. Writes(e)
  BY <1>1, NewEncodes
<1>4. PICK W : W = << <<>> >>
  OBVIOUS
<1>5. W \in Seq(Seq(Nat)) /\ Len(W) = 1
  BY <1>4
<1>6. PICK S : S = <<f>>
  OBVIOUS
<1>7. Len(S) = 1 /\ S[1] = f
  BY <1>6
<1>8. OnTheWay(v, S, W, {})
  <2>1. 2..Len(S) = {}
    BY <1>7
  <2> QED BY <1>2, <1>5, <1>7, <2>1 DEF OnTheWay
<1>9. Visited(v, {})
  BY FS_EmptySet DEF Visited
<1>10. Tallied(v, {}, e)
  <2>1. BytesOf(v, {}) = {}
    BY DEF BytesOf
  <2>2. Cardinality({}) = 0
    BY FS_EmptySet
  <2>3. 0 <= MaxValues /\ 0 <= MaxContent
    BY LimitsAssumption
  <2> QED BY <1>2, <2>1, <2>2, <2>3 DEF Tallied
<1>11. Walked(v, e, {}, W)
  BY <1>2, <1>6, <1>8, <1>9, <1>10 DEF Walked
<1> QED BY <1>1, <1>3, <1>11 DEF Judged

LEMMA JudgedBegins ==
  ASSUME NEW U, U \subseteq Nodes(U), NEW v \in U, NEW e, Writes(e), Nested(e.stack, U, v),
         Len(e.stack) # 0, ~Ended(Top(e)), NEW P, NEW W, Walked(v, e, P, W)
  PROVE  Judged(EncodeStep(e), v)
<1>1. PICK S, n, f, g : S = e.stack /\ n = Len(S) /\ f = S[n] /\ g = EncodeStep(e)
  OBVIOUS
<1>2. f = Top(e)
  BY <1>1 DEF Top
<1>3. Nested(S, U, v) /\ n = Len(e.stack) /\ n # 0 /\ ~Ended(f)
  BY <1>1, <1>2
<1>4. f \in Frames(U)
  <2>1. S \in Seq(Frames(U)) /\ n \in 1..Len(S)
    BY <1>1, <1>3 DEF Nested
  <2> QED BY <1>1, <2>1
<1>5. PICK x : x = Part(f.of, f.next)
  OBVIOUS
<1>6. x \in Nodes(U) /\ f.of \in Nodes(U) /\ f.next \in 1..Len(Parts(f.of))
  BY <1>3, <1>4, <1>5, NotEnded
<1>7. PICK k \in Nat : k = Len(KeyOf(f.of, f.next))
  <2>1. KeyOf(f.of, f.next) \in Texts
    BY <1>6, PartsAre
  <2> QED BY <2>1, TextIs
<1>8. PICK h \in Nat : h = Weight(HeadOf(x))
  BY <1>6, BodyIs
<1>9. Visited(v, P) /\ OnTheWay(v, S, W, P) /\ Tallied(v, P, e)
  BY <1>1 DEF Walked
<1>10. PICK p : p = W[n]
  OBVIOUS
<1>11. PICK q : NewPlace(v, P, f, x, n, p, q)
  <2>1. \E q : NewPlace(v, P, f, x, n, W[n], q)
    BY <1>1, <1>3, <1>5, <1>9, NewPlaceIs
  <2> QED BY <1>10, <2>1
<1>12. PICK Q, V : Q = P \cup {q} /\ V = Append(W, q)
  OBVIOUS
<1>13. e.content <= MaxContent
  BY <1>9 DEF Tallied
<1>14. IF Admitted(e, f, x, n - 1, k, h) THEN Added(e, g, n, f, x, k, h) ELSE Broke(g)
  BY <1>1, <1>2, <1>3, <1>4, <1>5, <1>6, <1>7, <1>8, <1>13, StepFits
<1>15. CASE ~Admitted(e, f, x, n - 1, k, h)
  <2>1. ~WithinLimits(v)
    BY <1>3, <1>4, <1>7, <1>8, <1>9, <1>11, <1>15, NotAdmitted
  <2> QED BY <1>1, <1>14, <1>15, <2>1 DEF Judged
<1>16. CASE Admitted(e, f, x, n - 1, k, h)
  <2>1. Added(e, g, n, f, x, k, h)
    BY <1>14, <1>16
  <2>2. KeySound(f.of, f.next) /\ HeadSound(x) /\ ~TooDeep(n - 1) /\ e.values < MaxValues
        /\ e.content + (k + h) <= MaxContent
    BY <1>16 DEF Admitted
  <2>3. Len(q) <= MaxDepth
    BY <1>9, <1>11, <2>2, NewPlaceAt
  <2>4. Visited(v, Q) /\ Cardinality(Q) = Cardinality(P) + 1 /\ Cardinality(P) \in Nat
    BY <1>9, <1>11, <1>12, <2>2, <2>3, VisitedMore
  <2>5. More(v, P, Q, k, h)
    BY <1>7, <1>8, <1>9, <1>11, <1>12, NewBytes
  <2>6. Writes(g) /\ g.values = e.values + 1 /\ g.content = e.content + (k + h)
    BY <2>1 DEF Added
  <2>7. PICK R : R = g.stack
    OBVIOUS
  <2>8. R = Append([S EXCEPT ![n] = Moved(f)], Writing(x))
    BY <1>1, <2>1, <2>7 DEF Added
  <2>9. Entered(R, S, n, f, x)
    BY <1>1, <1>3, <1>5, <2>8, NestedPush
  <2>10. NewPlace(v, P, f, x, n, W[n], q)
    BY <1>10, <1>11
  <2>11. OnTheWay(v, R, V, Q)
    BY <1>1, <1>3, <1>9, <1>12, <2>9, <2>10, OnTheWayBegins
  <2>12. Tallied(v, Q, g)
    <3>1. g.values <= MaxValues
      <4>1. PICK m \in Nat, M \in Nat : m = e.values /\ M = MaxValues
        BY LimitsAssumption DEF Writes
      <4>2. m + 1 <= M
        BY <2>2, <4>1
      <4> QED BY <2>6, <4>1, <4>2
    <3>2. g.values = Cardinality(Q)
      BY <1>9, <2>4, <2>6 DEF Tallied
    <3>3. g.content = Cardinality(BytesOf(v, Q)) /\ g.content <= MaxContent
      BY <1>9, <2>2, <2>5, <2>6 DEF Tallied, More
    <3> QED BY <3>1, <3>2, <3>3 DEF Tallied
  <2>13. Walked(v, g, Q, V)
    BY <2>4, <2>7, <2>11, <2>12 DEF Walked
  <2> QED BY <1>1, <2>6, <2>13 DEF Judged
<1> QED BY <1>15, <1>16

LEMMA JudgedEnds ==
  ASSUME NEW U, U \subseteq Nodes(U), NEW v \in U, NEW e, Writes(e), Nested(e.stack, U, v),
         Len(e.stack) # 0, Ended(Top(e)), NEW P, NEW W, Walked(v, e, P, W)
  PROVE  Judged(EncodeStep(e), v)
<1>1. PICK S, n, f, g : S = e.stack /\ n = Len(S) /\ f = S[n] /\ g = EncodeStep(e)
  OBVIOUS
<1>2. f = Top(e)
  BY <1>1 DEF Top
<1>3. Nested(S, U, v) /\ n = Len(e.stack) /\ n # 0 /\ Ended(f)
  BY <1>1, <1>2
<1>4. Writes(g) /\ g.content = e.content /\ g.values = e.values /\ g.stack = Front(e.stack)
  BY <1>1, <1>2, <1>3, EncodeEnds
<1>5. Visited(v, P) /\ OnTheWay(v, S, W, P) /\ Tallied(v, P, e)
  BY <1>1 DEF Walked
<1>6. OnTheWay(v, Front(S), Front(W), P)
  BY <1>1, <1>3, <1>5, OnTheWayEnds
<1>7. Tallied(v, P, g)
  BY <1>4, <1>5 DEF Tallied
<1>8. Walked(v, g, P, Front(W))
  BY <1>1, <1>4, <1>5, <1>6, <1>7 DEF Walked
<1> QED BY <1>1, <1>4, <1>8 DEF Judged

LEMMA JudgedOn ==
  ASSUME NEW U, U \subseteq Nodes(U), NEW v \in U, NEW k, NEW e, Encodes(e, k, U, v),
         Judged(e, v)
  PROVE  Judged(EncodeStep(e), v)
<1>1. CASE Broke(e)
  <2>1. EncodeStep(e) = e
    BY <1>1, EncodeStays DEF Broke
  <2> QED BY <2>1
<1>2. CASE ~Broke(e)
  <2>1. Writes(e) /\ Nested(e.stack, U, v)
    BY <1>2 DEF Encodes
  <2>2. PICK P, W : Walked(v, e, P, W)
    BY <1>2 DEF Judged
  <2>3. CASE Len(e.stack) = 0
    <3>1. EncodeStep(e) = e
      BY <2>3, EncodeStays
    <3> QED BY <3>1
  <2>4. CASE Len(e.stack) # 0 /\ Ended(Top(e))
    BY <2>1, <2>2, <2>4, JudgedEnds
  <2>5. CASE Len(e.stack) # 0 /\ ~Ended(Top(e))
    BY <2>1, <2>2, <2>5, JudgedBegins
  <2> QED BY <2>3, <2>4, <2>5
<1> QED BY <1>1, <1>2

LEMMA JudgedAt ==
  ASSUME NEW U, U \subseteq Nodes(U), NEW v \in U, NEW k \in Nat
  PROVE  Judged(Encoding(v)[k], v)
<1>1. PICK E : E = Encoding(v)
  OBVIOUS
<1>2. E[0] = NewEncoder(v) /\ \A n \in Nat : E[n + 1] = EncodeStep(E[n])
  BY <1>1, EncodingIs
<1>3. ASSUME NEW n \in Nat PROVE Encodes(E[n], n, U, v)
  <2>1. <<>> \in Seq(Int)
    OBVIOUS
  <2> QED BY <1>1, <2>1, InLockstep
<1> DEFINE N == {n \in Nat : Judged(E[n], v)}
<1>4. 0 \in N
  BY <1>2, JudgedFirst
<1>5. ASSUME NEW n \in N PROVE n + 1 \in N
  <2>1. n \in Nat /\ Judged(E[n], v)
    OBVIOUS
  <2>2. Encodes(E[n], n, U, v)
    BY <1>3, <2>1
  <2>3. Judged(EncodeStep(E[n]), v)
    BY <2>1, <2>2, JudgedOn
  <2>4. E[n + 1] = EncodeStep(E[n])
    BY <1>2, <2>1
  <2> QED BY <2>1, <2>3, <2>4
<1>6. N \in SUBSET Nat
  OBVIOUS
<1> HIDE DEF N
<1>7. N = Nat
  BY <1>4, <1>5, <1>6, Induction
<1> QED BY <1>1, <1>7 DEF N

\* Who has been everywhere, and found all of it allowed, has found the value
\* within its limits.
LEMMA FoundWithin ==
  ASSUME NEW U, U \subseteq Nodes(U), NEW v \in U, NEW P, NEW W, NEW e, Walked(v, e, P, W),
         Len(e.stack) = 0
  PROVE  WithinLimits(v)
<1>1. Visited(v, P) /\ OnTheWay(v, e.stack, W, P) /\ Tallied(v, P, e)
  BY DEF Walked
<1>2. <<>> \in P /\ \A p \in P : AllVisited(v, P, p)
  <2>1. 2..Len(e.stack) = {}
    OBVIOUS
  <2> QED BY <1>1, <2>1 DEF OnTheWay
<1>3. ASSUME NEW p \in P, NEW i \in 1..Len(Parts(At(v, p)))
      PROVE  Append(p, i) \in P /\ KeySound(At(v, p), i)
  <2>1. PICK q : q = Append(p, i)
    OBVIOUS
  <2>2. q \in P
    <3>1. Further(v, p, i, q)
      BY <2>1 DEF Further
    <3> QED BY <1>2, <3>1 DEF AllVisited
  <2>3. p \in Seq(Nat) /\ Len(Parts(At(v, p))) \in Nat
    BY <1>1, LeadsIs DEF Visited
  <2>4. i \in Nat
    BY <2>3
  <2>5. Onto(p, i, q)
    BY <2>1, <2>3, <2>4 DEF Onto
  <2>6. KeySound(At(v, p), i)
    BY <1>1, <2>2, <2>5 DEF Visited
  <2> QED BY <2>1, <2>2, <2>6
<1>4. Places(v) \subseteq P
  <2>1. Closed(v, P)
    BY <1>2, <1>3 DEF Closed
  <2> QED BY <2>1, ClosedIs
<1>5. P \subseteq Places(v)
  <2> SUFFICES ASSUME NEW p \in P PROVE p \in Places(v)
    OBVIOUS
  <2>1. Leads(v, p) /\ Len(p) <= MaxDepth
    BY <1>1 DEF Visited
  <2>2. PICK m \in Nat : m = Len(p)
    BY <2>1, LeadsIs
  <2>3. PICK D \in Nat : D = MaxDepth
    BY LimitsAssumption
  <2>4. m <= D + 1
    BY <2>1, <2>2, <2>3
  <2> QED BY <2>1, <2>2, <2>3, <2>4, PlacesAre
<1>6. P = Places(v)
  BY <1>4, <1>5
<1>7. ASSUME NEW p \in P PROVE Len(p) <= MaxDepth /\ Sound(At(v, p))
  <2>1. Leads(v, p) /\ Len(p) <= MaxDepth /\ HeadSound(At(v, p))
    BY <1>1 DEF Visited
  <2>2. At(v, p) \in Nodes(U)
    BY <2>1, LeadsIs
  <2>3. \A i \in 1..Len(Parts(At(v, p))) : KeySound(At(v, p), i)
    BY <1>3
  <2> QED BY <2>1, <2>2, <2>3, SoundIs
<1>8. BytesOf(v, P) = Contents(v)
  <2> SUFFICES ASSUME NEW y \in Contents(v) PROVE Owner(y) \in P
    BY DEF BytesOf
  <2>1. y \in Contents(v)
    OBVIOUS
  <2>2. PICK p \in Places(v) : OwnedAt(v, p, y)
    BY <2>1, OwnerIs
  <2>3. Owner(y) = p \/ \E i \in 1..Len(Parts(At(v, p))) : Owner(y) = Append(p, i)
    BY <2>2 DEF OwnedAt
  <2> QED BY <1>3, <1>6, <2>2, <2>3
<1>9. Cardinality(Places(v)) <= MaxValues /\ Cardinality(Contents(v)) <= MaxContent
  BY <1>1, <1>6, <1>8 DEF Tallied
<1> QED BY <1>6, <1>7, <1>9 DEF WithinLimits

\* The running counts of the encoder are limits on the whole value: it writes
\* exactly what is within them.
LEMMA EncodesWithin ==
  ASSUME NEW U, U \subseteq Nodes(U), NEW v \in U
  PROVE  Encode(v).ok <=> WithinLimits(v)
<1>1. PICK e : e = Encode(v)
  OBVIOUS
<1>2. Judged(e, v)
  <2>1. PICK k \in Nat : k = Steps
    BY LimitsAssumption DEF Steps
  <2>2. e = Encoding(v)[k]
    BY <1>1, <2>1 DEF Encode
  <2> QED BY <2>2, JudgedAt
<1>3. CASE Broke(e) /\ ~WithinLimits(v)
  BY <1>1, <1>3 DEF Broke
<1>4. ASSUME Writes(e), NEW P, NEW W, Walked(v, e, P, W)
      PROVE  Encode(v).ok /\ WithinLimits(v)
  <2>1. Len(e.stack) = 0
    BY <1>1, <1>4, Through
  <2>2. WithinLimits(v)
    BY <1>4, <2>1, FoundWithin
  <2>3. e.ok
    BY <1>4 DEF Writes
  <2> QED BY <1>1, <2>2, <2>3
<1> QED BY <1>2, <1>3, <1>4 DEF Judged

\* The inductive invariant: what became of the value is what its encoding says.
Weighed ==
  /\ value \in Values
  /\ stage # "new" => (stage = "refused" <=> ~Encode(value).ok)

LEMMA InitWeighed == Init => Weighed
  BY DEF Init, Weighed

LEMMA NextWeighed == Weighed /\ [Next]_vars => Weighed'
<1> SUFFICES ASSUME Weighed, [Next]_vars PROVE Weighed'
  OBVIOUS
<1>1. CASE Send
  BY <1>1 DEF Weighed, Send
<1>2. CASE Damage
  BY <1>2 DEF Weighed, Damage
<1>3. CASE Receive
  BY <1>3 DEF Weighed, Receive
<1>4. CASE UNCHANGED vars
  BY <1>4 DEF Weighed, vars
<1> QED BY <1>1, <1>2, <1>3, <1>4 DEF Next

LEMMA WeighedIs == Weighed => RefusesOutOfLimits
<1>1. ASSUME value \in Values PROVE Encode(value).ok <=> WithinLimits(value)
  <2>1. Values \subseteq Nodes(Values)
    BY LimitsAssumption
  <2> QED BY <1>1, <2>1, EncodesWithin
<1> QED BY <1>1 DEF Weighed, RefusesOutOfLimits

\* to_wire() refuses a value exactly when the value as a whole is out of a limit,
\* whatever the limits: what its counts meet on the way comes to no more and no
\* less than that.
THEOREM RefusesByTheLimits == Spec => []RefusesOutOfLimits
<1>1. Spec => []Weighed
  BY InitWeighed, NextWeighed, PTL DEF Spec
<1> QED BY <1>1, WeighedIs, PTL

\* What is to be shown of a reply to v the event of which asks for a replacement.
RefusedFor(kind, v) ==
  InContract(v) /\ Structured(v) /\ HasArguments(v) =>
    (kind = "error" <=> ~WithinLimits(Replace(Pushed(Field(v, data)))))

LEMMA HookRefuses ==
  ASSUME NEW v \in Values, NEW r, r = Hook(v)
  PROVE  RefusedFor(r.kind, v)
<1> SUFFICES ASSUME InContract(v), Structured(v), HasArguments(v)
             PROVE  r.kind = "error" <=> ~WithinLimits(Replace(Pushed(Field(v, data))))
  BY DEF RefusedFor
<1>1. PICK x : x = Replace(Pushed(Field(v, data)))
  OBVIOUS
<1>2. PICK U : U \subseteq Nodes(U) /\ x \in U
  BY <1>1, ReplacementIs
<1>3. Encode(x).ok <=> WithinLimits(x)
  BY <1>2, EncodesWithin
<1>4. r = Wire(x)
  BY <1>1 DEF Hook
<1>5. r.kind = IF Encode(x).ok THEN "ok" ELSE "error"
  BY <1>4 DEF Wire, Error
<1> QED BY <1>1, <1>3, <1>5

\* The inductive invariant: the reply is to the value that was sent.
Reckoned == Sent /\ (Launch => RefusedFor(reply.kind, value))

LEMMA InitReckoned == HookInit => Reckoned
  BY InitSent DEF HookInit, Reckoned, Launch, NoReply

LEMMA NextReckoned == Reckoned /\ [HookNext]_hook => Reckoned'
<1> SUFFICES ASSUME Reckoned, [HookNext]_hook PROVE Reckoned'
  OBVIOUS
<1>1. Sent /\ (Launch => RefusedFor(reply.kind, value))
  BY DEF Reckoned
<1>2. [Next]_vars
  BY DEF HookNext, hook, vars, Invoke
<1>3. Sent' /\ value' = value
  <2>1. value' = value
    BY <1>2 DEF Next, Send, Damage, Receive, vars
  <2> QED BY <1>1, <1>2, <2>1, NextSent
<1>4. CASE UNCHANGED reply
  BY <1>1, <1>3, <1>4 DEF Reckoned, Launch
<1>5. CASE Invoke
  <2>1. got = value /\ value \in Values
    BY <1>1, <1>5 DEF Invoke, Sent, RoundTrip
  <2>2. ASSUME Launch' PROVE RefusedFor(reply'.kind, value)
    <3>1. PICK r : r = Hook(value)
      OBVIOUS
    <3>2. reply'.kind = r.kind
      BY <1>5, <2>1, <2>2, <3>1 DEF Invoke, Operations, Launch
    <3> QED BY <2>1, <3>1, <3>2, HookRefuses
  <2> QED BY <1>3, <2>2 DEF Reckoned
<1> QED BY <1>4, <1>5 DEF HookNext, hook

\* Whatever the event and the limits, the example answers an event that asks for
\* a replacement with an error exactly when the replacement is out of the limits.
THEOREM RefusesForItsSize == HookSpec => []RefusesOnlyTheOversized
<1>1. Reckoned => RefusesOnlyTheOversized
  BY DEF Reckoned, RefusedFor, RefusesOnlyTheOversized
<1> QED BY <1>1, InitReckoned, NextReckoned, PTL DEF HookSpec
=============================================================================
