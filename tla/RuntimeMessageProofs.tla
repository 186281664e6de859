------------------------- MODULE RuntimeMessageProofs -------------------------
(***************************************************************************)
(* RuntimeMessage's two properties for every bound of the ids.  Both       *)
(* sides read the same table of fields, so the argument is made once per   *)
(* kind of field and lifted to bodies and envelopes.                       *)
(*                                                                         *)
(* And KebabScan's two: the loop that decides which codes a message may    *)
(* carry accepts exactly the kebab names, for every set of separators,     *)
(* every length limit and either order of the length check.                *)
(***************************************************************************)
EXTENDS RuntimeMessage, KebabScan, TLAPS

Holds == {"text", "bytes", "positive", "natural", "code", "message"}

\* What Rust's types let Message::new be given.
Shaped(m) ==
  /\ m = [id |-> m.id, kind |-> m.kind, body |-> m.body]
  /\ m.id \in Unsigned /\ m.kind \in Kinds
  /\ m.body = [f \in DOMAIN Fields(m.kind) |-> m.body[f]]
  /\ \A f \in DOMAIN Fields(m.kind) : m.body[f] \in Typed(Fields(m.kind)[f])

IsMap(e) == e = [f \in DOMAIN e |-> e[f]]

\* What a peer can put on the wire: a map of tagged values.
IsWire(w) ==
  /\ IsMap(w)
  /\ \A f \in DOMAIN w :
        /\ w[f] = <<w[f][1], w[f][2]>>
        /\ w[f][1] = "map" => IsMap(w[f][2])

-----------------------------------------------------------------------------
\* Every field of every kind holds one of six things.
LEMMA FieldsHold ==
  \A kind \in Kinds : \A f \in DOMAIN Fields(kind) : Fields(kind)[f] \in Holds
<1> SUFFICES ASSUME NEW kind \in Kinds, NEW f \in DOMAIN Fields(kind)
             PROVE Fields(kind)[f] \in Holds
  OBVIOUS
<1>1. CASE kind = "load"
  BY <1>1 DEF Fields, Holds
<1>2. CASE kind = "invoke"
  BY <1>2 DEF Fields, Holds
<1>3. CASE kind = "bridge-invoke"
  BY <1>3 DEF Fields, Holds
<1>4. CASE kind \in {"result", "callback-result"}
  BY <1>4 DEF Fields, Holds
<1>5. CASE kind = "error"
  BY <1>5 DEF Fields, Holds
<1>6. CASE kind = "callback-error"
  BY <1>6 DEF Fields, Holds
<1>7. CASE kind \in {"retain-handle", "release-handle"}
  BY <1>7 DEF Fields, Holds
<1>8. CASE kind \in Plain
  BY <1>8 DEF Fields, Plain, NoFields
<1> QED BY <1>1, <1>2, <1>3, <1>4, <1>5, <1>6, <1>7, <1>8 DEF Kinds, Plain, Even

\* What validate() lets through the reader takes, field by field.
LEMMA ReaderTakes ==
  ASSUME NEW holds \in Holds, NEW v \in Typed(holds), Valid(holds, v)
  PROVE  Reads(holds, v)
<1>1. CASE holds = "bytes"
  BY <1>1 DEF Typed, Reads, KindOf, Bytes
<1>2. CASE holds \in {"positive", "natural"}
  <2>1. v \in Unsigned /\ KindOf(holds) = "integer"
    BY <1>2 DEF Typed, KindOf
  <2>2. CASE holds = "positive"
    <3>1. v[2] \in 1..MaxId
      BY <2>2 DEF Valid
    <3> QED BY <2>1, <2>2, <3>1, IdAssumption DEF Reads, Unsigned
  <2>3. CASE holds = "natural"
    <3>1. v[2] \in 0..MaxId
      BY <2>3 DEF Valid
    <3> QED BY <2>1, <2>3, <3>1, IdAssumption DEF Reads, Unsigned
  <2> QED BY <1>2, <2>2, <2>3
<1>3. CASE holds \in {"text", "code", "message"}
  BY <1>3 DEF Typed, Reads, KindOf, Strings
<1> QED BY <1>1, <1>2, <1>3 DEF Holds

\* A message that new() accepts is read back as it was.
LEMMA RoundTrip ==
  ASSUME NEW m, Shaped(m), Accepts(m)
  PROVE  FromWire(Envelope(m)) /\ Read(Envelope(m)) = m
<1> DEFINE w == Envelope(m)
<1>1. /\ w.protocolVersion = <<"integer", 1>> /\ w.requestId = m.id
      /\ w.kind = <<"string", m.kind>> /\ w.payload = <<"map", m.body>>
      /\ DOMAIN w = EnvelopeNames
  BY DEF Envelope, EnvelopeNames
<1>2. ReadsEnvelope(w)
  <2>1. Reads("positive", m.id)
    BY IdAssumption DEF Reads, KindOf, Accepts, Shaped, Unsigned
  <2> QED BY <1>1, <2>1 DEF ReadsEnvelope, Exactly, Shaped
<1>3. ReadsBody(m.kind, m.body)
  <2>1. DOMAIN m.body = DOMAIN Fields(m.kind)
    BY DEF Shaped
  <2>2. ASSUME NEW f \in DOMAIN Fields(m.kind) PROVE Reads(Fields(m.kind)[f], m.body[f])
    <3>1. Fields(m.kind)[f] \in Holds /\ m.body[f] \in Typed(Fields(m.kind)[f])
      BY FieldsHold DEF Shaped
    <3>2. Valid(Fields(m.kind)[f], m.body[f])
      BY <2>1 DEF Accepts, Validates
    <3> QED BY <3>1, <3>2, ReaderTakes
  <2> QED BY <2>1, <2>2 DEF ReadsBody, Exactly
<1> HIDE DEF w
<1>4. Read(w) = m
  BY <1>1 DEF Read, Shaped
<1>5. FromWire(w)
  BY <1>1, <1>2, <1>3, <1>4 DEF FromWire
<1> QED BY <1>4, <1>5 DEF w

\* Nothing on the wire is passed over: what was read, written again, is the
\* wire.
LEMMA Exact ==
  ASSUME NEW w, IsWire(w), FromWire(w)
  PROVE  Accepts(Read(w)) /\ Envelope(Read(w)) = w
<1>1. DOMAIN w = EnvelopeNames
  BY DEF FromWire, ReadsEnvelope, Exactly
<1> DEFINE kind == w.kind[2]  body == w.payload[2]  m == Read(w)
<1>2. w.kind = <<"string", kind>> /\ w.payload = <<"map", body>> /\ IsMap(body)
  BY <1>1 DEF IsWire, FromWire, ReadsEnvelope, EnvelopeNames
<1>3. body = [f \in DOMAIN Fields(kind) |-> body[f]]
  BY <1>2 DEF IsMap, FromWire, ReadsBody, Exactly
<1>4. w.protocolVersion = <<"integer", 1>>
  BY DEF FromWire, ReadsEnvelope
<1>5. m.id = w.requestId /\ m.kind = kind /\ m.body = body
  BY <1>3 DEF Read
<1>6. w = [f \in EnvelopeNames |-> w[f]]
  BY <1>1 DEF IsWire, IsMap
<1> HIDE DEF kind, body, m
<1>7. Envelope(m) = w
  BY <1>2, <1>4, <1>5, <1>6 DEF Envelope, EnvelopeNames
<1> QED BY <1>7 DEF m, FromWire

-----------------------------------------------------------------------------
\* Changing, losing or adding an entry leaves a map of tagged values.
LEMMA EditsAreWires ==
  ASSUME NEW w, IsWire(w), NEW v, v = <<v[1], v[2]>>, v[1] = "map" => IsMap(v[2]),
         NEW e \in Edits(w, v)
  PROVE  IsWire(e)
<1>1. CASE e \in {[w EXCEPT ![f] = v] : f \in DOMAIN w}
  BY <1>1 DEF IsWire, IsMap
<1>2. CASE e \in {[g \in DOMAIN w \ {f} |-> w[g]] : f \in DOMAIN w}
  <2>1. PICK f \in DOMAIN w : e = [g \in DOMAIN w \ {f} |-> w[g]]
    BY <1>2
  <2>2. IsMap(e) /\ \A g \in DOMAIN e : g \in DOMAIN w /\ e[g] = w[g]
    BY <2>1 DEF IsMap
  <2> QED BY <2>2 DEF IsWire
<1>3. CASE e = [g \in DOMAIN w \cup {"unknown"} |-> IF g \in DOMAIN w THEN w[g] ELSE v]
  BY <1>3 DEF IsWire, IsMap
<1> QED BY <1>1, <1>2, <1>3 DEF Edits

\* The same for the body, whose entries the reader looks at one by one.
LEMMA EditsAreMaps ==
  ASSUME NEW w, IsMap(w), NEW v, NEW e \in Edits(w, v)
  PROVE  IsMap(e)
BY DEF IsMap, Edits

\* How far the message has come, and what it is on the way.
Travels ==
  /\ Shaped(message)
  /\ stage \notin {"new", "invalid"} => Accepts(message)
  /\ stage = "sent" => wire = Envelope(message)
  /\ stage = "changed" => IsWire(wire)
  /\ Delivered /\ OnlyMessages

LEMMA EnvelopeIsWire ==
  ASSUME NEW m, Shaped(m)
  PROVE  IsWire(Envelope(m)) /\ "payload" \in DOMAIN Envelope(m)
         /\ Envelope(m).payload[2] = m.body /\ IsMap(m.body)
<1>1. m.id = <<m.id[1], m.id[2]>> /\ m.id[1] # "map"
  BY DEF Shaped, Unsigned
<1>2. IsMap(m.body)
  BY DEF Shaped, IsMap
<1> QED BY <1>1, <1>2 DEF Envelope, IsWire, IsMap

LEMMA TravelsInit == Init => Travels
<1> SUFFICES ASSUME Init PROVE Travels
  OBVIOUS
<1>1. PICK kind \in Kinds, id \in Unsigned :
        \E body \in [DOMAIN Fields(kind) -> Strings \cup Bytes \cup Unsigned] :
          /\ \A f \in DOMAIN Fields(kind) : body[f] \in Typed(Fields(kind)[f])
          /\ message = [id |-> id, kind |-> kind, body |-> body]
  BY DEF Init
<1>2. Shaped(message)
  BY <1>1 DEF Shaped
<1> QED BY <1>2 DEF Init, Travels, Delivered, OnlyMessages

LEMMA TravelsStep == Travels /\ [Next]_vars => Travels'
<1> SUFFICES ASSUME Travels, [Next]_vars PROVE Travels'
  OBVIOUS
<1>1. CASE New
  BY <1>1 DEF New, Travels, Delivered, OnlyMessages
<1>2. CASE Send
  BY <1>2 DEF Send, Travels, Delivered, OnlyMessages
<1>3. CASE Change
  <2>1. Shaped(message) /\ Accepts(message) /\ wire = Envelope(message) /\ IsWire(wire)
    BY <1>3, EnvelopeIsWire DEF Change, Travels
  <2>2. IsWire(wire')
    <3>1. ASSUME NEW v \in Strings \cup Bytes \cup Signed, wire' \in Edits(wire, v)
          PROVE IsWire(wire')
      <4>1. v = <<v[1], v[2]>> /\ v[1] # "map"
        BY <3>1 DEF Strings, Bytes, Signed
      <4> QED BY <2>1, <3>1, <4>1, EditsAreWires
    <3>2. ASSUME NEW v \in Strings \cup Bytes \cup Signed, NEW body \in Edits(wire.payload[2], v),
                 wire' = [wire EXCEPT !.payload = <<"map", body>>]
          PROVE IsWire(wire')
      <4>1. IsMap(body)
        BY <2>1, EnvelopeIsWire, EditsAreMaps
      <4> QED BY <2>1, <3>2, <4>1 DEF IsWire, IsMap
    <3>3. ASSUME NEW kind \in Kinds, wire' = [wire EXCEPT !.kind = <<"string", kind>>]
          PROVE IsWire(wire')
      BY <2>1, <3>3 DEF IsWire, IsMap
    <3> QED BY <1>3, <3>1, <3>2, <3>3 DEF Change
  <2> QED BY <1>3, <2>1, <2>2 DEF Change, Travels, Delivered, OnlyMessages
<1>4. CASE Receive
  <2>1. CASE stage = "sent"
    <3>1. FromWire(wire) /\ Read(wire) = message
      BY <2>1, RoundTrip DEF Travels
    <3> QED BY <1>4, <2>1, <3>1 DEF Receive, Travels, Delivered, OnlyMessages
  <2>2. CASE stage = "changed"
    <3>1. FromWire(wire) => Accepts(Read(wire)) /\ Envelope(Read(wire)) = wire
      BY <2>2, Exact DEF Travels
    <3> QED BY <1>4, <2>2, <3>1 DEF Receive, Travels, Delivered, OnlyMessages
  <2> QED BY <1>4, <2>1, <2>2 DEF Receive
<1>5. CASE UNCHANGED vars
  BY <1>5 DEF vars, Travels, Delivered, OnlyMessages
<1> QED BY <1>1, <1>2, <1>3, <1>4, <1>5 DEF Next

LEMMA TravelsInside == Spec => []Travels
BY TravelsInit, TravelsStep, PTL DEF Spec

\* What new() accepts and a frame holds is what from_wire() returns.
THEOREM ArrivesAsSent == Spec => []Delivered
<1>1. Travels => Delivered
  BY DEF Travels
<1> QED BY <1>1, TravelsInside, PTL

\* What from_wire() accepts of another program is a message, all of it.
THEOREM TakesOnlyMessages == Spec => []OnlyMessages
<1>1. Travels => OnlyMessages
  BY DEF Travels
<1> QED BY <1>1, TravelsInside, PTL

-----------------------------------------------------------------------------
\* The loops over the texts of a message.

\* What the bytes looked at so far have shown.
Scanned ==
  /\ separator <=> (position > 0 /\ text[position] \in Separators)
  /\ position > 0 => text[1] = "lower" /\ ~TooLongAtOnce
  /\ \A i \in 1..position : text[i] \in Separators \cup {"lower", "digit"}
  /\ \A i \in 1..position :
       text[i] \in Separators => i = position \/ text[i + 1] \notin Separators

ScanInv == TypeOK /\ Scanned /\ AcceptsExactlyKebab

LEMMA InitialTexts ==
  ASSUME NEW t \in UNION {[1..n -> Classes] : n \in 0..TextLimit}
  PROVE  t \in Seq(Classes) /\ Len(t) \in Nat
<1>1. PICK n \in 0..TextLimit : t \in [1..n -> Classes]
  OBVIOUS
<1>2. n \in Nat
  BY ScanAssumption
<1> QED BY <1>1, <1>2

LEMMA ScanInvInit == ScanInit => ScanInv
<1> SUFFICES ASSUME ScanInit PROVE ScanInv
  OBVIOUS
<1>1. text \in UNION {[1..n -> Classes] : n \in 0..TextLimit}
  BY DEF ScanInit
<1>2. text \in Seq(Classes) /\ Len(text) \in Nat
  BY <1>1, InitialTexts
<1>3. loop \in Loops /\ position = 0 /\ separator = FALSE /\ verdict = "none"
  BY DEF ScanInit
<1>4. TypeOK /\ AcceptsExactlyKebab
  <2>1. position \in 0..Len(text) /\ verdict \in {"none", "good", "bad"}
    BY <1>2, <1>3
  <2>2. separator \in BOOLEAN
    BY <1>3
  <2>3. AcceptsExactlyKebab
    BY <1>3 DEF AcceptsExactlyKebab
  <2> QED BY <1>2, <1>3, <2>1, <2>2, <2>3 DEF TypeOK
<1>5. ~separator /\ ~(position > 0)
  BY <1>3
<1>6. 1..position = {}
  BY <1>3
<1> QED BY <1>4, <1>5, <1>6 DEF ScanInv, Scanned

\* A byte outside the words' alphabet, or a separator after a separator, is
\* in no name.
LEMMA ScanInvStep == ScanInv /\ [ScanNext]_scan => ScanInv'
<1> SUFFICES ASSUME ScanInv, [ScanNext]_scan PROVE ScanInv'
  OBVIOUS
<1>0. UNCHANGED loop
  BY DEF ScanNext, Measure, First, Byte, Finish, Decide, scan
<1> USE <1>0, ScanAssumption DEF ScanInv, Separators, LengthFirst
<1>1. CASE verdict = "none" /\ Measure
  <2>1. ~Kebab
    BY <1>1 DEF Measure, TooLongAtOnce, TooLong, Kebab, TypeOK
  <2> QED
    BY <1>1, <2>1 DEF Measure, Decide, TypeOK, Scanned, AcceptsExactlyKebab,
      Kebab, TooLongAtOnce, TooLong
<1>2. CASE verdict = "none" /\ First
  <2>1. CASE Begins
    BY <1>2, <2>1 DEF First, Begins, TypeOK, Scanned, AcceptsExactlyKebab,
      TooLongAtOnce, TooLong
  <2>2. CASE ~Begins
    <3>1. ~Kebab
      BY <2>2 DEF Begins, Kebab, TypeOK
    <3> QED
      BY <1>2, <2>2, <3>1 DEF First, Begins, Decide, TypeOK, Scanned,
        AcceptsExactlyKebab, Kebab, TooLongAtOnce, TooLong
  <2> QED BY <2>1, <2>2
<1>3. CASE verdict = "none" /\ Byte
  <2> DEFINE c == text[position + 1]
  <2>1. c \in Classes
    BY <1>3 DEF Byte, TypeOK
  <2>2. CASE ByteFits(c)
    <3>1. /\ position' = position + 1 /\ separator' = (c \in Separators)
          /\ UNCHANGED <<loop, text, verdict>>
      BY <1>3, <2>2 DEF Byte, Flag
    <3>2. TypeOK' /\ AcceptsExactlyKebab'
      BY <1>3, <3>1 DEF Byte, TypeOK, AcceptsExactlyKebab
    <3>3. Scanned'
      <4>1. /\ position \in 1..(Len(text) - 1) /\ position' = position + 1
            /\ text' = text /\ text[position'] = c /\ position' > 0
        BY <1>3, <3>1 DEF Byte, TypeOK
      <4>2. (separator <=> (position > 0 /\ text[position] \in Separators))'
        BY <3>1, <4>1
      <4>3. (position > 0 => text[1] = "lower" /\ ~TooLongAtOnce)'
        BY <4>1 DEF Scanned, TooLongAtOnce, TooLong
      <4>4. (\A i \in 1..position :
               text[i] \in Separators \cup {"lower", "digit"})'
        <5>1. c \in Separators \cup {"lower", "digit"}
          BY <2>2 DEF ByteFits
        <5>2. \A i \in 1..position' : i \in 1..position \/ i = position'
          BY <4>1
        <5> QED BY <4>1, <5>1, <5>2 DEF Scanned
      <4>5. c \in Separators => text[position] \notin Separators
        <5>1. Separators \subseteq {".", "-"}
          BY DEF TypeOK
        <5> QED BY <2>2, <4>1, <5>1 DEF ByteFits, Scanned
      <4>6. (\A i \in 1..position : text[i] \in Separators =>
               i = position \/ text[i + 1] \notin Separators)'
        BY <4>1, <4>5 DEF Scanned
      <4> QED BY <4>2, <4>3, <4>4, <4>6 DEF Scanned
    <3> QED BY <3>2, <3>3
  <2>3. CASE ~ByteFits(c)
    <3>1. ~Kebab
      <4>1. position \in 1..Len(text) /\ position + 1 \in 1..Len(text)
        BY <1>3 DEF Byte, TypeOK
      <4>2. CASE c \in Separators
        <5>1. text[position] \in Separators
          BY <2>3, <4>2 DEF ByteFits, Scanned
        <5> QED BY <4>1, <4>2, <5>1 DEF Kebab
      <4>3. CASE c \notin Separators
        BY <2>3, <4>1, <4>3 DEF ByteFits, Kebab
      <4> QED BY <4>2, <4>3
    <3> QED
      BY <1>3, <2>3, <3>1 DEF Byte, Decide, TypeOK, Scanned,
        AcceptsExactlyKebab, Kebab, TooLongAtOnce, TooLong
  <2> QED BY <2>2, <2>3
<1>4. CASE verdict = "none" /\ Finish
  <2>1. EndsWell <=> Kebab
    BY <1>4 DEF Finish, EndsWell, Kebab, Scanned, TypeOK, TooLongAtOnce, TooLong
  <2> QED
    BY <1>4, <2>1 DEF Finish, Decide, TypeOK, Scanned, AcceptsExactlyKebab,
      Kebab, TooLongAtOnce, TooLong
<1>5. CASE UNCHANGED scan
  BY <1>5 DEF scan, TypeOK, Scanned, AcceptsExactlyKebab, Kebab, TooLongAtOnce,
    TooLong
<1> QED BY <1>1, <1>2, <1>3, <1>4, <1>5 DEF ScanNext

LEMMA ScanInvariant == ScanSpec => []ScanInv
BY ScanInvInit, ScanInvStep, PTL DEF ScanSpec

\* The scan never looks behind the text, whatever the text.
THEOREM ScanTypeCorrect == ScanSpec => []TypeOK
BY ScanInvariant, PTL DEF ScanInv

\* Remembering one bit about the last byte is enough: what the loop accepts
\* is what the definition of the names says.
THEOREM ScanIsExact == ScanSpec => []AcceptsExactlyKebab
BY ScanInvariant, PTL DEF ScanInv
=============================================================================
