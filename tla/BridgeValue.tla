----------------------------- MODULE BridgeValue -----------------------------
(***************************************************************************)
(* Bridge Value v1 (crates/aura-bridge-value, and the identical            *)
(* sdk/rust/aura-wasm-guest): `Encoder` and `Decoder`, two recursive       *)
(* descents that count depth, values and content separately, so that they  *)
(* must agree on every limit.                                              *)
(*                                                                         *)
(* A value is encoded, perhaps damaged by one edit, and decoded.  The wire *)
(* is a sequence of atoms: an atom is a MessagePack marker, a byte of      *)
(* content, or a whole number (a length, an integer, the bits of a float). *)
(* The limits are scaled down.  What makes a type name is KebabScan's.     *)
(*                                                                         *)
(* A descent is its stack of calls: one frame for every call of value()    *)
(* that has begun and not ended, and a step begins one or ends one.  The   *)
(* frame at the bottom is the caller's, an array of one of which nothing   *)
(* is written or read.                                                     *)
(***************************************************************************)
EXTENDS Integers, FiniteSets, Sequences, SequencesExt

CONSTANTS
  MaxDepth, MaxString, MaxBytes, MaxEntries, MaxContent, MaxValues,
  MaxName,  \* MAX_DEPTH .. MAX_TOTAL_VALUES, and 128 for metadata
  MaxId,    \* i64::MAX
  Values,   \* values tried, and with a value whatever is inside of it
  Fragile,  \* bound: those whose wire may be damaged
  Atoms     \* atoms an edit may put on the wire

-----------------------------------------------------------------------------
\* Markers, as they stand in value.rs.
Pair == 146     Triple == 147   Nil == 192      False == 194   True == 195
Bin32 == 198    Float64 == 203  Uint64 == 207   Int64 == 211
Str32 == 219    Array32 == 221

\* TAG_NULL .. TAG_ERROR.
Tags == [null |-> 0, bool |-> 1, integer |-> 2, float |-> 3, string |-> 4,
         bytes |-> 5, array |-> 6, map |-> 7, handle |-> 8, error |-> 9]
Tag(v) == Tags[v.kind]

\* The bits of an infinity or a NaN, and a byte that is not UTF-8.
NotFinite == 254
NotUtf8   == 255

ErrorCodes == <<"InvalidArgument", "InvalidResult", "PermissionDenied",
                "StaleHandle", "TypeMismatch", "Cancelled", "CallbackFailed",
                "Unavailable", "Internal">>

Codes == {ErrorCodes[i] : i \in 1..Len(ErrorCodes)}

\* A code's text; one atom stands for it.
WireCode(c) == <<CHOOSE i \in 1..Len(ErrorCodes) : ErrorCodes[i] = c>>
IsWireCode(s) == Len(s) = 1 /\ s[1] \in 1..Len(ErrorCodes)

\* HandleValue::new(); letters are 97, any other byte makes no type name.
IsTypeName(s) == Len(s) \in 1..MaxName /\ \A i \in 1..Len(s) : s[i] = 97
IsHandle(id, generation, name) ==
  id \in 1..MaxId /\ generation \in 1..MaxId /\ IsTypeName(name)

\* What Rust's types say of a value, and of one whose parts are in S.
Texts == Seq(Int \ {NotUtf8})
Scalars ==
       [kind : {"null"}] \cup [kind : {"bool"}, b : BOOLEAN]
  \cup [kind : {"integer", "float"}, n : Int]
  \cup [kind : {"string"}, s : Texts] \cup [kind : {"bytes"}, s : Seq(Int)]
  \cup [kind : {"handle"}, id : Nat, generation : Nat, name : Texts]
  \cup [kind : {"error"}, code : Codes]
Nodes(S) ==
  Scalars
  \cup [kind : {"array"}, items : Seq(S)]
  \cup [kind : {"map"}, entries : Seq([key : Texts, val : S])]

ASSUME LimitsAssumption ==
  /\ {MaxDepth, MaxString, MaxBytes, MaxEntries, MaxContent, MaxValues, MaxName,
      MaxId} \subseteq Nat
  /\ MaxName > 0  \* there is room for an error code
  /\ Values \subseteq Nodes(Values) /\ Atoms \subseteq Int

VARIABLES
  value,  \* what is sent
  wire,   \* its encoding, and what has become of it
  stage,  \* "new", "sent", "damaged", and then how it ended
  got     \* what was decoded

vars == <<value, wire, stage, got>>

\* The parts of a value, in order.
Parts(v) == CASE v.kind = "array" -> v.items
              [] v.kind = "map" -> v.entries
              [] OTHER -> <<>>
Part(v, i) == IF v.kind = "map" THEN v.entries[i].val ELSE v.items[i]

Array(s) == [kind |-> "array", items |-> s]

Top(x) == x.stack[Len(x.stack)]

-----------------------------------------------------------------------------
\* The encoder: the values it is inside of, with the part whose turn it is,
\* what it has written and counted, and whether it gave up.

Writing(v) == [of |-> v, next |-> 1]

NewEncoder(v) == [stack |-> <<Writing(Array(<<v>>))>>, out |-> <<>>,
                  content |-> 0, values |-> 0, ok |-> TRUE]

Fail(e) == [e EXCEPT !.ok = FALSE]
Emit(e, atoms) == [e EXCEPT !.out = @ \o atoms]

\* add_content(), of the encoder and of the decoder.
AddContent(e, n, limit) ==
  IF n > limit \/ e.content + n > MaxContent
    THEN Fail(e)
    ELSE [e EXCEPT !.content = @ + n]

WriteString(e, s) == Emit(e, <<Str32, Len(s)>> \o s)

PutString(e, s) == WriteString(AddContent(e, Len(s), MaxString), s)

PutEntries(e, s) ==
  IF Len(s) > MaxEntries THEN Fail(e) ELSE Emit(e, <<Array32, Len(s)>>)

\* What stands before the i-th part of v: its key, if v is a map.
PutKey(e, v, i) ==
  IF v.kind # "map" THEN e
  ELSE IF \E j \in 1..(i - 1) : v.entries[j].key = v.entries[i].key THEN Fail(e)
  ELSE PutString(Emit(e, <<Pair>>), v.entries[i].key)

\* Mutant: the root counted as a level.
RootCounts(depth) == depth >= MaxDepth

TooDeep(depth) == depth > MaxDepth

PutKind(e, v) ==
  CASE v.kind = "null"    -> Emit(e, <<Nil>>)
    [] v.kind = "bool"    -> Emit(e, <<IF v.b THEN True ELSE False>>)
    [] v.kind = "integer" -> Emit(e, <<Int64, v.n>>)
    [] v.kind = "float"   ->
         IF v.n = NotFinite THEN Fail(e) ELSE Emit(e, <<Float64, v.n>>)
    [] v.kind = "string"  -> PutString(e, v.s)
    [] v.kind = "bytes"   ->
         Emit(AddContent(e, Len(v.s), MaxBytes), <<Bin32, Len(v.s)>> \o v.s)
    [] v.kind = "array"   -> PutEntries(e, v.items)
    [] v.kind = "map"     -> PutEntries(e, v.entries)
    [] v.kind = "handle"  ->
         IF ~IsHandle(v.id, v.generation, v.name) THEN Fail(e)
         ELSE WriteString(Emit(e, <<Triple, Uint64, v.id, Uint64, v.generation>>),
                          v.name)
    [] v.kind = "error"   -> WriteString(e, WireCode(v.code))

\* value(), up to the values inside.
Put(e, v, depth) ==
  IF TooDeep(depth) \/ e.values >= MaxValues THEN Fail(e)
  ELSE PutKind(Emit([e EXCEPT !.values = @ + 1], <<Pair, Tag(v)>>), v)

\* The next part of the n-th value has its turn.
Onward(stack, n) == [stack EXCEPT ![n].next = @ + 1]

\* The next value begins, or the last ends.
EncodeStep(e) ==
  LET n == Len(e.stack)
      f == Top(e)
      v == Part(f.of, f.next)
  IN  IF ~e.ok \/ n = 0 THEN e
      ELSE IF f.next > Len(Parts(f.of)) THEN [e EXCEPT !.stack = Front(@)]
      ELSE [Put(PutKey(e, f.of, f.next), v, n - 1) EXCEPT
              !.stack = Append(Onward(@, n), Writing(v))]

\* Every value begins and ends once, and so does the caller's array.
Steps == 2 * MaxValues + 1

Encoding(v) ==
  LET run[n \in Nat] == IF n = 0 THEN NewEncoder(v) ELSE EncodeStep(run[n - 1])
  IN  run

Encode(v) == Encoding(v)[Steps]

-----------------------------------------------------------------------------
\* The decoder: the offset, the counts, `got`, what the last step read, and
\* the values it is inside of: what they are, how many parts they have, and
\* those it has read.

Reading(head, n) == [head |-> head, need |-> n, keys |-> <<>>, parts |-> <<>>]

NewDecoder(w) == [in |-> w, at |-> 0, content |-> 0, values |-> 0, ok |-> TRUE,
                  got |-> <<>>, stack |-> <<Reading([kind |-> "array"], 1)>>]

\* A step that only a decoder that has not given up takes.
Then(d, Step(_)) == IF d.ok THEN Step(d) ELSE d

Check(d, valid) == IF d.ok /\ ~valid THEN Fail(d) ELSE d

Read(d, n) ==
  IF d.ok /\ d.at + n <= Len(d.in)
    THEN [d EXCEPT !.at = @ + n, !.got = SubSeq(d.in, d.at + 1, d.at + n)]
    ELSE Fail(d)

Expect(d, atom) == Then(Read(d, 1), LAMBDA e : Check(e, e.got = <<atom>>))

\* One number behind its marker.
Number(d, marker) ==
  Then(Read(Expect(d, marker), 1), LAMBDA e : [e EXCEPT !.got = @[1]])

\* Read without its sign, a negative number is beyond every limit.
Length(d, marker) ==
  Then(Number(d, marker), LAMBDA e : Check(e, e.got \in Nat))

ReadUtf8(d, n) ==
  Then(Read(d, n), LAMBDA e :
    Check(e, \A i \in 1..Len(e.got) : e.got[i] # NotUtf8))

GetString(d) ==
  Then(Length(d, Str32), LAMBDA e :
    LET n == e.got IN Then(AddContent(e, n, MaxString), LAMBDA f : ReadUtf8(f, n)))

\* Mutant: metadata counted as content.
CountedMetadata(d) ==
  Then(Length(d, Str32), LAMBDA e :
    LET n == e.got IN Then(AddContent(e, n, MaxName), LAMBDA f : ReadUtf8(f, n)))

Metadata(d) ==
  Then(Length(d, Str32), LAMBDA e :
    IF e.got > MaxName THEN Fail(e) ELSE ReadUtf8(e, e.got))

GetBytes(d) ==
  Then(Length(d, Bin32), LAMBDA e :
    LET n == e.got IN Then(AddContent(e, n, MaxBytes), LAMBDA f : Read(f, n)))

Entries(d) ==
  Then(Length(d, Array32), LAMBDA e : Check(e, e.got <= MaxEntries))

\* A value whose parts are yet to be read.
GetNode(d, kind) ==
  Then(Entries(d), LAMBDA e : [e EXCEPT !.got = Reading([kind |-> kind], @)])

\* A value without parts, built from what was read.
Leaf(d, Build(_)) == Then(d, LAMBDA e : [e EXCEPT !.got = Reading(Build(e.got), 0)])

GetHandle(d) ==
  Then(Number(Expect(d, Triple), Uint64), LAMBDA e :
  Then(Number(e, Uint64), LAMBDA f :
  Then(Metadata(f), LAMBDA g :
    Leaf(Check(g, IsHandle(e.got, f.got, g.got)), LAMBDA x :
         [kind |-> "handle", id |-> e.got, generation |-> f.got, name |-> x]))))

GetKind(d, tag) ==
  CASE tag = Tags.null    -> Leaf(Expect(d, Nil), LAMBDA x : [kind |-> "null"])
    [] tag = Tags.bool    ->
         Leaf(Then(Read(d, 1), LAMBDA e : Check(e, e.got \in {<<True>>, <<False>>})),
              LAMBDA x : [kind |-> "bool", b |-> x = <<True>>])
    [] tag = Tags.integer ->
         Leaf(Number(d, Int64), LAMBDA x : [kind |-> "integer", n |-> x])
    [] tag = Tags.float   ->
         Leaf(Then(Number(d, Float64), LAMBDA e : Check(e, e.got # NotFinite)),
              LAMBDA x : [kind |-> "float", n |-> x])
    [] tag = Tags.string  ->
         Leaf(GetString(d), LAMBDA x : [kind |-> "string", s |-> x])
    [] tag = Tags.bytes   ->
         Leaf(GetBytes(d), LAMBDA x : [kind |-> "bytes", s |-> x])
    [] tag = Tags.array   -> GetNode(d, "array")
    [] tag = Tags.map     -> GetNode(d, "map")
    [] tag = Tags.handle  -> GetHandle(d)
    [] tag = Tags.error   ->
         Leaf(Then(Metadata(d), LAMBDA e : Check(e, IsWireCode(e.got))),
              LAMBDA x : [kind |-> "error", code |-> ErrorCodes[x[1]]])
    [] OTHER -> Fail(d)

\* The key of a map's next part; in an array there is none.
GetKey(d) ==
  LET f == Top(d) IN
  IF f.head.kind # "map" THEN [d EXCEPT !.got = <<>>]
  ELSE Then(GetString(Expect(d, Pair)), LAMBDA e :
         Check(e, \A i \in 1..Len(f.keys) : f.keys[i] # e.got))

\* value(), up to the values inside.
Get(d, depth) ==
  IF TooDeep(depth) \/ d.values >= MaxValues THEN Fail(d)
  ELSE Then(Read(Expect([d EXCEPT !.values = @ + 1], Pair), 1), LAMBDA e :
         GetKind(e, e.got[1]))

Built(f) ==
  CASE f.head.kind = "array" -> Array(f.parts)
    [] f.head.kind = "map"   ->
         [kind |-> "map",
          entries |-> [i \in 1..f.need |-> [key |-> f.keys[i], val |-> f.parts[i]]]]
    [] OTHER -> f.head

\* What has been read of the n-th value: the next key, the next part.
WithKey(stack, n, key) == [stack EXCEPT ![n].keys = Append(@, key)]
WithPart(stack, n, v) == [stack EXCEPT ![n].parts = Append(@, v)]

\* The value at the top has ended, and is a part of the one below.
Deliver(d) ==
  LET n == Len(d.stack)
      v == Built(Top(d))
  IN  IF n = 1 THEN [d EXCEPT !.stack = <<>>, !.got = v]
      ELSE [d EXCEPT !.stack = WithPart(Front(@), n - 1, v)]

DecodeStep(d) ==
  LET n == Len(d.stack)
      f == Top(d)
  IN  IF ~d.ok \/ n = 0 THEN d
      ELSE IF Len(f.parts) = f.need THEN Deliver(d)
      ELSE Then(GetKey(d), LAMBDA e : Then(Get(e, n - 1), LAMBDA g :
             [g EXCEPT !.stack = Append(WithKey(@, n, e.got), g.got)]))

Decoding(w) ==
  LET run[n \in Nat] == IF n = 0 THEN NewDecoder(w) ELSE DecodeStep(run[n - 1])
  IN  run

\* Mutant: what follows the value is ignored.
Prefix(d) == d.ok

\* from_wire(): one value and nothing behind it.
Complete(d) == d.ok /\ d.at = Len(d.in)

Decode(w) == Decoding(w)[Steps]
Decoded(w) == Decode(w).got.items[1]

-----------------------------------------------------------------------------
\* One value on its way.

Init ==
  /\ value \in Values
  /\ wire = <<>> /\ stage = "new" /\ got = <<>>

\* to_wire().
Send ==
  /\ stage = "new"
  /\ LET e == Encode(value) IN
       /\ wire' = IF e.ok THEN e.out ELSE <<>>
       /\ stage' = IF e.ok THEN "sent" ELSE "refused"
  /\ UNCHANGED <<value, got>>

\* One edit of the wire: an atom changed, lost or put in.
Edits(w) ==
       {ReplaceAt(w, i, a) : i \in 1..Len(w), a \in Atoms}
  \cup {RemoveAt(w, i) : i \in 1..Len(w)}
  \cup {InsertAt(w, i, a) : i \in 1..(Len(w) + 1), a \in Atoms}

Damage ==
  /\ stage = "sent" /\ value \in Fragile
  /\ stage' = "damaged"
  /\ wire' \in Edits(wire) \ {wire}
  /\ UNCHANGED <<value, got>>

\* from_wire().
Receive ==
  /\ stage \in {"sent", "damaged"}
  /\ LET d == Decode(wire) IN
       IF Complete(d)
         THEN got' = Decoded(wire) /\ stage' = (IF stage = "sent" THEN "arrived"
                                                          ELSE "accepted")
         ELSE stage' = (IF stage = "sent" THEN "lost" ELSE "rejected")
              /\ UNCHANGED got
  /\ UNCHANGED <<value, wire>>

Next == Send \/ Damage \/ Receive

Spec == Init /\ [][Next]_vars

-----------------------------------------------------------------------------
\* Properties.

\* Everything that can be encoded arrives as it was: the decoder counts
\* nothing the encoder does not count, and knows no limit it does not know.
RoundTrip ==
  /\ stage # "lost"
  /\ stage = "arrived" => got = value

\* Canonical: a value has one encoding.  Whatever the wire, if the decoder
\* accepts it, it is what the encoder writes for the value the decoder found.
Canonical ==
  stage = "accepted" => Encode(got).ok /\ Encode(got).out = wire

\* The places in v, by the parts that lead there: level by level, as deep as
\* a value may nest and one deeper.
At(v, p) ==
  LET down[n \in 0..Len(p)] == IF n = 0 THEN v ELSE Part(down[n - 1], p[n])
  IN  down[Len(p)]
Level(v) ==
  LET level[n \in Nat] ==
        IF n = 0 THEN {<<>>}
        ELSE UNION {{Append(p, i) : i \in 1..Len(Parts(At(v, p)))} : p \in level[n - 1]}
  IN  level
Places(v) == UNION {Level(v)[n] : n \in 0..(MaxDepth + 1)}

\* What is allowed of one value by itself.
Sound(v) ==
  CASE v.kind = "float"  -> v.n # NotFinite
    [] v.kind = "string" -> Len(v.s) <= MaxString
    [] v.kind = "bytes"  -> Len(v.s) <= MaxBytes
    [] v.kind = "array"  -> Len(v.items) <= MaxEntries
    [] v.kind = "map"    ->
         /\ Len(v.entries) <= MaxEntries
         /\ \A i, j \in 1..Len(v.entries) :
              i # j => v.entries[i].key # v.entries[j].key
         /\ \A i \in 1..Len(v.entries) : Len(v.entries[i].key) <= MaxString
    [] v.kind = "handle" -> IsHandle(v.id, v.generation, v.name)
    [] OTHER -> TRUE

\* The bytes of content v has itself, keys included.
Own(v) ==
  CASE v.kind \in {"string", "bytes"} -> {<<0, i>> : i \in 1..Len(v.s)}
    [] v.kind = "map" -> UNION {{<<i, j>> : j \in 1..Len(v.entries[i].key)} :
                                  i \in 1..Len(v.entries)}
    [] OTHER -> {}
Contents(v) == UNION {{<<p, c>> : c \in Own(At(v, p))} : p \in Places(v)}

WithinLimits(v) ==
  /\ \A p \in Places(v) : Len(p) <= MaxDepth /\ Sound(At(v, p))
  /\ Cardinality(Places(v)) <= MaxValues
  /\ Cardinality(Contents(v)) <= MaxContent

\* The running counts of the encoder amount to limits on the whole value: it
\* refuses a value exactly when the value is out of them.
RefusesOutOfLimits ==
  stage # "new" => (stage = "refused" <=> ~WithinLimits(value))
=============================================================================
