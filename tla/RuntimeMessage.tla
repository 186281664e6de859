--------------------------- MODULE RuntimeMessage ---------------------------
(***************************************************************************)
(* Messages of the process protocol (crates/aura-runtime-protocol):        *)
(* `Message::new`, `to_wire` and `from_wire`.  What a message must be is   *)
(* said three times in the code: validate() for what is sent, from_value() *)
(* for what is received, exact_map() for the fields that must be there.    *)
(*                                                                         *)
(* A message is offered to new(), written as a Bridge map, perhaps changed *)
(* by a peer in one field, and read.  Texts, byte sequences and numbers    *)
(* are reduced to the classes the checks tell apart; the order of a map's  *)
(* entries, which neither side looks at, is left out.  The wire form of    *)
(* the map itself is BridgeValue's, what a code is KebabScan's.            *)
(***************************************************************************)
EXTENDS Integers

CONSTANT MaxId  \* i64::MAX, scaled down

ASSUME IdAssumption == MaxId \in Nat \ {0}

VARIABLES
  message,  \* what is offered to Message::new
  wire,     \* the Bridge map on its way
  stage,
  got       \* what from_wire() made of it

vars == <<message, wire, stage, got>>

-----------------------------------------------------------------------------
\* Values, tagged with their Bridge kind.

\* "long" is more than 4096 bytes, "huge" more than a Bridge value may carry,
\* "edge" just so much that its frame is too long.
Texts    == {"blank", "kebab", "plain", "long", "huge"}
Blobs    == {"small", "edge", "huge"}
Strings  == {"string"} \X Texts
Bytes    == {"bytes"} \X Blobs
Unsigned == {"integer"} \X (0..(2 * MaxId + 1))
Signed   == {"integer"} \X (-(MaxId + 1)..MaxId)

NoFields == [f \in {} |-> f]

Plain == {"hello", "enable", "disable", "shutdown", "ok"}
Even  == {"bridge-invoke", "retain-handle", "release-handle",
          "callback-result", "callback-error"}
Kinds == Plain \cup Even \cup {"load", "invoke", "result", "error"}

\* The fields of a body and what they hold.
Fields(kind) ==
  CASE kind = "load" ->
         [packageRoot |-> "text", entrypoint |-> "text",
          pluginId |-> "positive", session |-> "positive"]
    [] kind = "invoke" ->
         [operation |-> "text", input |-> "bytes", callbackId |-> "natural"]
    [] kind = "bridge-invoke" -> [operation |-> "text", input |-> "bytes"]
    [] kind \in {"result", "callback-result"} -> [output |-> "bytes"]
    [] kind = "error" -> [code |-> "code", message |-> "message"]
    [] kind = "callback-error" -> [code |-> "code"]
    [] kind \in {"retain-handle", "release-handle"} ->
         [objectId |-> "positive", generation |-> "positive"]
    [] OTHER -> NoFields

\* The values Rust's types let a field have.
Typed(holds) ==
  CASE holds = "bytes" -> Bytes
    [] holds \in {"positive", "natural"} -> Unsigned
    [] OTHER -> Strings

-----------------------------------------------------------------------------
\* Sending.

\* An error message is bounded, other texts are not.
Bounded(x) == x \notin {"blank", "long", "huge"}

\* validate(), for one field.
Valid(holds, v) ==
  CASE holds = "text"     -> v[2] # "blank"
    [] holds = "message"  -> Bounded(v[2])
    [] holds = "code"     -> v[2] = "kebab"
    [] holds = "positive" -> v[2] \in 1..MaxId
    [] holds = "natural"  -> v[2] \in 0..MaxId
    [] holds = "bytes"    -> TRUE

Validates(m) ==
  \A f \in DOMAIN m.body : Valid(Fields(m.kind)[f], m.body[f])

\* Even ids number the child's callbacks and their answers.
OwnDirection(m) == (m.id[2] % 2 = 0) <=> (m.kind \in Even)

\* Message::new().
Accepts(m) == m.id[2] \in 1..MaxId /\ OwnDirection(m) /\ Validates(m)

Envelope(m) ==
  [protocolVersion |-> <<"integer", 1>>, requestId |-> m.id,
   kind |-> <<"string", m.kind>>, payload |-> <<"map", m.body>>]

\* to_wire() refuses what exceeds the limits of a Bridge value, and
\* write_frame() a frame that is too long.
Oversized == {"string", "bytes"} \X {"huge", "edge"}
Fits(m) == \A f \in DOMAIN m.body : m.body[f] \notin Oversized

-----------------------------------------------------------------------------
\* Receiving.

\* Mutant: fields nobody asked for are ignored.
AtLeast(entries, names) == names \subseteq DOMAIN entries

\* exact_map().
Exactly(entries, names) == DOMAIN entries = names

\* The Bridge kind of a field.
KindOf(holds) ==
  CASE holds = "bytes" -> "bytes"
    [] holds \in {"positive", "natural"} -> "integer"
    [] OTHER -> "string"

\* Mutant: every number read by positive_id().
PositiveOnly(holds, v) ==
  v[1] = KindOf(holds) /\ (v[1] = "integer" => v[2] > 0)

\* owned_string(), bytes(), positive_id() and nonnegative_id().
Reads(holds, v) ==
  /\ v[1] = KindOf(holds)
  /\ holds = "positive" => v[2] > 0
  /\ holds = "natural" => v[2] >= 0

EnvelopeNames == {"protocolVersion", "requestId", "kind", "payload"}

\* The body's fields, as from_value() takes them.
ReadsBody(kind, body) ==
  /\ Exactly(body, DOMAIN Fields(kind))
  /\ \A f \in DOMAIN Fields(kind) : Reads(Fields(kind)[f], body[f])

ReadsEnvelope(w) ==
  /\ Exactly(w, EnvelopeNames)
  /\ w.protocolVersion = <<"integer", 1>>
  /\ Reads("positive", w.requestId)
  /\ w.kind[1] = "string" /\ w.kind[2] \in Kinds
  /\ w.payload[1] = "map"

Read(w) ==
  [id |-> w.requestId, kind |-> w.kind[2],
   body |-> [f \in DOMAIN Fields(w.kind[2]) |-> w.payload[2][f]]]

\* from_wire() ends in new().
FromWire(w) ==
  /\ ReadsEnvelope(w)
  /\ ReadsBody(w.kind[2], w.payload[2])
  /\ Accepts(Read(w))

-----------------------------------------------------------------------------
\* One message on its way.

Nothing == [id |-> <<"integer", 0>>, kind |-> "none", body |-> NoFields]

\* Everything Rust's types let a caller build.
Init ==
  /\ \E kind \in Kinds, id \in Unsigned :
       LET names == DOMAIN Fields(kind) IN
       \E body \in [names -> Strings \cup Bytes \cup Unsigned] :
         /\ \A f \in names : body[f] \in Typed(Fields(kind)[f])
         /\ message = [id |-> id, kind |-> kind, body |-> body]
  /\ wire = NoFields /\ stage = "new" /\ got = Nothing

New ==
  /\ stage = "new"
  /\ stage' = IF Accepts(message) THEN "message" ELSE "invalid"
  /\ UNCHANGED <<message, wire, got>>

Send ==
  /\ stage = "message"
  /\ stage' = IF Fits(message) THEN "sent" ELSE "unsendable"
  /\ wire' = IF Fits(message) THEN Envelope(message) ELSE wire
  /\ UNCHANGED <<message, got>>

\* A map with one entry changed, lost or added.
Edits(entries, v) ==
  {[entries EXCEPT ![f] = v] : f \in DOMAIN entries}
  \cup {[g \in DOMAIN entries \ {f} |-> entries[g]] : f \in DOMAIN entries}
  \cup {[g \in DOMAIN entries \cup {"unknown"} |->
           IF g \in DOMAIN entries THEN entries[g] ELSE v]}

\* The peer is another program: it writes one entry differently.
Change ==
  /\ stage = "sent"
  /\ stage' = "changed"
  /\ \/ \E v \in Strings \cup Bytes \cup Signed :
          \/ wire' \in Edits(wire, v)
          \/ \E body \in Edits(wire.payload[2], v) :
               wire' = [wire EXCEPT !.payload = <<"map", body>>]
     \/ \E kind \in Kinds : wire' = [wire EXCEPT !.kind = <<"string", kind>>]
  /\ UNCHANGED <<message, got>>

Receive ==
  /\ stage \in {"sent", "changed"}
  /\ stage' = IF FromWire(wire)
                THEN (IF stage = "sent" THEN "delivered" ELSE "accepted")
                ELSE (IF stage = "sent" THEN "lost" ELSE "refused")
  /\ got' = IF FromWire(wire) THEN Read(wire) ELSE got
  /\ UNCHANGED <<message, wire>>

Next == New \/ Send \/ Change \/ Receive

Spec == Init /\ [][Next]_vars

-----------------------------------------------------------------------------
\* Properties.

\* What new() accepts and the frame can hold arrives as it was: the receiver
\* is never stricter than the sender, for any kind and in either direction.
Delivered ==
  /\ stage # "lost"
  /\ stage = "delivered" => got = message

\* The receiver is never laxer either: whatever a peer writes, what from_wire()
\* accepts is a message new() accepts, and nothing on the wire was ignored.
OnlyMessages ==
  stage = "accepted" => Accepts(got) /\ Envelope(got) = wire
=============================================================================
