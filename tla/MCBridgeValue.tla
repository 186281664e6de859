---------------------------- MODULE MCBridgeValue ----------------------------
(***************************************************************************)
(* The values tried: every kind of leaf at and beyond its limits, small    *)
(* arrays and maps, values at and beyond each limit of a whole value, and  *)
(* launch events: every mode, every length of arguments up to the limit,   *)
(* unknown fields at every level, and every required field missing or of   *)
(* another kind.                                                           *)
(***************************************************************************)
EXTENDS HookEvent

Null == [kind |-> "null"]
Blob(s)  == [kind |-> "bytes", s |-> s]
Handle(i, g, s) == [kind |-> "handle", id |-> i, generation |-> g, name |-> s]

A == <<97>>
B == <<65, 97>>

Leaves ==
  {Null, [kind |-> "bool", b |-> TRUE], [kind |-> "bool", b |-> FALSE],
   Whole(-1), [kind |-> "float", n |-> 1], [kind |-> "float", n |-> NotFinite],
   [kind |-> "error", code |-> "InvalidArgument"],
   [kind |-> "error", code |-> "Internal"],
   Handle(1, MaxId, A), Handle(MaxId, 1, <<97, 97>>)}
  \cup {Text(s) : s \in {<<>>, A, B, <<65, 97, 97>>}}
  \cup {Blob(s) : s \in {<<>>, <<97, 97, NotUtf8>>, <<97, 97, 97, 97>>}}

Few == {Null, Text(B), Blob(<<97, 97, NotUtf8>>), Handle(1, 1, A)}

Upto(n, S) == UNION {[1..m -> S] : m \in 0..n}

Flat ==
  {Array(s) : s \in Upto(2, Few)}
  \cup {Map(s) : s \in Upto(2, [key : {A, B}, val : Few])}
  \cup {Map(<<Entry(<<97, 97, 97>>, Null)>>)}

\* Nothing, so many times, in arrays in arrays.
Nulls(n) == Array([i \in 1..n |-> Null])
RECURSIVE Nest(_, _)
Nest(v, n) == IF n = 0 THEN v ELSE Nest(Array(<<v>>), n - 1)
Full == Array([i \in 1..3 |-> Blob(<<97, 97, NotUtf8>>)])

AtLimits ==
  {Nulls(MaxEntries), Nulls(MaxEntries + 1)}
  \cup {Map([i \in 1..n |-> Entry(IF i = 1 THEN <<>> ELSE <<97, i>>, Null)]) :
          n \in {MaxEntries, MaxEntries + 1}}
  \cup {Nest(v, n) : n \in {MaxDepth, MaxDepth + 1},
                     v \in {Null, Text(B), Handle(1, 1, A), Map(<<>>)}}
  \cup {Map(<<Entry(B, Nest(Null, n))>>) : n \in {MaxDepth - 1, MaxDepth}}
  \cup {Array(<<Nulls(3), Nulls(3), Nulls(3), Nulls(n)>>) : n \in {2, 3}}
  \cup {Array(<<Full, Full, v>>) : v \in {Null, Text(A), Handle(1, 1, A),
          Map(<<Entry(<<>>, Null)>>), Map(<<Entry(A, Null)>>),
          [kind |-> "error", code |-> "Internal"]}}

X == <<97>>
Modes == {<<Entry(mode, structuredJava)>>, <<Entry(mode, Text(<<97, 97>>))>>,
          <<Entry(mode, Whole(1))>>, <<>>}
Arguments ==
  {<<Entry(jvmArguments, Array([i \in 1..n |-> Text(X)]))>> : n \in 0..MaxEntries}
  \cup {<<Entry(jvmArguments, Null)>>, <<>>}
\* Unknown fields: none, one, or one with a value inside.
Unknown == {<<>>, <<Entry(X, Text(<<97, 97>>))>>, <<Entry(X, Array(<<Null>>))>>}

Commands == {Map(m \o a \o u) : m \in Modes, a \in Arguments, u \in Unknown}
Data(c, p, u) == Map(p \o <<Entry(plan, Map(<<Entry(command, c)>> \o u))>>)
Event(d) == Map(<<Entry(contractVersion, Whole(1)), Entry(point, beforeGameLaunch),
                  Entry(data, d)>>)

Good == Data(CHOOSE c \in Commands : Len(c.entries) = 3, <<>>, <<>>)
Broken ==
  {Null, Event(Null), Event(Map(<<>>)), Event(Data(Null, <<>>, <<>>)),
   Event(Map(<<Entry(plan, Null)>>)), Event(Map(<<Entry(plan, Map(<<>>))>>))}
  \cup {Map(RemoveAt(Event(Good).entries, i)) : i \in 1..3}
  \cup {With(Event(Good), contractVersion, Whole(2)), With(Event(Good), point, unchanged),
        Map(<<Entry(schemaVersion, Whole(1))>>), Map(<<Entry(schemaVersion, Whole(2))>>)}

Events == {Event(Data(c, p, u)) : c \in Commands, p \in Unknown, u \in Unknown} \cup Broken

\* With what is inside of them, n levels down.
RECURSIVE Inside(_, _)
Inside(S, n) ==
  IF n = 0 THEN S
  ELSE S \cup Inside(UNION {{Part(v, i) : i \in 1..Len(Parts(v))} : v \in S}, n - 1)

MCFragile == Leaves \cup Flat \cup AtLimits
MCValues == Inside(MCFragile \cup Events, MaxDepth + 2)

MCAtoms == {0, 1, 2, 3, 5, 7, 65, 97, Pair, Nil, True, Bin32, Str32, Array32,
            NotFinite, NotUtf8}
=============================================================================
