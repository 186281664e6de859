------------------------- MODULE MCPayloadDescriptor -------------------------
(***************************************************************************)
(* One package with links into and out of it, behind a link itself; every  *)
(* way of naming its files; and one change at any moment.                  *)
(***************************************************************************)
EXTENDS PayloadDescriptor

Dir == [kind |-> "dir"]
File(c) == [kind |-> "file", holds |-> c]
Link(p) == [kind |-> "link", to |-> p]
Wasm(fits) == [what |-> "component", fits |-> fits]
Junk == [what |-> "junk"]

MCRoot == <<"now">>
MCSuffix == [x \in {"a.json", "c.wasm", "loop.wasm", "d.wasm", "junk.wasm", "gone.wasm", "odd.wasm",
                    "in", "out", "dir", "..", "name\\", "scheme:"} |->
  CASE x = "a.json" -> "json"
    [] x \in {"c.wasm", "loop.wasm", "d.wasm", "junk.wasm", "gone.wasm", "odd.wasm"} -> "wasm"
    [] OTHER -> "none"]

Ways(file) ==
  {<<file>>, <<"dir", file>>, <<"in", file>>, <<"out", file>>, <<"dir", ".", file>>,
   <<"dir", "", file>>, <<".", file>>, <<"", file>>, <<file, "">>, <<file, ".">>,
   <<"dir", "..", file>>, <<"scheme:", "", file>>, <<"name\\", file>>, <<"">>, <<"dir">>}

Components ==
  Ways("c.wasm")
  \cup {<<x>> : x \in {"loop.wasm", "d.wasm", "junk.wasm", "gone.wasm", "odd.wasm"}}

Descriptors ==
  {[what |-> "descriptor", big |-> b, schemaVersion |-> v, component |-> c] :
     b \in BOOLEAN, v \in {1, 2}, c \in Components}

Paths == {<<>>, <<"now">>, <<"pkg">>, <<"ext">>, <<"ext", "c.wasm">>, <<"ext", "a.json">>}
         \cup {<<"pkg", x>> : x \in {"a.json", "c.wasm", "dir", "in", "out",
                                     "loop.wasm", "d.wasm", "junk.wasm", "odd.wasm"}}
         \cup {<<"pkg", "dir", x>> : x \in {"a.json", "c.wasm"}}

Tree(d) == [p \in Paths |->
  CASE p = <<"now">> -> Link(<<"pkg">>)
    [] p = <<"pkg", "in">> -> Link(<<"pkg", "dir">>)
    [] p = <<"pkg", "out">> -> Link(<<"ext">>)
    [] p = <<"pkg", "loop.wasm">> -> Link(p)
    [] p \in {<<>>, <<"pkg">>, <<"ext">>, <<"pkg", "dir">>, <<"pkg", "d.wasm">>} -> Dir
    [] p = <<"pkg", "junk.wasm">> -> File(Junk)
    [] p[Len(p)] = "c.wasm" -> File(Wasm(TRUE))
    [] p[Len(p)] = "odd.wasm" -> File(Wasm(FALSE))
    [] OTHER -> d]

MCEntries == Ways("a.json")
MCTrees == {Tree(File(d)) : d \in Descriptors \cup {Junk}}
MCChanges ==
  {<<p, n>> : p \in {<<"pkg", "c.wasm">>, <<"pkg", "dir">>, <<"pkg", "a.json">>, <<"now">>},
              n \in {Nothing, File(Junk), Link(<<"ext">>)}}
=============================================================================
