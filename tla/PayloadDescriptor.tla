-------------------------- MODULE PayloadDescriptor --------------------------
(***************************************************************************)
(* From a package directory to the component that runs: resolve_resource() *)
(* (path_policy.rs), PayloadDescriptor::read() (descriptor.rs) and the     *)
(* second load_component() of WasmGuestEngine::load (guest_engine.rs).     *)
(* Each look at the file system is a step of its own, the three of         *)
(* resolve_resource() included; a look follows a path to its end in one.   *)
(* The launcher or an installer may change the package between any two.    *)
(* create_engine(), a constant configuration, is taken not to fail.        *)
(*                                                                         *)
(* A path is a sequence of names, "" where two slashes meet; the paths of  *)
(* Unix.  A link leads to a path from the top; neither it nor packageRoot  *)
(* has a "..", and a resource with one is refused before it is looked up.  *)
(***************************************************************************)
EXTENDS Naturals, Sequences

CONSTANTS
  Root,         \* packageRoot of the Load command
  Entries,      \* entrypoints tried
  Trees,        \* file systems to begin with: path -> node
  Changes,      \* <<path, node>>: what may become of the package
  MaxChanges,   \* bound
  MaxNames,     \* names looked up before the system gives up
  MaxHops,      \* links followed before it does
  Suffix,       \* extension() of each name
  NoPath        \* instead of a path, where none is found

Path == Seq(STRING)
Nothing == [kind |-> "none"]

\* A link leads to a path, and a descriptor names a component.
IsNode(n) ==
  /\ n.kind \in {"none", "dir", "file", "link"}
  /\ n.kind = "link" => n.to \in Path
  /\ n.kind = "file" /\ n.holds.what = "descriptor" => n.holds.component \in Path \ {<<>>}

ASSUME DescriptorAssumption ==
  /\ MaxChanges \in Nat /\ MaxNames \in Nat /\ MaxHops \in Nat
  /\ Root \in Path /\ Entries \subseteq Path \ {<<>>} /\ NoPath \notin Path
  /\ \A t \in Trees : \A p \in DOMAIN t : IsNode(t[p])

VARIABLES
  fs, changes,  \* the file system, and how often it has changed
  entrypoint,
  pc,           \* the next look, or "done"
  wanted, extension,  \* resource and extension of resolve_resource()
  top,          \* its canonical_root
  at,           \* its canonical_candidate, the path being worked on
  result        \* "none", "loaded", or the code of the error

vars == <<fs, changes, entrypoint, pc, wanted, extension, top, at, result>>

Node(t, p) == IF p \in DOMAIN t THEN t[p] ELSE Nothing

\* canonicalize() looks up one name after the other, `rest` from `at`.
Lost == [at |-> NoPath, rest |-> <<>>, hops |-> 0]
Dropped(s) == s = "" \/ s = "."

LookUp(t, w) ==
  LET p == Append(w.at, Head(w.rest))
      n == Node(t, p)
      rest == Tail(w.rest)
  IN  IF w.rest = <<>> THEN w
      ELSE IF Node(t, w.at).kind # "dir" THEN Lost
      ELSE IF Dropped(Head(w.rest)) THEN [w EXCEPT !.rest = rest]
      ELSE CASE n.kind \in {"dir", "file"} -> [w EXCEPT !.at = p, !.rest = rest]
             [] n.kind = "link" /\ w.hops > 0 ->
                  [at |-> <<>>, rest |-> n.to \o rest, hops |-> w.hops - 1]
             [] OTHER -> Lost

\* The first names of p, as many as n.
Walk(t, p) ==
  LET walk[n \in Nat] ==
        IF n = 0 THEN [at |-> <<>>, rest |-> p, hops |-> MaxHops]
                 ELSE LookUp(t, walk[n - 1])
  IN  walk

Canonical(t, p) ==
  LET w == Walk(t, p)[MaxNames] IN IF w.rest = <<>> THEN w.at ELSE NoPath

IsFile(t, p) == LET q == Canonical(t, p) IN q # NoPath /\ Node(t, q).kind = "file"
\* What a reader finds there.
Content(t, p) ==
  IF IsFile(t, p) THEN Node(t, Canonical(t, p)).holds ELSE [what |-> "unreadable"]

Last(s) == s[Len(s)]
\* "name\" stands for every name with a character that is not portable.
Portable(resource) ==
  /\ resource[1] # "" /\ Last(resource) # ""
  /\ \A i \in 1..Len(resource) : resource[i] # "name\\"
  /\ \A i \in 1..(Len(resource) - 2) :
        ~(resource[i] = "scheme:" /\ resource[i + 1] = "")

\* Path::components() drops every "." but the first, and extension() looks at
\* the last that is left.
Parts(resource) == {i \in 1..Len(resource) : ~Dropped(resource[i])}
\* Mutant: only the files at the top of the package.
TopLevelOnly(resource, suffix) ==
  resource[1] # "." /\ Parts(resource) = {1} /\ Suffix[resource[1]] = suffix
Safe(resource, suffix) ==
  /\ resource[1] # "."
  /\ \A i \in 1..Len(resource) : resource[i] # ".."
  /\ \E i \in Parts(resource) :
        (\A j \in Parts(resource) : j <= i) /\ Suffix[resource[i]] = suffix

Inside(p, q) == Len(p) >= Len(q) /\ SubSeq(p, 1, Len(q)) = q
\* Mutant: where a safe name really leads is not looked at.
NamesSuffice(p) == TRUE
Contained(p) == Inside(p, top)

-----------------------------------------------------------------------------
Init ==
  /\ fs \in Trees /\ changes = 0
  /\ entrypoint \in Entries
  /\ pc = "root" /\ wanted = entrypoint /\ extension = "json"
  /\ top = NoPath /\ at = NoPath /\ result = "none"

Go(next) == pc' = next /\ UNCHANGED result
Finish(code) == pc' = "done" /\ result' = code
Asked == UNCHANGED <<wanted, extension>>

\* resolve_resource(): the text is checked, and canonicalize() finds the root;
FindRoot ==
  /\ Asked /\ UNCHANGED at
  /\ top' = Canonical(fs, Root)
  /\ IF Portable(wanted) /\ Safe(wanted, extension) /\ top' # NoPath
       THEN Go("candidate") ELSE Finish("path-escape")

\* then it finds the candidate below that root, which must still be inside it;
FindCandidate ==
  /\ Asked /\ UNCHANGED top
  /\ at' = Canonical(fs, top \o wanted)
  /\ IF at' # NoPath /\ Contained(at') THEN Go("file") ELSE Finish("path-escape")

\* and is_file(), which follows links as well.
Resume == IF extension = "json" THEN "metadata" ELSE "validate"
CheckFile ==
  /\ Asked /\ UNCHANGED <<top, at>>
  /\ IF IsFile(fs, at) THEN Go(Resume) ELSE Finish("path-escape")

IsDescriptor(c) == c.what = "descriptor"

\* fs::metadata(): the size.
Measure ==
  /\ Asked /\ UNCHANGED <<top, at>>
  /\ LET c == Content(fs, at) IN
     IF Canonical(fs, at) = NoPath \/ (IsDescriptor(c) /\ c.big)
       THEN Finish("invalid-descriptor") ELSE Go("descriptor")

\* fs::read(), serde, and the schema version.
ReadDescriptor ==
  /\ UNCHANGED <<top, at>>
  /\ LET c == Content(fs, at) IN
     IF IsDescriptor(c) /\ c.schemaVersion = 1
       THEN Go("root") /\ wanted' = c.component /\ extension' = "wasm"
       ELSE Finish("invalid-descriptor") /\ Asked

IsComponent(c) == c.what = "component"

\* Mutant: a descriptor that does not look into its component.
TrustsName == TRUE
Validated == IsComponent(Content(fs, at))

Validate ==
  /\ Asked /\ UNCHANGED <<top, at>>
  /\ IF Validated THEN Go("load") ELSE Finish("invalid-component")

\* runtime_error() goes by the words of the failure, which may quote the path:
\* "runtime-failure" stands for the four codes that are fatal.
RuntimeErrors == {"runtime-failure", "invalid-value"}

\* WasmGuestEngine::load up to the guest's own load(): the component is read
\* again, and instantiated if it fits the world of aura:runtime.
LoadAgain ==
  /\ Asked /\ UNCHANGED <<top, at>>
  /\ LET c == Content(fs, at) IN
     \/ IsComponent(c) /\ Finish(IF c.fits THEN "loaded" ELSE "wit-mismatch")
     \/ ~IsComponent(c) /\ \E code \in RuntimeErrors : Finish(code)

Look ==
  /\ \/ pc = "root" /\ FindRoot
     \/ pc = "candidate" /\ FindCandidate
     \/ pc = "file" /\ CheckFile
     \/ pc = "metadata" /\ Measure
     \/ pc = "descriptor" /\ ReadDescriptor
     \/ pc = "validate" /\ Validate
     \/ pc = "load" /\ LoadAgain
  /\ UNCHANGED <<fs, changes, entrypoint>>

Change ==
  /\ pc # "done" /\ changes < MaxChanges
  /\ changes' = changes + 1
  /\ \E c \in Changes : fs' = [fs EXCEPT ![c[1]] = c[2]]
  /\ UNCHANGED <<entrypoint, pc, wanted, extension, top, at, result>>

Next == Look \/ Change

Spec == Init /\ [][Next]_vars

-----------------------------------------------------------------------------
(* Properties.                                                             *)

\* When the component cannot be read again the process may die of it (the code
\* may be fatal): a package that stays as it is never gets there, for whatever
\* is wrong with its files is found by read(), which only refuses.
FatalOnlyAfterChange == result \in RuntimeErrors => changes > 0

\* The component that runs lies in the package, under its real name, whatever
\* links led there, unless the package changed meanwhile.
RunsFromPackage ==
  result = "loaded" /\ changes = 0 => Inside(Canonical(fs, at), Canonical(fs, Root))

\* A file named plainly: ordinary names, no links, and not too many of them.
Candidate(t, resource) == Canonical(t, Root) \o resource
Plain(t, resource, suffix) ==
  LET p == Candidate(t, resource) IN
  /\ Canonical(t, Root) # NoPath /\ Len(p) <= MaxNames
  /\ \A i \in 1..Len(p) : ~Dropped(p[i]) /\ p[i] \notin {"..", "name\\"}
  /\ \A i \in 0..(Len(p) - 1) : Node(t, SubSeq(p, 1, i)).kind = "dir"
  /\ Node(t, p).kind = "file" /\ Suffix[Last(p)] = suffix

PlainPackage ==
  LET d == Node(fs, Candidate(fs, entrypoint)).holds
      c == Node(fs, Candidate(fs, d.component)).holds
  IN  /\ Plain(fs, entrypoint, "json")
      /\ IsDescriptor(d) /\ ~d.big /\ d.schemaVersion = 1
      /\ Plain(fs, d.component, "wasm")
      /\ IsComponent(c) /\ c.fits

\* A package that says what it should in a plain way is loaded: none of the
\* checks on names, places, sizes or contents stands in its way.
LoadsPlainPackages ==
  pc = "done" /\ changes = 0 /\ PlainPackage => result = "loaded"
=============================================================================
