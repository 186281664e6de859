----------------------- MODULE PayloadDescriptorProofs -----------------------
(***************************************************************************)
(* What canonicalize() promises and what the descriptor's checks make of   *)
(* it, for every tree, every package and every limit of the system.        *)
(*                                                                         *)
(* A walk over the names of a path is a recursive function.  That there is *)
(* one (Iterate), and what it computes (CanonicalIsSolid and               *)
(* SolidIsCanonical), is shown by induction on the names looked up, with   *)
(* the set of the numbers for which a statement holds (Induction).         *)
(***************************************************************************)
EXTENDS PayloadDescriptor, SequenceTheorems, WellFoundedInduction, TLAPS

-----------------------------------------------------------------------------
\* Induction over the natural numbers, and functions defined by it.

LEMMA Smaller == IsWellFoundedOn({ss \in Nat \X Nat : ss[1] < ss[2]}, Nat)
  BY NatLessThanWellFounded DEF OpToRel

LEMMA Least ==
  ASSUME NEW S \in SUBSET Nat, S # {}
  PROVE  \E m \in S : \A n \in S : m <= n
<1>1. PICK m \in S : \A n \in S : <<n, m>> \notin {ss \in Nat \X Nat : ss[1] < ss[2]}
  BY Smaller, WFMin
<1>2. ASSUME NEW n \in S PROVE m <= n
  <2>1. <<n, m>> \in Nat \X Nat /\ <<n, m>>[1] = n /\ <<n, m>>[2] = m
    OBVIOUS
  <2>2. ~(n < m)
    BY <1>1, <2>1
  <2> QED BY <2>2
<1> QED BY <1>2

LEMMA Induction ==
  ASSUME NEW S \in SUBSET Nat, 0 \in S, \A n \in S : n + 1 \in S
  PROVE  S = Nat
<1> DEFINE T == Nat \ S
<1>1. SUFFICES ASSUME T # {} PROVE FALSE
  OBVIOUS
<1>2. PICK m \in T : \A n \in T : m <= n
  BY <1>1, Least
<1>3. m # 0 /\ m - 1 \in Nat /\ m - 1 \notin T
  BY <1>2
<1> QED BY <1>3

\* A step can be taken again and again.
LEMMA Iterate ==
  ASSUME NEW T, NEW s \in T, NEW F \in [T -> T]
  PROVE  \E g \in [Nat -> T] : g[0] = s /\ \A n \in Nat : g[n + 1] = F[g[n]]
<1> DEFINE Runs(n) ==
      {g \in [0..n -> T] : g[0] = s /\ \A i \in 0..(n - 1) : g[i + 1] = F[g[i]]}
<1>1. ASSUME NEW n \in Nat, NEW g \in Runs(n) PROVE Runs(n + 1) # {}
  <2> DEFINE h == [i \in 0..(n + 1) |-> IF i <= n THEN g[i] ELSE F[g[n]]]
  <2>1. g \in [0..n -> T] /\ g[0] = s /\ \A i \in 0..(n - 1) : g[i + 1] = F[g[i]]
    OBVIOUS
  <2>2. g[n] \in T /\ F[g[n]] \in T
    BY <2>1
  <2>3. h \in [0..(n + 1) -> T]
    BY <2>1, <2>2
  <2>4. h[0] = s
    BY <2>1
  <2>5. ASSUME NEW i \in 0..((n + 1) - 1) PROVE h[i + 1] = F[h[i]]
    <3>1. CASE i = n
      BY <3>1
    <3>2. CASE i \in 0..(n - 1)
      BY <2>1, <3>2
    <3> QED BY <3>1, <3>2
  <2> QED BY <2>3, <2>4, <2>5
<1>2. \A n \in Nat : Runs(n) # {}
  <2> DEFINE S == {n \in Nat : Runs(n) # {}}
  <2>1. 0 \in S
    <3>1. [i \in 0..0 |-> s] \in Runs(0)
      OBVIOUS
    <3> QED BY <3>1
  <2>2. \A n \in S : n + 1 \in S
    BY <1>1
  <2>3. S \in SUBSET Nat
    OBVIOUS
  <2> HIDE DEF S
  <2>4. S = Nat
    BY <2>1, <2>2, <2>3, Induction
  <2> QED BY <2>4 DEF S
<1>3. ASSUME NEW n \in Nat, NEW m \in Nat, NEW g \in Runs(n), NEW h \in Runs(m)
      PROVE  \A i \in Nat : i <= n /\ i <= m => g[i] = h[i]
  <2> DEFINE S == {i \in Nat : i <= n /\ i <= m => g[i] = h[i]}
  <2>1. /\ g[0] = s /\ \A i \in 0..(n - 1) : g[i + 1] = F[g[i]]
        /\ h[0] = s /\ \A i \in 0..(m - 1) : h[i + 1] = F[h[i]]
    OBVIOUS
  <2>2. 0 \in S
    BY <2>1
  <2>3. ASSUME NEW i \in S PROVE i + 1 \in S
    <3> SUFFICES ASSUME i + 1 <= n, i + 1 <= m PROVE g[i + 1] = h[i + 1]
      OBVIOUS
    <3>1. i \in 0..(n - 1) /\ i \in 0..(m - 1)
      OBVIOUS
    <3>2. g[i] = h[i]
      BY <3>1
    <3> QED BY <2>1, <3>1, <3>2
  <2>4. S \in SUBSET Nat
    OBVIOUS
  <2> HIDE DEF S
  <2>5. S = Nat
    BY <2>2, <2>3, <2>4, Induction
  <2> QED BY <2>5 DEF S
<1> DEFINE run == [n \in Nat |-> CHOOSE g \in Runs(n) : TRUE]
           G == [n \in Nat |-> run[n][n]]
<1>4. \A n \in Nat : run[n] \in Runs(n)
  BY <1>2
<1> HIDE DEF run
<1>5. ASSUME NEW n \in Nat
      PROVE  G[n] = run[n][n] /\ G[n] \in T /\ G[n + 1] = F[G[n]]
  <2>1. run[n] \in [0..n -> T] /\ n \in 0..n
    BY <1>4
  <2>2. run[n + 1][n + 1] = F[run[n + 1][n]]
    <3>1. run[n + 1] \in Runs(n + 1)
      BY <1>4
    <3>2. n \in 0..((n + 1) - 1)
      OBVIOUS
    <3> QED BY <3>1, <3>2
  <2>3. run[n + 1][n] = run[n][n]
    <3>1. run[n + 1] \in Runs(n + 1) /\ run[n] \in Runs(n)
      BY <1>4
    <3> HIDE DEF Runs
    <3> QED BY <1>3, <3>1
  <2> QED BY <2>1, <2>2, <2>3
<1>6. G[0] = s
  <2>1. run[0] \in Runs(0)
    BY <1>4
  <2> QED BY <2>1
<1>7. G \in [Nat -> T]
  BY <1>5
<1> HIDE DEF G
<1> QED BY <1>5, <1>6, <1>7

-----------------------------------------------------------------------------
\* The walk over the names of a path.

IsTree(t) == \A p \in DOMAIN t : IsNode(t[p])
Walks ==
  {w \in [at : Path \cup {NoPath}, rest : Path, hops : 0..MaxHops] :
     w.at = NoPath => w.rest = <<>>}

LEMMA NodesAre ==
  ASSUME NEW t, IsTree(t), NEW p
  PROVE  IsNode(Node(t, p))
BY DEF IsTree, Node, IsNode, Nothing

\* What one look-up does: nothing any more, or one of four things.
Deeper(t, w) ==
  LET p == Append(w.at, Head(w.rest)) IN
  Node(t, w.at).kind = "dir" /\ ~Dropped(Head(w.rest)) /\ Node(t, p).kind \in {"dir", "file"}
Leads(t, w, v) ==
  \/ v = Lost
  \/ v = [w EXCEPT !.rest = Tail(w.rest)]
  \/ v.at = <<>>
  \/ Deeper(t, w) /\ v = [w EXCEPT !.at = Append(w.at, Head(w.rest)), !.rest = Tail(w.rest)]

LEMMA NoNames == <<>> \in Path /\ <<>> # NoPath
  BY EmptySeq, DescriptorAssumption DEF Path

LEMMA LooksUp ==
  ASSUME NEW t, IsTree(t), NEW w \in Walks
  PROVE  /\ LookUp(t, w) \in Walks
         /\ w.rest = <<>> => LookUp(t, w) = w
         /\ w.rest # <<>> => Leads(t, w, LookUp(t, w))
<1>1. /\ w = [at |-> w.at, rest |-> w.rest, hops |-> w.hops]
      /\ w.at \in Path \cup {NoPath} /\ w.rest \in Path /\ w.hops \in 0..MaxHops
      /\ w.at = NoPath => w.rest = <<>>
  BY DEF Walks
<1>2. Lost \in Walks
  BY DescriptorAssumption DEF Lost, Walks, Path
<1>3. CASE w.rest = <<>>
  BY <1>3 DEF LookUp
<1>4. CASE w.rest # <<>>
  <2> DEFINE s == Head(w.rest)
             rest == Tail(w.rest)
             p == Append(w.at, s)
             n == Node(t, p)
  <2>1. w.at \in Path /\ s \in STRING /\ rest \in Path /\ <<>> \in Path
    BY <1>1, <1>4 DEF Path
  <2>2. p \in Path
    BY <2>1 DEF Path
  <2>3. IsNode(n)
    BY NodesAre
  <2>4. NoPath \notin Path /\ MaxHops \in Nat
    BY DescriptorAssumption
  <2> HIDE DEF s, rest, p, n
  <2>5. CASE Node(t, w.at).kind # "dir"
    <3>1. LookUp(t, w) = Lost
      BY <1>4, <2>5 DEF LookUp
    <3> QED BY <1>2, <1>4, <3>1 DEF Leads
  <2>6. CASE Node(t, w.at).kind = "dir" /\ Dropped(s)
    <3>1. LookUp(t, w) = [w EXCEPT !.rest = rest]
      BY <1>4, <2>6 DEF LookUp, s, rest
    <3>2. [w EXCEPT !.rest = rest] \in Walks
      BY <1>1, <2>1, <2>4 DEF Walks
    <3> QED BY <1>4, <3>1, <3>2 DEF rest, Leads
  <2>7. CASE Node(t, w.at).kind = "dir" /\ ~Dropped(s) /\ n.kind \in {"dir", "file"}
    <3>1. LookUp(t, w) = [w EXCEPT !.at = p, !.rest = rest]
      BY <1>4, <2>7 DEF LookUp, s, rest, p, n
    <3>2. [w EXCEPT !.at = p, !.rest = rest] \in Walks
      BY <1>1, <2>1, <2>2, <2>4 DEF Walks
    <3> QED BY <1>4, <2>7, <3>1, <3>2 DEF rest, s, p, n, Leads, Deeper
  <2>8. CASE Node(t, w.at).kind = "dir" /\ ~Dropped(s) /\ n.kind = "link" /\ w.hops > 0
    <3>1. LookUp(t, w) = [at |-> <<>>, rest |-> n.to \o rest, hops |-> w.hops - 1]
      BY <1>4, <2>8 DEF LookUp, s, rest, p, n
    <3>2. n.to \in Path
      BY <2>3, <2>8 DEF IsNode
    <3>3. n.to \o rest \in Path
      BY <2>1, <3>2, ConcatProperties DEF Path
    <3>4. w.hops - 1 \in 0..MaxHops
      BY <1>1, <2>4, <2>8
    <3>5. [at |-> <<>>, rest |-> n.to \o rest, hops |-> w.hops - 1] \in Walks
      BY <2>1, <2>4, <3>3, <3>4 DEF Walks
    <3> QED BY <1>4, <3>1, <3>5 DEF Leads
  <2>9. CASE /\ Node(t, w.at).kind = "dir" /\ ~Dropped(s) /\ n.kind \notin {"dir", "file"}
             /\ ~(n.kind = "link" /\ w.hops > 0)
    <3>1. LookUp(t, w) = Lost
      BY <1>4, <2>9 DEF LookUp, s, rest, p, n
    <3> QED BY <1>2, <1>4, <3>1 DEF Leads
  <2> QED BY <2>5, <2>6, <2>7, <2>8, <2>9
<1> QED BY <1>3, <1>4

\* The walk is what its definition says.
LEMMA Walking ==
  ASSUME NEW t, IsTree(t), NEW p \in Path
  PROVE  /\ Walk(t, p) \in [Nat -> Walks]
         /\ Walk(t, p)[0] = [at |-> <<>>, rest |-> p, hops |-> MaxHops]
         /\ \A n \in Nat : Walk(t, p)[n + 1] = LookUp(t, Walk(t, p)[n])
<1> DEFINE begin == [at |-> <<>>, rest |-> p, hops |-> MaxHops]
           F == [w \in Walks |-> LookUp(t, w)]
           IsWalk(f) == f = [n \in Nat |-> IF n = 0 THEN begin ELSE LookUp(t, f[n - 1])]
<1>1. begin \in Walks
  BY NoNames, DescriptorAssumption DEF Walks
<1>2. ASSUME NEW w \in Walks PROVE LookUp(t, w) \in Walks
  BY LooksUp
<1>2a. F \in [Walks -> Walks]
  BY <1>2
<1> HIDE DEF begin
<1>3. PICK g \in [Nat -> Walks] : g[0] = begin /\ \A n \in Nat : g[n + 1] = F[g[n]]
  <2> HIDE DEF F
  <2> QED BY <1>1, <1>2a, Iterate
<1>4. IsWalk(g)
  <2>1. ASSUME NEW n \in Nat
        PROVE  g[n] = IF n = 0 THEN begin ELSE LookUp(t, g[n - 1])
    <3>1. CASE n = 0
      BY <1>3, <3>1
    <3>2. CASE n # 0
      <4>1. n - 1 \in Nat /\ (n - 1) + 1 = n
        BY <3>2
      <4>2. g[n] = F[g[n - 1]] /\ g[n - 1] \in Walks
        BY <1>3, <4>1
      <4> QED BY <3>2, <4>2
    <3> QED BY <3>1, <3>2
  <2> QED BY <2>1
<1>5. Walk(t, p) = CHOOSE f : IsWalk(f)
  BY DEF Walk, begin
<1> DEFINE W == Walk(t, p)
<1>6. IsWalk(W)
  <2> HIDE DEF IsWalk
  <2> QED BY <1>4, <1>5
<1> HIDE DEF W
<1>7. /\ W[0] = begin
      /\ \A n \in Nat : W[n + 1] = LookUp(t, W[n])
  BY <1>6
<1>8. W \in [Nat -> Walks]
  <2> DEFINE S == {n \in Nat : W[n] \in Walks}
  <2>1. 0 \in S /\ S \in SUBSET Nat
    BY <1>1, <1>7
  <2>2. \A n \in S : n + 1 \in S
    BY <1>2, <1>7
  <2> HIDE DEF S
  <2>3. S = Nat
    BY <2>1, <2>2, Induction
  <2>4. \A n \in Nat : W[n] \in Walks
    BY <2>3 DEF S
  <2>5. W = [n \in Nat |-> W[n]]
    BY <1>6
  <2> QED BY <2>4, <2>5
<1> QED BY <1>7, <1>8 DEF W, begin

-----------------------------------------------------------------------------
\* A canonical path: directories all the way, and neither links nor gaps.
Solid(t, p) ==
  \A i \in 1..Len(p) :
    /\ ~Dropped(p[i])
    /\ Node(t, SubSeq(p, 1, i - 1)).kind = "dir"
    /\ Node(t, SubSeq(p, 1, i)).kind \in {"dir", "file"}

LEMMA Prefixes ==
  ASSUME NEW S, NEW p \in Seq(S), NEW s \in S
  PROVE  /\ Append(p, s) \in Seq(S) /\ Len(Append(p, s)) = Len(p) + 1 /\ Len(p) \in Nat
         /\ Append(p, s)[Len(p) + 1] = s
         /\ \A i \in 1..Len(p) : Append(p, s)[i] = p[i]
         /\ \A i \in 0..Len(p) : SubSeq(Append(p, s), 1, i) = SubSeq(p, 1, i)
         /\ SubSeq(p, 1, Len(p)) = p
<1> DEFINE a == Append(p, s)
<1>1. /\ a \in Seq(S) /\ Len(a) = Len(p) + 1 /\ Len(p) \in Nat
      /\ a[Len(p) + 1] = s
      /\ \A i \in 1..Len(p) : a[i] = p[i] /\ p[i] \in S
  OBVIOUS
<1> HIDE DEF a
<1>2. ASSUME NEW i \in 0..Len(p) PROVE SubSeq(a, 1, i) = SubSeq(p, 1, i)
  <2> DEFINE q == SubSeq(p, 1, i)
             r == SubSeq(a, 1, i)
  <2>1. i \in Int /\ 1 \in Int /\ i \in Nat /\ \A j \in 1..i : j \in 1..Len(p)
    BY <1>1
  <2>2. (\A j \in 1..i : p[j] \in S) /\ \A j \in 1..i : a[j] \in S
    BY <1>1, <2>1
  <2>3. /\ q \in Seq(S) /\ Len(q) = (IF 1 <= i THEN i - 1 + 1 ELSE 0)
        /\ \A j \in 1..(i - 1 + 1) : q[j] = p[1 + j - 1]
    BY <2>1, <2>2, SubSeqProperties
  <2>4. /\ r \in Seq(S) /\ Len(r) = (IF 1 <= i THEN i - 1 + 1 ELSE 0)
        /\ \A j \in 1..(i - 1 + 1) : r[j] = a[1 + j - 1]
    BY <2>1, <2>2, SubSeqProperties
  <2> HIDE DEF q, r
  <2>5. Len(q) = i /\ Len(r) = i
    BY <2>1, <2>3, <2>4
  <2>6. ASSUME NEW j \in 1..i PROVE q[j] = r[j]
    <3>1. j \in 1..(i - 1 + 1) /\ 1 + j - 1 = j /\ j \in 1..Len(p)
      BY <2>1
    <3> QED BY <1>1, <2>3, <2>4, <3>1
  <2>7. q = r
    BY <2>3, <2>4, <2>5, <2>6, SeqEqual
  <2> QED BY <2>7 DEF q, r
<1>3. SubSeq(p, 1, Len(p)) = p
  BY SubSeqFull
<1> QED BY <1>1, <1>2, <1>3 DEF a

LEMMA SolidGrows ==
  ASSUME NEW t, NEW p \in Path, Solid(t, p), NEW s \in STRING, ~Dropped(s),
         Node(t, p).kind = "dir", Node(t, Append(p, s)).kind \in {"dir", "file"}
  PROVE  Solid(t, Append(p, s))
<1> DEFINE q == Append(p, s)
<1>1. /\ q \in Path /\ Len(q) = Len(p) + 1 /\ Len(p) \in Nat /\ q[Len(p) + 1] = s
      /\ \A i \in 1..Len(p) : q[i] = p[i]
      /\ \A i \in 0..Len(p) : SubSeq(q, 1, i) = SubSeq(p, 1, i)
      /\ SubSeq(p, 1, Len(p)) = p
  BY Prefixes DEF Path
<1>2. SubSeq(q, 1, Len(q)) = q
  BY <1>1, SubSeqFull DEF Path
<1> SUFFICES ASSUME NEW i \in 1..Len(q)
             PROVE  /\ ~Dropped(q[i])
                    /\ Node(t, SubSeq(q, 1, i - 1)).kind = "dir"
                    /\ Node(t, SubSeq(q, 1, i)).kind \in {"dir", "file"}
  BY DEF Solid
<1> HIDE DEF q
<1>3. CASE i \in 1..Len(p)
  <2>1. i - 1 \in 0..Len(p) /\ i \in 0..Len(p)
    BY <1>1, <1>3
  <2>2. /\ q[i] = p[i] /\ SubSeq(q, 1, i - 1) = SubSeq(p, 1, i - 1)
        /\ SubSeq(q, 1, i) = SubSeq(p, 1, i)
    BY <1>1, <1>3, <2>1
  <2> QED BY <1>3, <2>2 DEF Solid
<1>4. CASE i = Len(p) + 1
  <2>1. i - 1 = Len(p) /\ i = Len(q) /\ Len(p) \in 0..Len(p)
    BY <1>1, <1>4
  <2>2. q[i] = s /\ SubSeq(q, 1, i - 1) = p /\ SubSeq(q, 1, i) = q
    BY <1>1, <1>2, <1>4, <2>1
  <2> QED BY <2>2 DEF q
<1> QED BY <1>1, <1>3, <1>4

\* canonicalize() finds a canonical path, if it finds one.
LEMMA CanonicalIsSolid ==
  ASSUME NEW t, IsTree(t), NEW p \in Path, Canonical(t, p) # NoPath
  PROVE  /\ Canonical(t, p) \in Path /\ Solid(t, Canonical(t, p))
         /\ Len(Canonical(t, p)) <= MaxNames
<1> DEFINE W == Walk(t, p)
           Good(n) == W[n].at # NoPath => Solid(t, W[n].at) /\ Len(W[n].at) <= n
           S == {n \in Nat : Good(n)}
<1>1. /\ W[0] = [at |-> <<>>, rest |-> p, hops |-> MaxHops]
      /\ \A n \in Nat : W[n] \in Walks /\ W[n + 1] = LookUp(t, W[n])
  BY Walking
<1> HIDE DEF W
<1>2. Solid(t, <<>>) /\ Len(<<>>) = 0
  BY DEF Solid
<1>3. 0 \in S
  BY <1>1, <1>2
<1>4. ASSUME NEW n \in Nat, Good(n) PROVE Good(n + 1)
  <2> DEFINE w == W[n]
             v == W[n + 1]
  <2>1. /\ w \in Walks /\ v = LookUp(t, w)
        /\ w.at # NoPath => Solid(t, w.at) /\ Len(w.at) <= n
    BY <1>1, <1>4
  <2> SUFFICES ASSUME v.at # NoPath PROVE Solid(t, v.at) /\ Len(v.at) <= n + 1
    OBVIOUS
  <2> HIDE DEF w, v
  <2>2. /\ w = [at |-> w.at, rest |-> w.rest, hops |-> w.hops]
        /\ w.at \in Path \cup {NoPath} /\ w.rest \in Path
        /\ w.at = NoPath => w.rest = <<>>
    BY <2>1 DEF Walks
  <2>3. w.at # NoPath => Len(w.at) \in Nat
    BY <2>2 DEF Path
  <2>4. CASE w.rest = <<>>
    <3>1. v = w
      BY <2>1, <2>4, LooksUp
    <3> QED BY <2>1, <2>3, <3>1
  <2>5. CASE w.rest # <<>>
    <3>1. Leads(t, w, v)
      BY <2>1, <2>5, LooksUp
    <3>2. w.at \in Path /\ Head(w.rest) \in STRING /\ w.at # NoPath
      BY <2>2, <2>5 DEF Path
    <3>3. CASE v = Lost
      BY <3>3 DEF Lost
    <3>4. CASE v = [w EXCEPT !.rest = Tail(w.rest)]
      <4>1. v.at = w.at
        BY <2>2, <3>4
      <4> QED BY <2>1, <2>3, <3>2, <4>1
    <3>5. CASE v.at = <<>>
      BY <1>2, <3>5
    <3>6. CASE /\ Deeper(t, w)
               /\ v = [w EXCEPT !.at = Append(w.at, Head(w.rest)), !.rest = Tail(w.rest)]
      <4>1. v.at = Append(w.at, Head(w.rest))
        BY <2>2, <3>6
      <4>2. Solid(t, Append(w.at, Head(w.rest)))
        BY <2>1, <3>2, <3>6, SolidGrows DEF Deeper
      <4>3. Len(Append(w.at, Head(w.rest))) = Len(w.at) + 1
        BY <3>2, Prefixes DEF Path
      <4> QED BY <2>1, <2>3, <3>2, <4>1, <4>2, <4>3
    <3> QED BY <3>1, <3>3, <3>4, <3>5, <3>6 DEF Leads
  <2> QED BY <2>4, <2>5
<1>5. \A n \in S : n + 1 \in S
  BY <1>4
<1>6. S \in SUBSET Nat
  OBVIOUS
<1> HIDE DEF S
<1>7. S = Nat
  BY <1>3, <1>5, <1>6, Induction
<1>8. Good(MaxNames) /\ W[MaxNames] \in Walks
  BY <1>1, <1>7, DescriptorAssumption DEF S
<1>9. Canonical(t, p) = W[MaxNames].at
  BY DEF Canonical, W
<1> QED BY <1>8, <1>9 DEF Walks

\* Nothing happens behind the end of the walk.
LEMMA WalkRests ==
  ASSUME NEW t, IsTree(t), NEW p \in Path, NEW m \in Nat, Walk(t, p)[m].rest = <<>>
  PROVE  \A n \in Nat : n >= m => Walk(t, p)[n] = Walk(t, p)[m]
<1> DEFINE W == Walk(t, p)
           S == {n \in Nat : n >= m => W[n] = W[m]}
<1>1. \A n \in Nat : W[n] \in Walks /\ W[n + 1] = LookUp(t, W[n])
  BY Walking
<1>2. W[m].rest = <<>>
  OBVIOUS
<1> HIDE DEF W
<1>3. LookUp(t, W[m]) = W[m]
  BY <1>1, <1>2, LooksUp
<1>4. 0 \in S
  OBVIOUS
<1>5. ASSUME NEW n \in S PROVE n + 1 \in S
  <2>1. n \in Nat /\ n + 1 \in Nat /\ (n >= m => W[n] = W[m])
    OBVIOUS
  <2>2. CASE n >= m
    BY <1>1, <1>3, <2>1, <2>2
  <2>3. CASE ~(n >= m)
    <3>1. n + 1 >= m => n + 1 = m
      BY <2>1, <2>3
    <3> QED BY <2>1, <3>1
  <2> QED BY <2>2, <2>3
<1>6. S \in SUBSET Nat
  OBVIOUS
<1> HIDE DEF S
<1>7. S = Nat
  BY <1>4, <1>5, <1>6, Induction
<1> QED BY <1>7 DEF S, W

\* The names that are left of s, the first n taken.
LEMMA Rests ==
  ASSUME NEW S, NEW s \in Seq(S), NEW n \in Nat, n < Len(s)
  PROVE  LET rest == SubSeq(s, n + 1, Len(s)) IN
         /\ rest \in Seq(S) /\ rest # <<>> /\ Head(rest) = s[n + 1] /\ s[n + 1] \in S
         /\ Tail(rest) = SubSeq(s, n + 2, Len(s))
         /\ Append(SubSeq(s, 1, n), s[n + 1]) = SubSeq(s, 1, n + 1)
<1>1. /\ Len(s) \in Nat /\ n + 1 \in 1..Len(s) /\ Len(s) \in (n + 1)..Len(s)
      /\ n + 1 + 1 = n + 2 /\ n + 1 \in Int /\ Len(s) \in Int
      /\ \A i \in (n + 1)..Len(s) : i \in 1..Len(s)
      /\ \A i \in 1..(n + 1) : i \in 1..Len(s)
      /\ \A i \in 1..n : i \in 1..Len(s)
  OBVIOUS
<1>2. \A i \in 1..Len(s) : s[i] \in S
  OBVIOUS
<1> DEFINE rest == SubSeq(s, n + 1, Len(s))
<1>3. /\ rest \in Seq(S)
      /\ Len(rest) = IF n + 1 <= Len(s) THEN Len(s) - (n + 1) + 1 ELSE 0
  BY <1>1, <1>2, SubSeqProperties
<1>4. Head(rest) = s[n + 1] /\ Tail(rest) = SubSeq(s, n + 1 + 1, Len(s))
  BY <1>1, HeadTailOfSubSeq
<1>5. rest # <<>>
  <2> HIDE DEF rest
  <2>1. Len(rest) > 0
    BY <1>1, <1>3
  <2> QED BY <2>1, EmptySeq
<1>6. Append(SubSeq(s, 1, n), s[n + 1]) = SubSeq(s, 1, n + 1)
  <2> DEFINE a == SubSeq(s, 1, n)
             b == SubSeq(s, 1, n + 1)
             c == Append(a, s[n + 1])
  <2>1. (\A i \in 1..n : s[i] \in S) /\ (\A i \in 1..(n + 1) : s[i] \in S) /\ 1 \in Int /\ n \in Int
    BY <1>1, <1>2
  <2>2. /\ a \in Seq(S) /\ Len(a) = (IF 1 <= n THEN n - 1 + 1 ELSE 0)
        /\ \A j \in 1..(n - 1 + 1) : a[j] = s[1 + j - 1]
    BY <2>1, SubSeqProperties
  <2>3. /\ b \in Seq(S) /\ Len(b) = (IF 1 <= n + 1 THEN (n + 1) - 1 + 1 ELSE 0)
        /\ \A j \in 1..((n + 1) - 1 + 1) : b[j] = s[1 + j - 1]
    BY <1>1, <2>1, SubSeqProperties
  <2> HIDE DEF a, b
  <2>4. Len(a) = n /\ Len(b) = n + 1 /\ s[n + 1] \in S
    BY <1>1, <1>2, <2>2, <2>3
  <2>5. c \in Seq(S) /\ Len(c) = n + 1 /\ c[n + 1] = s[n + 1] /\ \A j \in 1..n : c[j] = a[j]
    BY <2>2, <2>4
  <2> HIDE DEF c
  <2>6. ASSUME NEW j \in 1..(n + 1) PROVE c[j] = b[j]
    <3>1. /\ 1 + j - 1 = j /\ j \in 1..((n + 1) - 1 + 1)
          /\ j # n + 1 => j \in 1..n /\ j \in 1..(n - 1 + 1)
      OBVIOUS
    <3> QED BY <2>2, <2>3, <2>5, <3>1
  <2>7. c = b
    BY <2>3, <2>4, <2>5, <2>6, SeqEqual
  <2> QED BY <2>7 DEF a, b, c
<1> QED BY <1>1, <1>2, <1>3, <1>4, <1>5, <1>6

\* A canonical path leads to itself.
LEMMA SolidIsCanonical ==
  ASSUME NEW t, IsTree(t), NEW p \in Path, Solid(t, p), Len(p) <= MaxNames
  PROVE  Canonical(t, p) = p
<1> DEFINE W == Walk(t, p)
           Here(n) == [at |-> SubSeq(p, 1, n), rest |-> SubSeq(p, n + 1, Len(p)), hops |-> MaxHops]
           S == {n \in Nat : n <= Len(p) => W[n] = Here(n)}
<1>1. /\ W[0] = [at |-> <<>>, rest |-> p, hops |-> MaxHops]
      /\ \A n \in Nat : W[n] \in Walks /\ W[n + 1] = LookUp(t, W[n])
  BY Walking
<1>2. Len(p) \in Nat /\ SubSeq(p, 1, Len(p)) = p /\ SubSeq(p, 1, 0) = <<>>
      /\ SubSeq(p, Len(p) + 1, Len(p)) = <<>>
  BY SubSeqFull, SubSeqEmpty DEF Path
<1> HIDE DEF W
<1>3. 0 \in S
  BY <1>1, <1>2
<1> HIDE DEF Here
<1>4. ASSUME NEW n \in S PROVE n + 1 \in S
  <2> SUFFICES ASSUME n + 1 <= Len(p) PROVE W[n + 1] = Here(n + 1)
    OBVIOUS
  <2>1. n \in Nat /\ n < Len(p) /\ n + 1 \in 1..Len(p) /\ W[n] = Here(n)
        /\ (n + 1) - 1 = n /\ n + 1 + 1 = n + 2
    BY <1>2
  <2> DEFINE here == SubSeq(p, 1, n)
             rest == SubSeq(p, n + 1, Len(p))
  <2>2. /\ rest # <<>> /\ Head(rest) = p[n + 1]
        /\ Tail(rest) = SubSeq(p, n + 2, Len(p))
        /\ Append(here, p[n + 1]) = SubSeq(p, 1, n + 1)
    BY <2>1, Rests DEF Path
  <2>3. /\ ~Dropped(p[n + 1])
        /\ Node(t, SubSeq(p, 1, (n + 1) - 1)).kind = "dir"
        /\ Node(t, SubSeq(p, 1, n + 1)).kind \in {"dir", "file"}
    BY <2>1 DEF Solid
  <2>4. /\ ~Dropped(Head(rest)) /\ Node(t, here).kind = "dir"
        /\ Node(t, Append(here, Head(rest))).kind \in {"dir", "file"}
    BY <2>1, <2>2, <2>3
  <2> DEFINE w == W[n]
  <2>5. w = [at |-> here, rest |-> rest, hops |-> MaxHops]
    BY <2>1 DEF Here
  <2> HIDE DEF here, rest, w
  <2>6. LookUp(t, w) = [w EXCEPT !.at = Append(w.at, Head(w.rest)), !.rest = Tail(w.rest)]
    <3>1. w.rest # <<>> /\ Node(t, w.at).kind = "dir" /\ ~Dropped(Head(w.rest))
          /\ Node(t, Append(w.at, Head(w.rest))).kind \in {"dir", "file"}
      BY <2>2, <2>4, <2>5
    <3> QED BY <3>1 DEF LookUp
  <2>7. LookUp(t, w) = [at |-> Append(here, Head(rest)), rest |-> Tail(rest), hops |-> MaxHops]
    BY <2>5, <2>6
  <2> QED BY <1>1, <2>1, <2>2, <2>7 DEF w, Here
<1>5. S \in SUBSET Nat
  OBVIOUS
<1> HIDE DEF S
<1>6. S = Nat
  BY <1>3, <1>4, <1>5, Induction
<1>7. W[Len(p)] = [at |-> p, rest |-> <<>>, hops |-> MaxHops]
  <2>1. W[Len(p)] = Here(Len(p))
    BY <1>2, <1>6 DEF S
  <2> QED BY <1>2, <2>1 DEF Here
<1>8. W[MaxNames] = W[Len(p)]
  BY <1>2, <1>7, WalkRests, DescriptorAssumption DEF W
<1> QED BY <1>7, <1>8 DEF Canonical, W

\* What canonicalize() finds leads to itself.
THEOREM Idempotent ==
  ASSUME NEW t, IsTree(t), NEW p \in Path, Canonical(t, p) # NoPath
  PROVE  Canonical(t, Canonical(t, p)) = Canonical(t, p)
BY CanonicalIsSolid, SolidIsCanonical

-----------------------------------------------------------------------------
\* What no name of a plainly named file is.
Ordinary(x) == ~Dropped(x) /\ x \notin {"..", "name\\"}

LEMMA OrdinaryNames ==
  \A x : Ordinary(x) => x # "" /\ x # "." /\ x # ".." /\ x # "name\\"
BY Zenon DEF Ordinary, Dropped

\* A path that is named plainly leads to itself, and no check refuses it.
LEMMA PlainResolves ==
  ASSUME NEW t, IsTree(t), NEW resource \in Path \ {<<>>}, NEW suffix,
         Plain(t, resource, suffix)
  PROVE  LET p == Candidate(t, resource) IN
         /\ Portable(resource) /\ Safe(resource, suffix) /\ Canonical(t, Root) # NoPath
         /\ p # NoPath /\ Canonical(t, p) = p /\ Inside(p, Canonical(t, Root))
         /\ IsFile(t, p) /\ Content(t, p) = Node(t, p).holds
<1> DEFINE home == Canonical(t, Root)
           p == Candidate(t, resource)
<1>1. home \in Path
  BY CanonicalIsSolid, DescriptorAssumption DEF Plain
<1>2. /\ p \in Path /\ Len(p) = Len(home) + Len(resource)
      /\ Len(home) \in Nat /\ Len(resource) \in Nat \ {0}
      /\ \A i \in 1..(Len(home) + Len(resource)) :
           p[i] = IF i <= Len(home) THEN home[i] ELSE resource[i - Len(home)]
  BY <1>1, ConcatProperties, LenProperties, EmptySeq DEF Candidate, Path
<1>3. /\ Len(p) <= MaxNames
      /\ \A i \in 1..Len(p) : ~Dropped(p[i]) /\ p[i] \notin {"..", "name\\"}
      /\ \A i \in 0..(Len(p) - 1) : Node(t, SubSeq(p, 1, i)).kind = "dir"
      /\ Node(t, p).kind = "file" /\ Suffix[Last(p)] = suffix /\ home # NoPath
  BY DEF Plain
<1>4. ASSUME NEW i \in 1..Len(resource)
      PROVE  /\ resource[i] = p[Len(home) + i] /\ ~Dropped(resource[i])
             /\ resource[i] \notin {"..", "name\\"}
  <2>1. /\ Len(home) + i \in 1..Len(p) /\ Len(home) + i \in 1..(Len(home) + Len(resource))
        /\ ~(Len(home) + i <= Len(home)) /\ (Len(home) + i) - Len(home) = i
    BY <1>2
  <2> HIDE DEF p, home
  <2>2. resource[i] = p[Len(home) + i]
    BY <1>2, <2>1
  <2> QED BY <1>3, <2>1, <2>2
<1>5. SubSeq(p, 1, Len(p)) = p
  BY <1>2, SubSeqFull DEF Path
<1>6. Solid(t, p)
  <2> SUFFICES ASSUME NEW i \in 1..Len(p)
               PROVE  /\ ~Dropped(p[i]) /\ Node(t, SubSeq(p, 1, i - 1)).kind = "dir"
                      /\ Node(t, SubSeq(p, 1, i)).kind \in {"dir", "file"}
    BY DEF Solid
  <2> HIDE DEF p
  <2>1. i - 1 \in 0..(Len(p) - 1) /\ (i = Len(p) \/ i \in 0..(Len(p) - 1))
    BY <1>2
  <2>2. ~Dropped(p[i]) /\ Node(t, SubSeq(p, 1, i - 1)).kind = "dir"
    BY <1>3, <2>1
  <2>3. CASE i = Len(p)
    <3>1. SubSeq(p, 1, i) = p
      BY <1>5, <2>3
    <3>2. Node(t, SubSeq(p, 1, i)).kind = "file"
      BY <1>3, <3>1
    <3> QED BY <2>2, <3>2
  <2>4. CASE i \in 0..(Len(p) - 1)
    <3>1. Node(t, SubSeq(p, 1, i)).kind = "dir"
      BY <1>3, <2>4
    <3> QED BY <2>2, <3>1
  <2> QED BY <2>1, <2>3, <2>4
<1>7. Canonical(t, p) = p /\ p # NoPath
  <2>1. NoPath \notin Path
    BY DescriptorAssumption
  <2> QED BY <1>2, <1>3, <1>6, <2>1, SolidIsCanonical
<1>13. \A i \in 1..Len(resource) : Ordinary(resource[i])
  BY <1>4, Zenon DEF Ordinary
<1>8. Portable(resource)
  <2>1. 1 \in 1..Len(resource) /\ Len(resource) \in 1..Len(resource)
    BY <1>2
  <2>2. \A i \in 1..(Len(resource) - 2) : i + 1 \in 1..Len(resource)
    BY <1>2
  <2>3. /\ Ordinary(resource[1]) /\ Ordinary(resource[Len(resource)])
        /\ \A i \in 1..(Len(resource) - 2) : Ordinary(resource[i + 1])
    BY <1>13, <2>1, <2>2, Zenon
  <2> QED BY <1>13, <2>3, OrdinaryNames, Zenon DEF Portable, Last
<1>9. Safe(resource, suffix)
  <2>1. 1 \in 1..Len(resource) /\ Len(resource) \in 1..Len(resource)
        /\ \A j \in 1..Len(resource) : j <= Len(resource)
    BY <1>2
  <2>2. Parts(resource) = 1..Len(resource)
    BY <1>4 DEF Parts
  <2>3. resource[Len(resource)] = p[Len(home) + Len(resource)]
    BY <1>4, <2>1
  <2>4. resource[Len(resource)] = Last(p)
    BY <1>2, <2>3 DEF Last
  <2>5. Suffix[resource[Len(resource)]] = suffix
    BY <1>3, <2>4
  <2>6. \E i \in Parts(resource) :
          (\A j \in Parts(resource) : j <= i) /\ Suffix[resource[i]] = suffix
    BY <2>1, <2>2, <2>5
  <2>7. Ordinary(resource[1])
    BY <1>13, <2>1, Zenon
  <2>8. resource[1] # "." /\ \A i \in 1..Len(resource) : resource[i] # ".."
    BY <1>13, <2>7, OrdinaryNames, Zenon
  <2> QED BY <2>6, <2>8 DEF Safe
<1>10. Inside(p, home)
  <2>1. SubSeq(p, 1, Len(home)) = home
    <3> DEFINE q == SubSeq(p, 1, Len(home))
    <3>1. \A i \in 1..Len(home) : i \in 1..(Len(home) + Len(resource)) /\ i <= Len(home)
      BY <1>2
    <3>2. (\A i \in 1..Len(home) : p[i] = home[i]) /\ (\A i \in 1..Len(home) : home[i] \in STRING)
      BY <1>1, <1>2, <3>1, ElementOfSeq DEF Path
    <3>3. /\ q \in Seq(STRING) /\ Len(q) = (IF 1 <= Len(home) THEN Len(home) - 1 + 1 ELSE 0)
          /\ \A j \in 1..(Len(home) - 1 + 1) : q[j] = p[1 + j - 1]
      BY <1>2, <3>2, SubSeqProperties
    <3> HIDE DEF q, p, home
    <3>4. Len(q) = Len(home)
      BY <1>2, <3>3
    <3>5. ASSUME NEW j \in 1..Len(home) PROVE q[j] = home[j]
      <4>1. j \in 1..(Len(home) - 1 + 1) /\ 1 + j - 1 = j
        BY <1>2
      <4> QED BY <3>2, <3>3, <4>1
    <3>6. q = home
      BY <1>1, <3>3, <3>4, <3>5, SeqEqual DEF Path
    <3> QED BY <3>6 DEF q
  <2>2. Len(p) >= Len(home)
    BY <1>2
  <2> QED BY <1>3, <2>1, <2>2 DEF Inside
<1>11. IsFile(t, p)
  BY <1>3, <1>7 DEF IsFile
<1>12. Content(t, p) = Node(t, p).holds
  BY <1>7, <1>11 DEF Content
<1> QED BY <1>3, <1>7, <1>8, <1>9, <1>10, <1>11, <1>12

-----------------------------------------------------------------------------
\* What the steps keep as long as the package stays as it is.

\* What was found is in the package, under its real name; and what was seen to
\* be a component still is.
Looking == {"file", "metadata", "descriptor", "validate", "load"}
Located ==
  /\ fs \in Trees /\ entrypoint \in Entries
  /\ pc \in {"root", "candidate", "file"} => wanted \in Path \ {<<>>}
  /\ pc = "candidate" => top = Canonical(fs, Root) /\ top # NoPath
  /\ pc \in Looking \/ result = "loaded" =>
       at \in Path /\ Canonical(fs, at) = at /\ Inside(at, Canonical(fs, Root))
  /\ pc = "load" => IsComponent(Content(fs, at))
  /\ pc # "done" => result = "none"
  /\ result \notin RuntimeErrors

Named == Node(fs, Candidate(fs, entrypoint)).holds.component

\* A plain package is found where its names say.
Course ==
  PlainPackage =>
    /\ \/ extension = "json" /\ wanted = entrypoint
       \/ extension = "wasm" /\ wanted = Named
    /\ pc \in {"metadata", "descriptor"} => extension = "json"
    /\ pc \in {"validate", "load"} => extension = "wasm"
    /\ pc \in Looking => at = Candidate(fs, wanted)
    /\ pc = "done" => result = "loaded"

Settled == changes \in Nat /\ (changes = 0 => Located /\ Course)

LEMMA TreesAre == ASSUME NEW t \in Trees PROVE IsTree(t)
BY DescriptorAssumption DEF IsTree

\* What the looks of resolve_resource() see of a file that is named plainly.
Seen(resource, suffix) ==
  LET p == Candidate(fs, resource) IN
  /\ Portable(resource) /\ Safe(resource, suffix) /\ Canonical(fs, Root) # NoPath
  /\ p # NoPath /\ Canonical(fs, p) = p /\ Inside(p, Canonical(fs, Root)) /\ IsFile(fs, p)

\* The names in a plain package lead where they say, and what is there is
\* what read() and load() ask for.
LEMMA PlainFacts ==
  ASSUME fs \in Trees, entrypoint \in Entries, PlainPackage
  PROVE  LET d == Content(fs, Candidate(fs, entrypoint))
             c == Content(fs, Candidate(fs, Named))
         IN  /\ Seen(entrypoint, "json") /\ Seen(Named, "wasm")
             /\ IsDescriptor(d) /\ ~d.big /\ d.schemaVersion = 1 /\ d.component = Named
             /\ Named \in Path \ {<<>>}
             /\ IsComponent(c) /\ c.fits
<1> DEFINE e == Candidate(fs, entrypoint)
           d == Node(fs, e).holds
           c == Candidate(fs, Named)
<1>1. /\ Plain(fs, entrypoint, "json")
      /\ IsDescriptor(d) /\ ~d.big /\ d.schemaVersion = 1
      /\ Plain(fs, Named, "wasm") /\ IsComponent(Node(fs, c).holds) /\ Node(fs, c).holds.fits
  BY DEF PlainPackage, Named
<1>2. IsTree(fs) /\ entrypoint \in Path \ {<<>>}
  BY TreesAre, DescriptorAssumption
<1>3. Seen(entrypoint, "json") /\ Content(fs, e) = d
  BY <1>1, <1>2, PlainResolves DEF Seen
<1>4. Named \in Path \ {<<>>}
  <2>1. IsNode(Node(fs, e)) /\ Node(fs, e).kind = "file"
    BY <1>1, <1>2, NodesAre DEF Plain
  <2> QED BY <1>1, <2>1 DEF IsNode, IsDescriptor, Named
<1>5. Seen(Named, "wasm") /\ Content(fs, c) = Node(fs, c).holds
  BY <1>1, <1>2, <1>4, PlainResolves DEF Seen
<1> QED BY <1>1, <1>3, <1>4, <1>5 DEF Named

\* While nothing changes, each look keeps what is known.
LEMMA SettledLook ==
  ASSUME Settled, changes = 0, Look
  PROVE  Settled'
<1>1. fs' = fs /\ changes' = changes /\ entrypoint' = entrypoint
  BY DEF Look
<1>2. Located /\ Course /\ changes \in Nat
  BY DEF Settled
<1>3. fs \in Trees /\ entrypoint \in Entries /\ IsTree(fs) /\ entrypoint \in Path \ {<<>>}
  BY <1>2, TreesAre, DescriptorAssumption DEF Located
<1>4. PlainPackage' = PlainPackage /\ Named' = Named
  BY <1>1 DEF PlainPackage, Named
<1> DEFINE Right ==
      /\ \/ extension' = "json" /\ wanted' = entrypoint
         \/ extension' = "wasm" /\ wanted' = Named
      /\ pc' \in {"metadata", "descriptor"} => extension' = "json"
      /\ pc' \in {"validate", "load"} => extension' = "wasm"
      /\ pc' \in Looking => at' = Candidate(fs, wanted')
      /\ pc' = "done" => result' = "loaded"
    Placed ==
      /\ pc' \in {"root", "candidate", "file"} => wanted' \in Path \ {<<>>}
      /\ pc' = "candidate" => top' = Canonical(fs, Root) /\ top' # NoPath
      /\ pc' \in Looking \/ result' = "loaded" =>
           at' \in Path /\ Canonical(fs, at') = at' /\ Inside(at', Canonical(fs, Root))
      /\ pc' = "load" => IsComponent(Content(fs, at'))
      /\ pc' # "done" => result' = "none"
      /\ result' \notin RuntimeErrors
<1>5. SUFFICES Placed /\ (PlainPackage => Right)
  <2>1. ASSUME Placed PROVE Located'
    BY <1>1, <1>3, <2>1 DEF Located
  <2>2. ASSUME PlainPackage => Right PROVE Course'
    BY <1>1, <1>4, <2>2 DEF Course, Candidate
  <2> QED BY <1>1, <1>2, <2>1, <2>2 DEF Settled
<1>6. PlainPackage =>
        /\ \/ extension = "json" /\ wanted = entrypoint
           \/ extension = "wasm" /\ wanted = Named
        /\ Seen(wanted, extension)
  BY <1>2, <1>3, PlainFacts DEF Course
<1>7. CASE pc = "root" /\ FindRoot
  <2>1. wanted \in Path \ {<<>>} /\ result = "none"
    BY <1>2, <1>7 DEF Located
  <2>2. /\ wanted' = wanted /\ extension' = extension /\ top' = Canonical(fs, Root)
        /\ \/ pc' = "candidate" /\ result' = result /\ top' # NoPath
           \/ /\ pc' = "done" /\ result' = "path-escape"
              /\ ~(Portable(wanted) /\ Safe(wanted, extension) /\ top' # NoPath)
    BY <1>7 DEF FindRoot, Asked, Go, Finish
  <2>3. PlainPackage => pc' = "candidate"
    BY <1>6, <2>2 DEF Seen
  <2> QED BY <1>6, <2>1, <2>2, <2>3 DEF Looking, RuntimeErrors
<1>8. CASE pc = "candidate" /\ FindCandidate
  <2>1. /\ wanted \in Path \ {<<>>} /\ result = "none"
        /\ top = Canonical(fs, Root) /\ top # NoPath
    BY <1>2, <1>8 DEF Located
  <2>2. /\ wanted' = wanted /\ extension' = extension /\ at' = Canonical(fs, top \o wanted)
        /\ \/ pc' = "file" /\ result' = result /\ at' # NoPath /\ Inside(at', top)
           \/ /\ pc' = "done" /\ result' = "path-escape"
              /\ ~(at' # NoPath /\ Inside(at', top))
    BY <1>8 DEF FindCandidate, Asked, Go, Finish, Contained
  <2>3. top \o wanted = Candidate(fs, wanted) /\ top \o wanted \in Path
    BY <1>3, <2>1, CanonicalIsSolid, ConcatProperties, DescriptorAssumption
       DEF Candidate, Path
  <2>4. at' # NoPath => at' \in Path /\ Canonical(fs, at') = at'
    BY <1>3, <2>2, <2>3, CanonicalIsSolid, Idempotent
  <2>5. PlainPackage => pc' = "file" /\ at' = Candidate(fs, wanted)
    BY <1>6, <2>1, <2>2, <2>3 DEF Seen
  <2> QED BY <1>6, <2>1, <2>2, <2>4, <2>5 DEF Looking, RuntimeErrors
<1>9. CASE pc \in Looking
  <2>1. /\ result = "none" /\ top' = top /\ at' = at
        /\ at \in Path /\ Canonical(fs, at) = at /\ Inside(at, Canonical(fs, Root))
        /\ PlainPackage => at = Candidate(fs, wanted)
    BY <1>2, <1>9 DEF Look, Looking, Located, Course,
       CheckFile, Measure, ReadDescriptor, Validate, LoadAgain
  <2>2. CASE pc = "file" /\ CheckFile
    <3>1. wanted \in Path \ {<<>>}
      BY <1>2, <2>2 DEF Located
    <3>2. /\ wanted' = wanted /\ extension' = extension
          /\ \/ pc' = (IF extension = "json" THEN "metadata" ELSE "validate") /\ result' = result
             \/ pc' = "done" /\ result' = "path-escape" /\ ~IsFile(fs, at)
      BY <2>2 DEF CheckFile, Asked, Resume, Go, Finish
    <3>3. PlainPackage => IsFile(fs, at)
      BY <1>6, <2>1 DEF Seen
    <3> QED BY <1>6, <2>1, <3>1, <3>2, <3>3 DEF Looking, RuntimeErrors
  <2>3. CASE pc = "metadata" /\ Measure
    <3>1. /\ wanted' = wanted /\ extension' = extension
          /\ \/ pc' = "descriptor" /\ result' = result
             \/ /\ pc' = "done" /\ result' = "invalid-descriptor"
                /\ \/ Canonical(fs, at) = NoPath
                   \/ IsDescriptor(Content(fs, at)) /\ Content(fs, at).big
      BY <2>3 DEF Measure, Asked, Go, Finish
    <3>2. PlainPackage => extension = "json"
      BY <1>2, <2>3 DEF Course
    <3>3. PlainPackage => pc' = "descriptor"
      BY <1>3, <1>6, <2>1, <3>1, <3>2, PlainFacts DEF Seen
    <3> QED BY <1>6, <2>1, <3>1, <3>2, <3>3 DEF Looking, RuntimeErrors
  <2>4. CASE pc = "descriptor" /\ ReadDescriptor
    <3> DEFINE d == Content(fs, at)
    <3>1. \/ /\ pc' = "root" /\ result' = result /\ extension' = "wasm"
             /\ wanted' = d.component /\ IsDescriptor(d)
          \/ /\ pc' = "done" /\ result' = "invalid-descriptor"
             /\ wanted' = wanted /\ extension' = extension
             /\ ~(IsDescriptor(d) /\ d.schemaVersion = 1)
      BY <2>4 DEF ReadDescriptor, Asked, Go, Finish
    <3>2. PlainPackage => extension = "json"
      BY <1>2, <2>4 DEF Course
    <3>3. PlainPackage => pc' = "root" /\ wanted' = Named
      BY <1>3, <1>6, <2>1, <3>1, <3>2, PlainFacts
    <3>4. ASSUME IsDescriptor(d) PROVE d.component \in Path \ {<<>>}
      <4>1. d = Node(fs, at).holds /\ Node(fs, at).kind = "file"
        <5>1. d.what # "unreadable"
          BY <3>4 DEF IsDescriptor
        <5> QED BY <2>1, <5>1 DEF Content, IsFile
      <4>2. IsNode(Node(fs, at))
        BY <1>3, NodesAre
      <4> QED BY <3>4, <4>1, <4>2 DEF IsNode, IsDescriptor
    <3> HIDE DEF d
    <3> QED BY <2>1, <3>1, <3>3, <3>4 DEF Looking, RuntimeErrors
  <2>5. CASE pc = "validate" /\ Validate
    <3>1. /\ wanted' = wanted /\ extension' = extension
          /\ \/ pc' = "load" /\ result' = result /\ IsComponent(Content(fs, at))
             \/ pc' = "done" /\ result' = "invalid-component" /\ ~IsComponent(Content(fs, at))
      BY <2>5 DEF Validate, Validated, Asked, Go, Finish
    <3>2. PlainPackage => extension = "wasm"
      BY <1>2, <2>5 DEF Course
    <3>3. PlainPackage => pc' = "load"
      BY <1>3, <1>6, <2>1, <3>1, <3>2, PlainFacts
    <3> QED BY <1>6, <2>1, <3>1, <3>2, <3>3 DEF Looking, RuntimeErrors
  <2>6. CASE pc = "load" /\ LoadAgain
    <3> DEFINE c == Content(fs, at)
    <3>1. IsComponent(c)
      BY <1>2, <2>6 DEF Located
    <3>2. /\ wanted' = wanted /\ extension' = extension /\ pc' = "done"
          /\ result' = IF c.fits THEN "loaded" ELSE "wit-mismatch"
      BY <2>6, <3>1 DEF LoadAgain, Asked, Finish
    <3>3. PlainPackage => extension = "wasm"
      BY <1>2, <2>6 DEF Course
    <3>4. PlainPackage => result' = "loaded"
      BY <1>3, <1>6, <2>1, <3>2, <3>3, PlainFacts
    <3> HIDE DEF c
    <3> QED BY <1>6, <2>1, <3>2, <3>3, <3>4 DEF Looking, RuntimeErrors
  <2> QED BY <1>9, <2>2, <2>3, <2>4, <2>5, <2>6 DEF Look, Looking
<1> QED BY <1>7, <1>8, <1>9 DEF Look, Looking

LEMMA Settles == Spec => []Settled
<1>1. Init => Settled
  <2> SUFFICES ASSUME Init PROVE Settled
    OBVIOUS
  <2>1. fs \in Trees /\ entrypoint \in Entries /\ changes \in Nat
    BY DEF Init
  <2>2. pc = "root" /\ result = "none" /\ wanted = entrypoint /\ extension = "json"
    BY DEF Init
  <2>3. entrypoint \in Path \ {<<>>}
    BY <2>1, DescriptorAssumption
  <2>4. Located
    BY <2>1, <2>2, <2>3 DEF Located, Looking, RuntimeErrors
  <2>5. Course
    BY <2>2 DEF Course, Looking
  <2> QED BY <2>1, <2>4, <2>5 DEF Settled
<1>2. Settled /\ [Next]_vars => Settled'
  <2> SUFFICES ASSUME Settled, [Next]_vars PROVE Settled'
    OBVIOUS
  <2>1. changes \in Nat
    BY DEF Settled
  <2>2. CASE Look /\ changes = 0
    BY <2>2, SettledLook
  <2>3. CASE Look /\ changes # 0
    BY <2>1, <2>3 DEF Look, Settled
  <2>4. CASE Change
    BY <2>1, <2>4 DEF Change, Settled
  <2>5. CASE UNCHANGED vars
    BY <2>5 DEF vars, Settled, Located, Course, PlainPackage, Named, Candidate
  <2> QED BY <2>2, <2>3, <2>4, <2>5 DEF Next
<1> QED BY <1>1, <1>2, PTL DEF Spec

-----------------------------------------------------------------------------
\* The process dies of a package only if the package changed while it was
\* being read: what read() accepted is found again by load().
THEOREM DiesOnlyOfChange == Spec => []FatalOnlyAfterChange
<1>1. Settled => FatalOnlyAfterChange
  BY DEF Settled, Located, FatalOnlyAfterChange
<1> QED BY <1>1, Settles, PTL

\* Whatever links and names lead to it, what runs is in the package.
THEOREM StaysInside == Spec => []RunsFromPackage
<1>1. Settled => RunsFromPackage
  BY DEF Settled, Located, RunsFromPackage
<1> QED BY <1>1, Settles, PTL

\* No check refuses a plain package.
THEOREM PlainIsLoaded == Spec => []LoadsPlainPackages
<1>1. Settled => LoadsPlainPackages
  BY DEF Settled, Course, LoadsPlainPackages
<1> QED BY <1>1, Settles, PTL
================================================================================
