-------------------------- MODULE MergePartsProof ---------------------------
(***************************************************************************)
(* The way of a testcase from its hypergraph to partition.txt, for every   *)
(* hypergraph createHypergraph can hand over, whatever myPartition answers *)
(* and for every number of splits and merges.                              *)
(*                                                                         *)
(* doHmetis has the inductive invariant SplitInv.  Its main part, Shaped,  *)
(* says that the graphs are a tree in which every graph with sons is an    *)
(* IsSon-split in two; that the leaves divide the vertices of pHyper       *)
(* (LeavesPartition) and that every graph's edges are what is left of      *)
(* pHyper's (EdgesProject) follows by induction along the tree, without a  *)
(* look at the steps.  mergeParts and doWriting have ChainsDescend, which  *)
(* is inductive as it stands, and WriteInv.                                *)
(***************************************************************************)
EXTENDS MergeParts, SeqLemmas

-----------------------------------------------------------------------------
(***************************************************************************)
(* The sons createSubGraph makes.                                          *)
(***************************************************************************)

\* What mapForFather can be; it is empty in pHyper.
FatherMaps == {<<>>} \cup UNION {[0 .. m - 1 -> Nat] : m \in Nat}

\* What a CHypergraph is made of.
Hypergraphs ==
  [n : Nat, eind : Seq(Seq(Nat)), w : Seq(Nat), fatherGraph : Nat,
   mapForFather : FatherMaps, leftSon : Nat, rightSon : Nat]

\* The part of a graph that never changes once it is made.
Core(G) == [n |-> G.n, eind |-> G.eind, w |-> G.w, mapForFather |-> G.mapForFather]

\* The edges of a graph list its vertices, each vertex is in one, and each has a weight.
Spanned(C) ==
  /\ C.n \in Nat /\ C.eind \in Seq(Seq(0 .. C.n - 1))
  /\ C.w \in Seq(Nat) /\ Len(C.w) = Len(C.eind)
  /\ \A v \in 0 .. C.n - 1 : \E e \in 1 .. Len(C.eind) : v \in Range(C.eind[e])

\* The edges with a vertex in part k, and the vertices of part k.
EdgesIn(eind, p, k) == {i \in 1 .. Len(eind) : \E v \in Range(eind[i]) : p[v] = k}
Side(n, p, k) == {v \in 0 .. n - 1 : p[v] = k}

\* S is what createSubGraph makes of part k of G.
IsSon(G, S, p, k) ==
  /\ S.mapForFather \in [0 .. S.n - 1 -> 0 .. G.n - 1]
  /\ IsInjective(S.mapForFather)
  /\ Range(S.mapForFather) = Side(G.n, p, k)
  /\ Len(S.eind) = Len(SonEdges(G.eind, p, k))
  /\ \A e \in 1 .. Len(S.eind) :
       /\ Mapped(S.eind[e], S.mapForFather) = SonLists(G.eind, p, k)[e]
       /\ S.w[e] = SonWeight(G, p, k, SonEdges(G.eind, p, k)[e])

\* The edges a son takes over are the edges that have a vertex in its part.
LEMMA SonEdgesAre ==
  ASSUME NEW n \in Nat, NEW eind \in Seq(Seq(0 .. n - 1)), NEW p, NEW k
  PROVE  LET edges == SonEdges(eind, p, k)
         IN  /\ edges \in Seq(1 .. Len(eind)) /\ DOMAIN edges = 1 .. Len(edges) /\ Len(edges) \in Nat
             /\ Range(edges) = EdgesIn(eind, p, k)
<1> DEFINE m == Len(eind)
           A == {i \in DOMAIN eind : \E v \in Range(eind[i]) : p[v] = k}
           id == [i \in DOMAIN eind |-> i]
<1>1. m \in Nat /\ DOMAIN eind = 1 .. m
  BY LenProperties
<1>2. id \in Seq(1 .. m) /\ Range(id) = 1 .. m
  <2> HIDE DEF m
  <2> QED
    BY <1>1, CountUp
<1>3. A = {i \in 1 .. m : \E v \in Range(eind[i]) : p[v] = k}
  BY <1>1
<1>4. SonEdges(eind, p, k) = Among(id, A)
  BY DEF SonEdges
<1> HIDE DEF m, A, id
<1>5. Among(id, A) \in Seq(1 .. m) /\ Range(Among(id, A)) = (1 .. m) \cap A
  BY <1>2, AmongType
<1>6. (1 .. m) \cap A = A
  BY <1>3
<1>7. DOMAIN Among(id, A) = 1 .. Len(Among(id, A)) /\ Len(Among(id, A)) \in Nat
  BY <1>5, LenProperties
<1> QED
  BY <1>3, <1>4, <1>5, <1>6, <1>7 DEF m, EdgesIn

\* The lists are what the edges keep of the vertices V: all of them.
Keeps(eind, edges, V, lists) ==
  /\ lists \in Seq(Seq(V)) /\ Len(lists) = Len(edges)
  /\ \A e \in 1 .. Len(edges) : lists[e] = Among(eind[edges[e]], V)
  /\ V = UNION {Range(lists[e]) : e \in 1 .. Len(edges)}

\* What a son's edges keep are vertices of its part, and every vertex of the part is
\* in one of them.
LEMMA SonListsAre ==
  ASSUME NEW G, Spanned(G), NEW p \in [0 .. G.n - 1 -> {0, 1}], NEW k
  PROVE  Keeps(G.eind, SonEdges(G.eind, p, k), Side(G.n, p, k), SonLists(G.eind, p, k))
<1> DEFINE n == G.n
           eind == G.eind
           edges == SonEdges(eind, p, k)
           mine == SonLists(eind, p, k)
           V == Side(n, p, k)
           l == Len(edges)
<1>1. n \in Nat /\ eind \in Seq(Seq(0 .. n - 1))
  BY DEF Spanned
<1>2. DOMAIN p = 0 .. n - 1
  OBVIOUS
<1>3. mine = [e \in DOMAIN edges |-> Among(eind[edges[e]], V)]
  BY <1>2 DEF SonLists, Side
<1> HIDE DEF n, eind, mine, edges, V
<1>4. /\ edges \in Seq(1 .. Len(eind)) /\ DOMAIN edges = 1 .. l /\ l \in Nat
      /\ Range(edges) = EdgesIn(eind, p, k)
  BY <1>1, SonEdgesAre DEF edges
<1>5. eind \in [1 .. Len(eind) -> Seq(0 .. n - 1)] /\ edges \in [1 .. l -> 1 .. Len(eind)]
  BY <1>1, <1>4, LenProperties
<1> HIDE DEF l
<1>6. ASSUME NEW e \in 1 .. l
      PROVE  mine[e] = Among(eind[edges[e]], V) /\ mine[e] \in Seq(V) /\ Range(mine[e]) = Range(eind[edges[e]]) \cap V
  <2>1. mine[e] = Among(eind[edges[e]], V)
    BY <1>3, <1>4
  <2>2. eind[edges[e]] \in Seq(0 .. n - 1)
    BY <1>5
  <2> DEFINE N == 0 .. n - 1
             le == eind[edges[e]]
  <2> HIDE DEF N, le
  <2>3. Among(le, V) \in Seq(N \cap V) /\ Range(Among(le, V)) = Range(le) \cap V
    BY <2>2, AmongType DEF N, le
  <2>4. N \cap V = V
    BY DEF V, N, Side
  <2> QED
    BY <2>1, <2>3, <2>4 DEF le
<1>7. mine \in [1 .. l -> Seq(V)]
  BY <1>3, <1>4, <1>6
<1>8. mine \in Seq(Seq(V)) /\ Len(mine) = l
  <2>1. l \in Nat
    BY <1>4
  <2> QED
    BY <1>7, <2>1, LenIs
<1>10. ASSUME NEW v \in V PROVE \E e \in 1 .. l : v \in Range(mine[e])
  <2>1. v \in 0 .. n - 1 /\ p[v] = k
    BY DEF V, Side
  <2>2. PICK i \in 1 .. Len(eind) : v \in Range(eind[i])
    BY <2>1 DEF Spanned, n, eind
  <2>3. i \in Range(edges)
    BY <1>4, <2>1, <2>2 DEF EdgesIn
  <2>4. PICK e \in 1 .. l : edges[e] = i
    BY <1>4, <2>3 DEF Range
  <2> QED
    BY <1>6, <2>2, <2>4
<1>11. V = UNION {Range(mine[e]) : e \in 1 .. l}
  <2>1. \A e \in 1 .. l : Range(mine[e]) \subseteq V
    BY <1>6
  <2> QED
    BY <1>10, <2>1
<1>12. \A e \in 1 .. l : mine[e] = Among(eind[edges[e]], V)
  BY <1>6
<1> QED
  BY <1>8, <1>11, <1>12 DEF Keeps, mine, V, n, edges, eind, l

\* createSubGraph returns a son: its vertices stand one by one for those of its part,
\* and its edges for what is left of the father's edges.
LEMMA SonMade ==
  ASSUME NEW G, Spanned(G), NEW p \in [0 .. G.n - 1 -> {0, 1}], NEW k, NEW gi
  PROVE  LET S == createSubGraph(G, gi, p, k)
         IN  Spanned(S) /\ IsSon(G, S, p, k)
<1> DEFINE n == G.n
           eind == G.eind
           edges == SonEdges(eind, p, k)
           mine == SonLists(eind, p, k)
           verts == SonVertices(eind, p, k)
           Number(v) == (CHOOSE j \in DOMAIN verts : verts[j] = v) - 1
           V == Side(n, p, k)
           l == Len(edges)
           c == Len(verts)
           S == createSubGraph(G, gi, p, k)
<1>1. n \in Nat /\ eind \in Seq(Seq(0 .. n - 1)) /\ G.w \in Seq(Nat) /\ Len(G.w) = Len(eind)
  BY DEF Spanned
<1>2. /\ S.n = c
      /\ S.eind = [e \in DOMAIN edges |-> [j \in DOMAIN mine[e] |-> Number(mine[e][j])]]
      /\ S.w = [e \in DOMAIN edges |-> SonWeight(G, p, k, edges[e])]
      /\ S.mapForFather = [x \in 0 .. c - 1 |-> verts[x + 1]]
  BY DEF createSubGraph, Node
<1>3. /\ mine \in Seq(Seq(V)) /\ Len(mine) = l
      /\ \A e \in 1 .. Len(mine) : mine[e] = Among(eind[edges[e]], V)
      /\ V = UNION {Range(mine[e]) : e \in 1 .. Len(mine)}
  <2>1. Keeps(G.eind, SonEdges(G.eind, p, k), Side(G.n, p, k), SonLists(G.eind, p, k))
    BY SonListsAre
  <2> QED
    BY <2>1 DEF Keeps
<1>4. l \in Nat /\ DOMAIN edges = 1 .. l /\ edges \in [1 .. l -> 1 .. Len(eind)]
  <2> HIDE DEF eind, n
  <2>1. edges \in Seq(1 .. Len(eind))
    BY <1>1, SonEdgesAre
  <2> HIDE DEF edges
  <2> QED
    BY <2>1, LenProperties
<1>5. verts = FirstSeen(FlattenSeq(mine))
  BY DEF SonVertices
<1> HIDE DEF eind, n, edges, mine, V, l, S, verts
<1>6. verts \in Lists(V) /\ Range(verts) = V
  <2>1. FlattenSeq(mine) \in Seq(V) /\ ToSet(FlattenSeq(mine)) = UNION {ToSet(mine[e]) : e \in 1 .. Len(mine)}
    BY <1>3, FlattenSeqType
  <2>2. UNION {ToSet(mine[e]) : e \in 1 .. Len(mine)} = V
    BY <1>3 DEF ToSet, Range
  <2>3. verts \in Lists(V) /\ ToSet(verts) = V
    BY <1>5, <2>1, <2>2, FirstSeenLists
  <2> QED
    BY <2>3 DEF ToSet, Range
<1>7. c \in Nat /\ DOMAIN verts = 1 .. c /\ verts \in [1 .. c -> V] /\ IsInjective(verts)
  BY <1>6, LenProperties DEF Lists
<1> HIDE DEF c
<1>8. ASSUME NEW v \in V
      PROVE  Number(v) \in 0 .. c - 1 /\ verts[Number(v) + 1] = v
  <2>1. \E j \in DOMAIN verts : verts[j] = v
    BY <1>6 DEF Range
  <2> DEFINE j == CHOOSE j \in DOMAIN verts : verts[j] = v
  <2>2. j \in DOMAIN verts /\ verts[j] = v
    BY <2>1
  <2>3. Number(v) = j - 1
    OBVIOUS
  <2> HIDE DEF j, Number
  <2>4. j \in 1 .. c /\ j \in Int
    BY <1>7, <2>2
  <2>5. (j - 1) + 1 = j /\ j - 1 \in 0 .. c - 1
    BY <1>7, <2>4
  <2> QED
    BY <2>2, <2>3, <2>5
<1> HIDE DEF Number
<1>9. V \subseteq 0 .. n - 1
  BY DEF V, Side
<1> DEFINE f == S.mapForFather
<1>10. f \in [0 .. c - 1 -> 0 .. n - 1] /\ \A x \in 0 .. c - 1 : f[x] = verts[x + 1] /\ x + 1 \in 1 .. c
  <2>1. \A x \in 0 .. c - 1 : x + 1 \in 1 .. c
    BY <1>7
  <2>2. \A x \in 0 .. c - 1 : verts[x + 1] \in 0 .. n - 1
    BY <1>7, <1>9, <2>1
  <2> QED
    BY <1>2, <2>1, <2>2
<1>11. IsInjective(f)
  <2>1. DOMAIN f = 0 .. c - 1
    BY <1>10
  <2>2. ASSUME NEW x \in 0 .. c - 1, NEW y \in 0 .. c - 1, f[x] = f[y]
        PROVE  x = y
    <3>1. x + 1 \in 1 .. c /\ y + 1 \in 1 .. c /\ verts[x + 1] = verts[y + 1]
      BY <1>10, <2>2
    <3>2. x + 1 = y + 1
      BY <1>7, <3>1 DEF IsInjective
    <3> QED
      BY <1>7, <3>2
  <2> QED
    BY <2>1, <2>2 DEF IsInjective
<1>12. Range(f) = V
  <2>1. ASSUME NEW x \in 0 .. c - 1 PROVE f[x] \in V
    BY <1>7, <1>10
  <2>2. ASSUME NEW v \in V PROVE \E x \in 0 .. c - 1 : f[x] = v
    BY <1>8, <1>10
  <2>3. DOMAIN f = 0 .. c - 1
    BY <1>10
  <2> QED
    BY <2>1, <2>2, <2>3 DEF Range
<1>13. mine \in [1 .. l -> Seq(V)]
  BY <1>3, LenProperties
<1>14. ASSUME NEW e \in 1 .. l
       PROVE  /\ S.eind[e] \in Seq(0 .. c - 1) /\ Mapped(S.eind[e], f) = mine[e]
              /\ S.w[e] = SonWeight(G, p, k, edges[e]) /\ S.w[e] \in Nat
  <2> DEFINE m == mine[e]
             le == S.eind[e]
  <2>1. m \in Seq(V)
    BY <1>13
  <2>2. le = [j \in DOMAIN m |-> Number(m[j])]
    BY <1>2, <1>4
  <2>3. S.w[e] = SonWeight(G, p, k, edges[e])
    BY <1>2, <1>4
  <2> HIDE DEF m, le
  <2>4. Len(m) \in Nat /\ DOMAIN m = 1 .. Len(m) /\ m \in [1 .. Len(m) -> V]
    BY <2>1, LenProperties
  <2>5. le \in [1 .. Len(m) -> 0 .. c - 1]
    BY <1>8, <2>2, <2>4
  <2>6. le \in Seq(0 .. c - 1)
    BY <2>4, <2>5, SeqDef
  <2>7. Mapped(le, f) = m
    <3>1. Mapped(le, f) = [j \in 1 .. Len(m) |-> f[le[j]]]
      BY <2>5 DEF Mapped
    <3>2. ASSUME NEW j \in 1 .. Len(m) PROVE f[le[j]] = m[j]
      <4>1. le[j] = Number(m[j]) /\ m[j] \in V
        BY <2>2, <2>4
      <4>2. Number(m[j]) \in 0 .. c - 1 /\ verts[Number(m[j]) + 1] = m[j]
        BY <1>8, <4>1
      <4> QED
        BY <1>10, <4>1, <4>2
    <3>3. m = [j \in 1 .. Len(m) |-> m[j]]
      BY <2>4
    <3> QED
      BY <3>1, <3>2, <3>3
  <2>8. S.w[e] \in Nat
    <3>1. edges[e] \in 1 .. Len(eind)
      BY <1>4
    <3>2. G.w[edges[e]] \in Nat
      BY <1>1, <3>1, LenProperties
    <3> QED
      BY <2>3, <3>2 DEF SonWeight
  <2> QED
    BY <2>3, <2>6, <2>7, <2>8 DEF m, le
<1>15. S.eind \in Seq(Seq(0 .. c - 1)) /\ Len(S.eind) = l
  <2>1. S.eind = [e \in 1 .. l |-> S.eind[e]]
    BY <1>2, <1>4
  <2>2. S.eind \in [1 .. l -> Seq(0 .. c - 1)]
    BY <1>14, <2>1
  <2>3. l \in Nat
    BY <1>4
  <2> DEFINE X == Seq(0 .. c - 1)
             si == S.eind
  <2>4. si \in [1 .. l -> X]
    BY <2>2
  <2> HIDE DEF X, si
  <2>5. si \in Seq(X) /\ Len(si) = l
    BY <2>3, <2>4, LenIs
  <2> QED
    BY <2>5 DEF X, si
<1>16. S.w \in Seq(Nat) /\ Len(S.w) = l
  <2>1. S.w = [e \in 1 .. l |-> S.w[e]]
    BY <1>2, <1>4
  <2>2. S.w \in [1 .. l -> Nat]
    BY <1>14, <2>1
  <2> QED
    BY <1>4, <2>2, LenIs
<1>17. ASSUME NEW x \in 0 .. c - 1 PROVE \E e \in 1 .. l : x \in Range(S.eind[e])
  <2>1. f[x] \in V
    <3>1. DOMAIN f = 0 .. c - 1
      BY <1>10
    <3> QED
      BY <1>12, <3>1 DEF Range
  <2>2. PICK e \in 1 .. l : f[x] \in Range(mine[e])
    BY <1>3, <2>1
  <2>3. Mapped(S.eind[e], f) = mine[e] /\ S.eind[e] \in Seq(0 .. c - 1)
    BY <1>14
  <2>4. PICK j \in DOMAIN S.eind[e] : f[S.eind[e][j]] = f[x]
    BY <2>2, <2>3 DEF Mapped, Range
  <2>5. S.eind[e][j] \in 0 .. c - 1
    BY <2>3, <2>4, LenProperties
  <2>6. S.eind[e][j] = x
    BY <1>10, <1>11, <2>4, <2>5 DEF IsInjective
  <2> QED
    BY <2>4, <2>6 DEF Range
<1>18. S.n = c
  BY <1>2
<1>19. Spanned(S)
  BY <1>7, <1>15, <1>16, <1>17, <1>18 DEF Spanned
<1>20. IsSon(G, S, p, k)
  BY <1>10, <1>11, <1>12, <1>14, <1>15, <1>18 DEF IsSon, V, n, eind, edges, mine, l
<1> QED
  BY <1>19, <1>20 DEF S

-----------------------------------------------------------------------------
(***************************************************************************)
(* The tree of graphs.                                                     *)
(***************************************************************************)

\* A graph without sons.
Ends(t, i) == t[i].leftSon = 0 /\ t[i].rightSon = 0

\* A graph with sons: they come later, and createSubGraph made them of its two parts.
Forks(t, i) ==
  LET left == t[i].leftSon  right == t[i].rightSon
  IN  /\ left \in i + 1 .. Len(t) /\ right \in i + 1 .. Len(t)
      /\ left # right /\ t[left].fatherGraph = i /\ t[right].fatherGraph = i
      /\ \E p \in [0 .. Core(t[i]).n - 1 -> {0, 1}] :
           /\ IsSon(Core(t[i]), Core(t[left]), p, 0)
           /\ IsSon(Core(t[i]), Core(t[right]), p, 1)

\* A graph that was made by a split: it comes after its father, who knows it.
Hangs(t, i) ==
  /\ t[i].fatherGraph \in 1 .. i - 1
  /\ i \in {t[t[i].fatherGraph].leftSon, t[t[i].fatherGraph].rightSon}

\* pHyper: no father, and no edge without a vertex.
Rooted(t) ==
  /\ t[1].fatherGraph = 0
  /\ \A e \in 1 .. Len(Core(t[1]).eind) : Core(t[1]).eind[e] # <<>>

\* The graphs made so far are a tree that createSubGraph has made.
Shaped(t) ==
  /\ t \in Seq(Hypergraphs) /\ Len(t) >= 1
  /\ Rooted(t)
  /\ \A i \in 2 .. Len(t) : Hangs(t, i)
  /\ \A i \in 1 .. Len(t) : Spanned(Core(t[i])) /\ (Ends(t, i) \/ Forks(t, i))

\* u is t with two sons for graph gi.
Grown(t, u, gi, left, right) ==
  /\ u \in Seq(Hypergraphs) /\ Len(u) = Len(t) + 2
  /\ u[Len(t) + 1] = left /\ u[Len(t) + 2] = right
  /\ \A i \in 1 .. Len(t) :
       /\ Core(u[i]) = Core(t[i])
       /\ u[i].fatherGraph = t[i].fatherGraph
       /\ i # gi => u[i].leftSon = t[i].leftSon /\ u[i].rightSon = t[i].rightSon
  /\ u[gi].leftSon = Len(t) + 1 /\ u[gi].rightSon = Len(t) + 2

\* What doHmetis does to the tree when it has the sons.
LEMMA TreeGrows ==
  ASSUME NEW t \in Seq(Hypergraphs), NEW gi \in 1 .. Len(t),
         NEW left \in Hypergraphs, NEW right \in Hypergraphs
  PROVE  Grown(t, [t EXCEPT ![gi].leftSon = Len(t) + 1, ![gi].rightSon = Len(t) + 2] \o <<left, right>>,
               gi, left, right)
<1> DEFINE n == Len(t)
           H == Hypergraphs
           G == [t[gi] EXCEPT !.leftSon = n + 1, !.rightSon = n + 2]
           s == [t EXCEPT ![gi].leftSon = n + 1, ![gi].rightSon = n + 2]
           two == <<left, right>>
           u == s \o two
<1>1. n \in Nat /\ t \in [1 .. n -> H] /\ DOMAIN t = 1 .. n
  BY LenProperties
<1> HIDE DEF n
<1>2. t[gi] \in H
  BY <1>1 DEF n
<1>3. /\ G \in H /\ Core(G) = Core(t[gi]) /\ G.fatherGraph = t[gi].fatherGraph
      /\ G.leftSon = n + 1 /\ G.rightSon = n + 2
  <2>1. n + 1 \in Nat /\ n + 2 \in Nat
    BY <1>1
  <2>2. G \in H
    BY <1>2, <2>1 DEF Hypergraphs
  <2>3. /\ G.n = t[gi].n /\ G.eind = t[gi].eind /\ G.w = t[gi].w
        /\ G.mapForFather = t[gi].mapForFather /\ G.fatherGraph = t[gi].fatherGraph
        /\ G.leftSon = n + 1 /\ G.rightSon = n + 2
    BY <1>2 DEF Hypergraphs
  <2> HIDE DEF G
  <2> QED
    BY <2>2, <2>3 DEF Core
<1>4. s = [i \in 1 .. n |-> IF i = gi THEN G ELSE t[i]]
  BY <1>1, <1>2
<1> HIDE DEF G, s, H
<1>5. s \in [1 .. n -> H]
  BY <1>1, <1>3, <1>4
<1>6. s \in Seq(H) /\ Len(s) = n
  BY <1>1, <1>5, LenIs
<1>7. two \in Seq(H) /\ Len(two) = 2 /\ two[1] = left /\ two[2] = right
  <2>1. left \in H /\ right \in H
    BY DEF H
  <2> QED
    BY <2>1
<1> HIDE DEF two
<1>8. /\ u \in Seq(H) /\ Len(u) = n + 2
      /\ \A i \in 1 .. n + 2 : u[i] = IF i <= n THEN s[i] ELSE two[i - n]
  <2>1. /\ u \in Seq(H) /\ Len(u) = Len(s) + Len(two)
        /\ \A i \in 1 .. Len(s) + Len(two) : u[i] = IF i <= Len(s) THEN s[i] ELSE two[i - Len(s)]
    BY <1>6, <1>7, ConcatProperties
  <2> HIDE DEF u
  <2> QED
    BY <1>6, <1>7, <2>1
<1> HIDE DEF u
<1>9. u[n + 1] = left /\ u[n + 2] = right
  <2>1. n + 1 \in 1 .. n + 2 /\ n + 2 \in 1 .. n + 2 /\ ~ n + 1 <= n /\ ~ n + 2 <= n
        /\ (n + 1) - n = 1 /\ (n + 2) - n = 2
    BY <1>1
  <2>2. u[n + 1] = two[(n + 1) - n] /\ u[n + 2] = two[(n + 2) - n]
    BY <1>8, <2>1
  <2> QED
    BY <1>7, <2>1, <2>2
<1>10. ASSUME NEW i \in 1 .. n PROVE u[i] = IF i = gi THEN G ELSE t[i]
  <2>1. i \in 1 .. n + 2 /\ i <= n
    BY <1>1
  <2> QED
    BY <1>4, <1>8, <2>1
<1>11. gi \in 1 .. n
  BY DEF n
<1>12. Grown(t, u, gi, left, right)
  <2>1. u[gi] = G
    BY <1>10, <1>11
  <2>2. \A i \in 1 .. n :
       /\ Core(u[i]) = Core(t[i])
       /\ u[i].fatherGraph = t[i].fatherGraph
       /\ i # gi => u[i].leftSon = t[i].leftSon /\ u[i].rightSon = t[i].rightSon
    BY <1>3, <1>10
  <2> QED
    BY <1>3, <1>8, <1>9, <2>1, <2>2 DEF Grown, n, H
<1> QED
  BY <1>12 DEF u, s, two, n

\* A graph made by Node is a CHypergraph without sons.
LEMMA NodeIs ==
  ASSUME NEW n \in Nat, NEW eind \in Seq(Seq(0 .. n - 1)), NEW w \in Seq(Nat), NEW f \in Nat,
         NEW map \in FatherMaps
  PROVE  LET G == Node(n, eind, w, f, map)
         IN  /\ G \in Hypergraphs
             /\ G.n = n /\ G.eind = eind /\ G.w = w /\ G.mapForFather = map
             /\ G.leftSon = 0 /\ G.rightSon = 0 /\ G.fatherGraph = f
<1>1. eind \in Seq(Seq(Nat))
  <2>1. 0 .. n - 1 \subseteq Nat
    OBVIOUS
  <2> DEFINE X == 0 .. n - 1
  <2> HIDE DEF X
  <2>2. X \subseteq Nat /\ eind \in Seq(Seq(X))
    BY <2>1 DEF X
  <2>3. Seq(X) \subseteq Seq(Nat)
    BY <2>2, SeqMonotonic
  <2> QED
    BY <2>2, <2>3, SeqMonotonic
<1> QED
  BY <1>1 DEF Node, Hypergraphs

\* S is a graph without sons, made of part k of G, which is graph gi.
NewSon(G, gi, p, k, S) ==
  /\ S \in Hypergraphs /\ S.leftSon = 0 /\ S.rightSon = 0 /\ S.fatherGraph = gi
  /\ Spanned(Core(S)) /\ IsSon(Core(G), Core(S), p, k)

\* createSubGraph returns such a graph.
LEMMA SonIs ==
  ASSUME NEW G \in Hypergraphs, Spanned(Core(G)), NEW p \in [0 .. G.n - 1 -> {0, 1}], NEW k,
         NEW gi \in Nat
  PROVE  NewSon(G, gi, p, k, createSubGraph(G, gi, p, k))
<1> DEFINE S == createSubGraph(G, gi, p, k)
<1>1. Spanned(G)
  BY DEF Spanned, Core
<1>2. Spanned(S) /\ IsSon(G, S, p, k)
  BY <1>1, SonMade
<1>3. S = Node(S.n, S.eind, S.w, gi, S.mapForFather)
  BY DEF createSubGraph, Node
<1> HIDE DEF S
<1>5. S.n \in Nat /\ S.eind \in Seq(Seq(0 .. S.n - 1)) /\ S.w \in Seq(Nat)
  BY <1>2 DEF Spanned
<1>6. S.mapForFather \in FatherMaps
  <2>1. S.mapForFather \in [0 .. S.n - 1 -> Nat]
    <3>1. S.mapForFather \in [0 .. S.n - 1 -> 0 .. G.n - 1]
      BY <1>2 DEF IsSon
    <3>2. 0 .. G.n - 1 \subseteq Nat
      OBVIOUS
    <3> QED
      BY <3>1, <3>2
  <2> QED
    BY <1>5, <2>1 DEF FatherMaps
<1>7. S \in Hypergraphs /\ S.leftSon = 0 /\ S.rightSon = 0 /\ S.fatherGraph = gi
  <2> DEFINE nn == S.n
             ee == S.eind
             ww == S.w
             ff == S.mapForFather
             N == Node(nn, ee, ww, gi, ff)
  <2>1. nn \in Nat /\ ee \in Seq(Seq(0 .. nn - 1)) /\ ww \in Seq(Nat) /\ ff \in FatherMaps
    BY <1>5, <1>6
  <2>2. S = N
    BY <1>3
  <2> HIDE DEF nn, ee, ww, ff
  <2>3. N \in Hypergraphs /\ N.leftSon = 0 /\ N.rightSon = 0 /\ N.fatherGraph = gi
    BY <2>1, NodeIs
  <2> HIDE DEF N
  <2> QED
    BY <2>2, <2>3
<1>8. Spanned(Core(S))
  BY <1>2 DEF Spanned, Core
<1>9. IsSon(Core(G), Core(S), p, k)
  BY <1>2 DEF IsSon, Core, SonWeight
<1> QED
  BY <1>7, <1>8, <1>9 DEF NewSon, S

\* The tree of pHyper alone.
LEMMA ShapedRoot ==
  ASSUME NEW r \in Roots
  PROVE  LET t == <<Node(r.n, r.eind, r.w, 0, <<>>)>>
         IN  Shaped(t) /\ Ends(t, 1) /\ Len(t) = 1
<1> DEFINE G == Node(r.n, r.eind, r.w, 0, <<>>)
           t == <<G>>
           n == r.n
           eind == r.eind
<1>1. IsRoot(r)
  BY RootsAssumption
<1>2. n \in Nat /\ eind \in Seq(Seq(0 .. n - 1)) /\ r.w = [e \in DOMAIN eind |-> 1]
  BY <1>1 DEF IsRoot
<1>3. \A e \in DOMAIN eind : Len(eind[e]) > 1
  BY <1>1 DEF IsRoot
<1>4. UNION {{eind[e][j] : j \in DOMAIN eind[e]} : e \in DOMAIN eind} = 0 .. n - 1
  BY <1>1 DEF IsRoot
<1>5. Len(eind) \in Nat /\ DOMAIN eind = 1 .. Len(eind)
  BY <1>2, LenProperties
<1>6. r.w \in Seq(Nat) /\ Len(r.w) = Len(eind)
  <2>1. r.w \in [1 .. Len(eind) -> Nat]
    BY <1>2, <1>5
  <2> QED
    BY <1>5, <2>1, LenIs
<1>7. <<>> \in FatherMaps
  BY DEF FatherMaps
<1>8. /\ G \in Hypergraphs
      /\ G.n = n /\ G.eind = eind /\ G.w = r.w
      /\ G.leftSon = 0 /\ G.rightSon = 0 /\ G.fatherGraph = 0
  <2> DEFINE w == r.w
             map == <<>>
             N == Node(n, eind, w, 0, map)
  <2>1. n \in Nat /\ eind \in Seq(Seq(0 .. n - 1)) /\ w \in Seq(Nat) /\ map \in FatherMaps
        /\ 0 \in Nat
    BY <1>2, <1>6, <1>7
  <2>2. N = G
    OBVIOUS
  <2> HIDE DEF n, eind, w, map
  <2>3. /\ N \in Hypergraphs
        /\ N.n = n /\ N.eind = eind /\ N.w = w
        /\ N.leftSon = 0 /\ N.rightSon = 0 /\ N.fatherGraph = 0
    BY <2>1, NodeIs
  <2> HIDE DEF N, G
  <2> QED
    BY <2>2, <2>3 DEF w
<1> HIDE DEF G, n, eind
<1>9. t \in Seq(Hypergraphs) /\ Len(t) = 1 /\ t[1] = G
  BY <1>8
<1> HIDE DEF t
<1>10. Spanned(Core(G))
  <2>1. \A v \in 0 .. n - 1 : \E e \in 1 .. Len(eind) : v \in Range(eind[e])
    BY <1>4, <1>5 DEF Range
  <2> QED
    BY <1>2, <1>6, <1>8, <2>1 DEF Spanned, Core
<1>11. Rooted(t)
  <2>1. \A e \in 1 .. Len(eind) : eind[e] # <<>>
    <3> SUFFICES ASSUME NEW e \in 1 .. Len(eind), eind[e] = <<>> PROVE FALSE
      OBVIOUS
    <3>1. Len(eind[e]) > 1
      BY <1>3, <1>5
    <3>2. Len(<<>>) = 0
      BY EmptySeq
    <3> QED
      BY <3>1, <3>2
  <2> QED
    BY <1>8, <1>9, <2>1 DEF Rooted, Core
<1>12. Ends(t, 1)
  BY <1>8, <1>9 DEF Ends
<1>13. Shaped(t)
  <2>1. 2 .. Len(t) = {} /\ 1 .. Len(t) = {1}
    BY <1>9
  <2> QED
    BY <1>9, <1>10, <1>11, <1>12, <2>1 DEF Shaped
<1> QED
  BY <1>8, <1>9, <1>12, <1>13 DEF t, G

\* The two sons of a leaf make the tree a larger one of the same kind.
LEMMA ShapedGrows ==
  ASSUME NEW t, Shaped(t), NEW gi \in 1 .. Len(t), Ends(t, gi),
         NEW p \in [0 .. t[gi].n - 1 -> {0, 1}], NEW u,
         Grown(t, u, gi, createSubGraph(t[gi], gi, p, 0), createSubGraph(t[gi], gi, p, 1))
  PROVE  Shaped(u)
<1> DEFINE n == Len(t)
           L == createSubGraph(t[gi], gi, p, 0)
           R == createSubGraph(t[gi], gi, p, 1)
           a == n + 1
           b == n + 2
<1>1. t \in Seq(Hypergraphs) /\ n \in Nat /\ n >= 1 /\ t \in [1 .. n -> Hypergraphs]
  BY LenProperties DEF Shaped
<1> HIDE DEF n
<1>2. t[gi] \in Hypergraphs /\ Spanned(Core(t[gi])) /\ gi \in Nat /\ gi \in 1 .. n
  BY <1>1 DEF Shaped, n
<1>3. /\ L \in Hypergraphs /\ L.leftSon = 0 /\ L.rightSon = 0 /\ L.fatherGraph = gi
      /\ Spanned(Core(L)) /\ IsSon(Core(t[gi]), Core(L), p, 0)
  <2>1. NewSon(t[gi], gi, p, 0, L)
    BY <1>2, SonIs
  <2> HIDE DEF L
  <2> QED
    BY <2>1 DEF NewSon
<1>4. /\ R \in Hypergraphs /\ R.leftSon = 0 /\ R.rightSon = 0 /\ R.fatherGraph = gi
      /\ Spanned(Core(R)) /\ IsSon(Core(t[gi]), Core(R), p, 1)
  <2>1. NewSon(t[gi], gi, p, 1, R)
    BY <1>2, SonIs
  <2> HIDE DEF R
  <2> QED
    BY <2>1 DEF NewSon
<1> HIDE DEF L, R
<1>5. /\ u \in Seq(Hypergraphs) /\ Len(u) = n + 2 /\ u[a] = L /\ u[b] = R
      /\ u[gi].leftSon = a /\ u[gi].rightSon = b
  BY DEF Grown, n, L, R
<1>6. ASSUME NEW i \in 1 .. n
      PROVE  /\ Core(u[i]) = Core(t[i])
             /\ u[i].fatherGraph = t[i].fatherGraph
             /\ i # gi => u[i].leftSon = t[i].leftSon /\ u[i].rightSon = t[i].rightSon
  BY DEF Grown, n
<1>7. a \in Nat /\ b \in Nat /\ a \notin 1 .. n /\ b \notin 1 .. n
      /\ \A i \in 1 .. n + 2 : i \in 1 .. n \/ i = a \/ i = b
  BY <1>1
<1> HIDE DEF a, b
<1>8. Rooted(u)
  <2>1. 1 \in 1 .. n
    BY <1>1
  <2>2. Core(u[1]) = Core(t[1]) /\ u[1].fatherGraph = t[1].fatherGraph
    BY <1>6, <2>1
  <2> QED
    BY <2>2 DEF Shaped, Rooted
<1>9. ASSUME NEW i \in 2 .. n + 2 PROVE Hangs(u, i)
  <2>1. CASE i \in 1 .. n
    <3> DEFINE f == t[i].fatherGraph
    <3>1. Hangs(t, i)
      BY <2>1 DEF Shaped, n
    <3>2. f \in 1 .. i - 1 /\ f \in 1 .. n /\ i \in {t[f].leftSon, t[f].rightSon}
      BY <1>1, <2>1, <3>1 DEF Hangs
    <3>3. f # gi
      <4> SUFFICES ASSUME f = gi PROVE FALSE
        OBVIOUS
      <4>1. i = 0
        BY <3>2 DEF Ends
      <4> QED
        BY <4>1
    <3>4. u[i].fatherGraph = f /\ u[f].leftSon = t[f].leftSon /\ u[f].rightSon = t[f].rightSon
      BY <1>6, <2>1, <3>2, <3>3
    <3> HIDE DEF f
    <3> QED
      BY <3>2, <3>4 DEF Hangs
  <2>2. CASE i = a \/ i = b
    <3>1. u[i].fatherGraph = gi
      BY <1>3, <1>4, <1>5, <2>2
    <3>2. gi \in 1 .. i - 1
      BY <1>1, <1>2, <2>2 DEF a, b
    <3>3. i \in {u[gi].leftSon, u[gi].rightSon}
      BY <1>5, <2>2
    <3> QED
      BY <3>1, <3>2, <3>3 DEF Hangs
  <2> QED
    BY <1>7, <2>1, <2>2
<1>10. ASSUME NEW i \in 1 .. n + 2 PROVE Spanned(Core(u[i]))
  <2>1. CASE i \in 1 .. n
    BY <1>6, <2>1 DEF Shaped, n
  <2> QED
    BY <1>3, <1>4, <1>5, <1>7, <2>1
<1>11. ASSUME NEW i \in 1 .. n + 2 PROVE Ends(u, i) \/ Forks(u, i)
  <2>1. CASE i = a \/ i = b
    BY <1>3, <1>4, <1>5, <2>1 DEF Ends
  <2>2. CASE i = gi
    <3>1. Core(u[i]) = Core(t[gi])
      BY <1>2, <1>6, <2>2
    <3>2. a \in i + 1 .. Len(u) /\ b \in i + 1 .. Len(u) /\ a # b
      BY <1>1, <1>2, <1>5, <2>2 DEF a, b
    <3>3. u[a].fatherGraph = i /\ u[b].fatherGraph = i
      BY <1>3, <1>4, <1>5, <2>2
    <3>4. p \in [0 .. Core(u[i]).n - 1 -> {0, 1}]
      BY <3>1 DEF Core
    <3>5. IsSon(Core(u[i]), Core(u[a]), p, 0) /\ IsSon(Core(u[i]), Core(u[b]), p, 1)
      BY <1>3, <1>4, <1>5, <3>1
    <3>6. u[i].leftSon = a /\ u[i].rightSon = b
      BY <1>5, <2>2
    <3> QED
      BY <3>2, <3>3, <3>4, <3>5, <3>6 DEF Forks
  <2>3. CASE i \in 1 .. n /\ i # gi
    <3>1. /\ Core(u[i]) = Core(t[i])
          /\ u[i].leftSon = t[i].leftSon /\ u[i].rightSon = t[i].rightSon
      BY <1>6, <2>3
    <3>2. Ends(t, i) \/ Forks(t, i)
      BY <2>3 DEF Shaped, n
    <3>3. CASE Ends(t, i)
      BY <3>1, <3>3 DEF Ends
    <3>4. CASE Forks(t, i)
      <4> DEFINE l == t[i].leftSon
                 r == t[i].rightSon
      <4>1. /\ l \in i + 1 .. n /\ r \in i + 1 .. n
            /\ l # r /\ t[l].fatherGraph = i /\ t[r].fatherGraph = i
        BY <3>4 DEF Forks, n
      <4>2. PICK q \in [0 .. Core(t[i]).n - 1 -> {0, 1}] :
              IsSon(Core(t[i]), Core(t[l]), q, 0) /\ IsSon(Core(t[i]), Core(t[r]), q, 1)
        BY <3>4 DEF Forks
      <4>3. u[i].leftSon = l /\ u[i].rightSon = r
        BY <3>1
      <4> HIDE DEF l, r
      <4>4. l \in 1 .. n /\ r \in 1 .. n /\ l \in i + 1 .. Len(u) /\ r \in i + 1 .. Len(u)
        BY <1>1, <1>5, <4>1
      <4>5. /\ Core(u[l]) = Core(t[l]) /\ Core(u[r]) = Core(t[r])
            /\ u[l].fatherGraph = i /\ u[r].fatherGraph = i
        BY <1>6, <4>1, <4>4
      <4>6. IsSon(Core(u[i]), Core(u[l]), q, 0) /\ IsSon(Core(u[i]), Core(u[r]), q, 1)
        BY <3>1, <4>2, <4>5
      <4>7. q \in [0 .. Core(u[i]).n - 1 -> {0, 1}]
        BY <3>1, <4>2
      <4> QED
        BY <4>1, <4>3, <4>4, <4>5, <4>6, <4>7 DEF Forks
    <3> QED
      BY <3>2, <3>3, <3>4
  <2> QED
    BY <1>7, <2>1, <2>2, <2>3
<1>12. Len(u) >= 1
  BY <1>1, <1>5
<1> QED
  BY <1>5, <1>8, <1>9, <1>10, <1>11, <1>12 DEF Shaped

-----------------------------------------------------------------------------
(***************************************************************************)
(* The vertices of pHyper that a graph stands for.                         *)
(***************************************************************************)

\* Graph i is the son of its father for part k of p.
SonBy(t, i, p, k) == IsSon(Core(t[t[i].fatherGraph]), Core(t[i]), p, k)

\* What the tree says of a graph made by a split.
LEMMA SonOf ==
  ASSUME NEW t, Shaped(t), NEW i \in 2 .. Len(t)
  PROVE  LET f == t[i].fatherGraph
         IN  /\ f \in 1 .. i - 1 /\ f \in 1 .. Len(t) /\ Forks(t, f)
             /\ \E p \in [0 .. t[f].n - 1 -> {0, 1}], k \in {0, 1} : SonBy(t, i, p, k)
<1> DEFINE f == t[i].fatherGraph
<1>1. Len(t) \in Nat
  BY LenProperties DEF Shaped
<1>2. f \in 1 .. i - 1 /\ i \in {t[f].leftSon, t[f].rightSon}
  BY DEF Shaped, Hangs
<1>3. f \in 1 .. Len(t)
  BY <1>1, <1>2
<1>4. i # 0
  BY <1>1
<1>5. Forks(t, f)
  BY <1>2, <1>3, <1>4 DEF Shaped, Ends
<1> HIDE DEF f
<1>6. PICK p \in [0 .. Core(t[f]).n - 1 -> {0, 1}] :
        /\ IsSon(Core(t[f]), Core(t[t[f].leftSon]), p, 0)
        /\ IsSon(Core(t[f]), Core(t[t[f].rightSon]), p, 1)
  BY <1>5 DEF Forks
<1>7. \E k \in {0, 1} : IsSon(Core(t[f]), Core(t[i]), p, k)
  BY <1>2, <1>6
<1>8. p \in [0 .. t[f].n - 1 -> {0, 1}]
  BY <1>6 DEF Core
<1> QED
  BY <1>2, <1>3, <1>5, <1>7, <1>8 DEF f, SonBy

\* One step up: a vertex of graph i, by the vertices of its father.
Above(t, F, i) ==
  [x \in 0 .. t[i].n - 1 |->
     IF t[i].fatherGraph = 0 THEN x ELSE F[t[i].fatherGraph][t[i].mapForFather[x]]]

\* Going up keeps to the graphs' vertices.
LEMMA AboveType ==
  ASSUME NEW t, Shaped(t), NEW F, NEW i \in 1 .. Len(t),
         \A j \in 1 .. Len(t) : j < i => F[j] \in [0 .. t[j].n - 1 -> Nat]
  PROVE  Above(t, F, i) \in [0 .. t[i].n - 1 -> Nat]
<1>1. Len(t) \in Nat
  BY LenProperties DEF Shaped
<1>2. CASE i = 1
  BY <1>2 DEF Above, Shaped, Rooted
<1>3. CASE i # 1
  <2> DEFINE f == t[i].fatherGraph
  <2>1. i \in 2 .. Len(t)
    BY <1>1, <1>3
  <2>2. f \in 1 .. i - 1 /\ f \in 1 .. Len(t)
    BY <2>1, SonOf
  <2>3. PICK p, k : SonBy(t, i, p, k)
    BY <2>1, SonOf
  <2>4. t[i].mapForFather \in [0 .. t[i].n - 1 -> 0 .. t[f].n - 1]
    BY <2>3 DEF SonBy, IsSon, Core
  <2>5. F[f] \in [0 .. t[f].n - 1 -> Nat]
    BY <1>1, <2>2
  <2>6. f # 0
    BY <2>2
  <2>7. Above(t, F, i) = [x \in 0 .. t[i].n - 1 |-> F[f][t[i].mapForFather[x]]]
    BY <2>6 DEF Above
  <2> HIDE DEF f
  <2> QED
    BY <2>4, <2>5, <2>7
<1> QED
  BY <1>2, <1>3

\* The recursion that defines Lift.
LEMMA LiftIs ==
  ASSUME NEW t, Shaped(t)
  PROVE  \A i \in 1 .. Len(t) : /\ Lift(t)[i] \in [0 .. t[i].n - 1 -> Nat]
                                /\ Lift(t)[i] = Above(t, Lift(t), i)
<1> DEFINE n == Len(t)
           D == 1 .. n
           r == [i \in D |-> i]
           Q == [i \in D |-> [0 .. t[i].n - 1 -> Nat]]
           d == [s \in Picks(D, Q) \X D |-> Above(t, s[1], s[2])]
<1>1. n \in Nat
  BY LenProperties DEF Shaped
<1>2. r \in [D -> 1 .. n] /\ \A i \in D : r[i] = i
  OBVIOUS
<1>3. \A f \in Picks(D, Q), i \in D : d[<<f, i>>] = Above(t, f, i)
  <2> HIDE DEF Q, D
  <2> QED
    OBVIOUS
<1>4. \A i \in D : Q[i] = [0 .. t[i].n - 1 -> Nat]
  OBVIOUS
<1>5. \A i \in D : Q[i] # {}
  <2> SUFFICES ASSUME NEW i \in D PROVE Q[i] # {}
    OBVIOUS
  <2>1. [x \in 0 .. t[i].n - 1 |-> 0] \in [0 .. t[i].n - 1 -> Nat]
    OBVIOUS
  <2> QED
    BY <1>4, <2>1
<1> HIDE DEF Q, r, d
<1>6. ASSUME NEW f \in Picks(D, Q), NEW i \in D
      PROVE  d[<<f, i>>] \in Q[i]
  <2>1. \A j \in D : f[j] \in [0 .. t[j].n - 1 -> Nat]
    BY <1>4 DEF Picks
  <2>2. Above(t, f, i) \in [0 .. t[i].n - 1 -> Nat]
    BY <2>1, AboveType
  <2> QED
    BY <1>3, <1>4, <2>2
<1>7. ASSUME NEW f \in Picks(D, Q), NEW h \in Picks(D, Q), NEW i \in D,
             \A j \in D : r[j] < r[i] => f[j] = h[j]
      PROVE  d[<<f, i>>] = d[<<h, i>>]
  <2>1. CASE t[i].fatherGraph = 0
    <3>1. Above(t, f, i) = Above(t, h, i)
      BY <2>1 DEF Above
    <3> QED
      BY <1>3, <3>1
  <2>2. CASE t[i].fatherGraph # 0
    <3>1. i \in 2 .. n
      BY <1>1, <2>2 DEF Shaped, Rooted
    <3>2. t[i].fatherGraph \in 1 .. i - 1 /\ t[i].fatherGraph \in D
      BY <3>1, SonOf
    <3>3. r[t[i].fatherGraph] < r[i]
      BY <1>1, <1>2, <3>2
    <3>4. f[t[i].fatherGraph] = h[t[i].fatherGraph]
      BY <1>7, <3>2, <3>3
    <3>5. Above(t, f, i) = Above(t, h, i)
      BY <3>4 DEF Above
    <3> QED
      BY <1>3, <3>5
  <2> QED
    BY <2>1, <2>2
<1>8. PICK f \in Picks(D, Q) : \A i \in D : f[i] = d[<<f, i>>]
  <2>1. Recurses(D, r, Q, d)
    BY <1>5, <1>6, <1>7 DEF Recurses
  <2>2. n \in Nat /\ r \in [D -> 1 .. n]
    BY <1>1, <1>2
  <2> HIDE DEF D, n
  <2>3. \E f \in Picks(D, Q) : \A x \in D : f[x] = d[<<f, x>>]
    BY <2>1, <2>2, RecursionExists
  <2> QED
    BY <2>3
<1>9. f = [i \in D |-> Above(t, f, i)]
  <2>1. f = [i \in D |-> f[i]]
    BY DEF Picks
  <2>2. \A i \in D : f[i] = Above(t, f, i)
    BY <1>3, <1>8
  <2> HIDE DEF D
  <2> QED
    BY <2>1, <2>2
<1> DEFINE F == Lift(t)
<1>10. F = [i \in D |-> Above(t, F, i)]
  <2>1. F = CHOOSE u : u = [i \in D |-> Above(t, u, i)]
    BY DEF Lift, Above
  <2> HIDE DEF F, D
  <2> QED
    BY <1>9, <2>1, Zenon
<1> HIDE DEF F
<1>11. \A i \in D : F[i] = Above(t, F, i)
  BY <1>10
<1>12. \A i \in D : F[i] \in [0 .. t[i].n - 1 -> Nat]
  <2> DEFINE P == {i \in D : F[i] \in [0 .. t[i].n - 1 -> Nat]}
  <2>1. ASSUME NEW i \in D, \A j \in D : r[j] < r[i] => j \in P
        PROVE  i \in P
    <3>1. \A j \in D : j < i => F[j] \in [0 .. t[j].n - 1 -> Nat]
      BY <1>2, <2>1
    <3>2. Above(t, F, i) \in [0 .. t[i].n - 1 -> Nat]
      BY <3>1, AboveType
    <3> QED
      BY <1>11, <3>2
  <2>2. \A i \in D : i \in P
    <3> HIDE DEF P, D, n
    <3> QED
      BY <1>1, <1>2, <2>1, RankInduction
  <2> QED
    BY <2>2
<1> QED
  BY <1>11, <1>12 DEF F

\* A numbering of n values takes on n values.
LEMMA RangeCardinality ==
  ASSUME NEW n \in Nat, NEW Y, NEW f \in [0 .. n - 1 -> Y], IsInjective(f)
  PROVE  IsFiniteSet(Range(f)) /\ Cardinality(Range(f)) = n
<1> DEFINE S == Range(f)
           D == 0 .. n - 1
<1>1. f \in [D -> S] /\ (\A y \in S : \E x \in D : f[x] = y) /\ \A a, b \in D : f[a] = f[b] => a = b
  BY DEF Range, IsInjective
<1>2. IsFiniteSet(D) /\ Cardinality(D) = n
  <2>1. 0 \in Int /\ n - 1 \in Int
    OBVIOUS
  <2>2. IsFiniteSet(D) /\ Cardinality(D) = IF 0 > n - 1 THEN 0 ELSE (n - 1) - 0 + 1
    BY <2>1, FS_Interval
  <2> QED
    BY <2>2
<1> HIDE DEF S, D
<1>3. f \in Bijection(D, S)
  BY <1>1 DEF Bijection, Injection, Surjection, IsInjective
<1>4. ExistsBijection(D, S)
  BY <1>3 DEF ExistsBijection
<1> QED
  BY <1>2, <1>4, FS_Bijection DEF S

\* The images of the elements of V.
Through(f, V) == {f[v] : v \in V}

\* A vertex of graph i stands for what its vertex in graph f stands for.
LiftsOver(t, i, f) ==
  \A x \in 0 .. t[i].n - 1 : Lift(t)[i][x] = Lift(t)[f][t[i].mapForFather[x]]

\* A vertex of a son stands for what its vertex in the father stands for.
LEMMA SonLift ==
  ASSUME NEW t, Shaped(t), NEW i \in 2 .. Len(t), NEW p, NEW k, SonBy(t, i, p, k)
  PROVE  LET f == t[i].fatherGraph
         IN  /\ LiftsOver(t, i, f)
             /\ Under(t, i) = Through(Lift(t)[f], Side(t[f].n, p, k))
<1> DEFINE f == t[i].fatherGraph
           F == Lift(t)
           m == t[i].mapForFather
<1>1. f \in 1 .. i - 1 /\ f \in 1 .. Len(t)
  BY SonOf
<1>2. i \in 1 .. Len(t) /\ f # 0
  BY <1>1
<1>3. F[i] \in [0 .. t[i].n - 1 -> Nat] /\ F[i] = Above(t, F, i)
  BY <1>2, LiftIs
<1> HIDE DEF F
<1>4. \A x \in 0 .. t[i].n - 1 : F[i][x] = F[f][m[x]]
  BY <1>2, <1>3 DEF Above
<1>5. DOMAIN m = 0 .. t[i].n - 1 /\ Range(m) = Side(t[f].n, p, k)
  BY DEF SonBy, IsSon, Core
<1>6. DOMAIN F[i] = 0 .. t[i].n - 1
  BY <1>3
<1>7. Range(F[i]) = {F[f][v] : v \in Range(m)}
  BY <1>4, <1>5, <1>6 DEF Range
<1> QED
  BY <1>4, <1>5, <1>7 DEF F, Under, Through, LiftsOver

\* The vertices a graph of the tree stands for: no two for one, and vertices of pHyper.
LEMMA LiftInjective ==
  ASSUME NEW t, Shaped(t)
  PROVE  \A i \in 1 .. Len(t) : IsInjective(Lift(t)[i]) /\ Under(t, i) \subseteq 0 .. t[1].n - 1
<1> DEFINE n == Len(t)
           D == 1 .. n
           F == Lift(t)
           r == [i \in D |-> i]
           P == {i \in D : IsInjective(F[i]) /\ Under(t, i) \subseteq 0 .. t[1].n - 1}
<1>1. n \in Nat
  BY LenProperties DEF Shaped
<1>2. r \in [D -> 1 .. n] /\ \A i \in D : r[i] = i
  OBVIOUS
<1> HIDE DEF r
<1>3. \A i \in D : F[i] \in [0 .. t[i].n - 1 -> Nat] /\ F[i] = Above(t, F, i)
  BY LiftIs
<1>4. \A i : Under(t, i) = Range(F[i])
  BY DEF Under
<1> HIDE DEF F
<1>5. ASSUME NEW i \in D, \A j \in D : r[j] < r[i] => j \in P
      PROVE  i \in P
  <2>1. CASE i = 1
    <3>1. t[1].fatherGraph = 0
      BY DEF Shaped, Rooted
    <3>2. \A x \in 0 .. t[1].n - 1 : F[1][x] = x
      <4>1. F[1] = Above(t, F, 1)
        BY <1>3, <2>1
      <4>2. Above(t, F, 1) = [x \in 0 .. t[1].n - 1 |-> x]
        BY <3>1 DEF Above
      <4> QED
        BY <4>1, <4>2
    <3>3. DOMAIN F[1] = 0 .. t[1].n - 1
      BY <1>3, <2>1
    <3>4. IsInjective(F[1]) /\ Range(F[1]) \subseteq 0 .. t[1].n - 1
      BY <3>2, <3>3 DEF IsInjective, Range
    <3> QED
      BY <1>4, <2>1, <3>4
  <2>2. CASE i # 1
    <3> DEFINE f == t[i].fatherGraph
               m == t[i].mapForFather
    <3>1. i \in 2 .. n
      BY <1>1, <2>2
    <3>2. f \in 1 .. i - 1 /\ f \in D
      BY <3>1, SonOf
    <3>3. PICK p, k : SonBy(t, i, p, k)
      BY <3>1, SonOf
    <3>5. \A x \in 0 .. t[i].n - 1 : F[i][x] = F[f][m[x]]
      <4>1. LiftsOver(t, i, f)
        BY <3>1, <3>3, SonLift
      <4> QED
        BY <4>1 DEF LiftsOver, F
    <3>6. f \in P
      BY <1>1, <1>2, <1>5, <3>2
    <3>7. m \in [0 .. t[i].n - 1 -> 0 .. t[f].n - 1] /\ IsInjective(m)
      BY <3>3 DEF SonBy, IsSon, Core
    <3> HIDE DEF f, m
    <3>8. DOMAIN F[f] = 0 .. t[f].n - 1 /\ DOMAIN F[i] = 0 .. t[i].n - 1
      BY <1>3, <3>2
    <3>9. IsInjective(F[i])
      <4> SUFFICES ASSUME NEW x \in 0 .. t[i].n - 1, NEW y \in 0 .. t[i].n - 1, F[i][x] = F[i][y]
                   PROVE  x = y
        BY <3>8 DEF IsInjective
      <4>1. F[f][m[x]] = F[f][m[y]] /\ m[x] \in 0 .. t[f].n - 1 /\ m[y] \in 0 .. t[f].n - 1
        BY <3>5, <3>7
      <4>2. IsInjective(F[f])
        BY <3>6
      <4>3. m[x] = m[y]
        BY <3>8, <4>1, <4>2 DEF IsInjective
      <4> QED
        BY <3>7, <4>3 DEF IsInjective
    <3>10. Range(F[i]) \subseteq Range(F[f])
      <4> SUFFICES ASSUME NEW x \in 0 .. t[i].n - 1 PROVE F[i][x] \in Range(F[f])
        BY <3>8 DEF Range
      <4>1. F[i][x] = F[f][m[x]] /\ m[x] \in DOMAIN F[f]
        BY <3>5, <3>7, <3>8
      <4> QED
        BY <4>1 DEF Range
    <3> QED
      BY <1>4, <3>6, <3>9, <3>10
  <2> QED
    BY <2>1, <2>2
<1>6. \A i \in D : i \in P
  <2> HIDE DEF P, D, n
  <2> QED
    BY <1>1, <1>2, <1>5, RankInduction
<1> QED
  BY <1>6 DEF F

\* A split divides the vertices between the sons.
LEMMA SonsDivide ==
  ASSUME NEW t, Shaped(t), NEW i \in 1 .. Len(t), Forks(t, i)
  PROVE  LET left == t[i].leftSon  right == t[i].rightSon
         IN  /\ Under(t, left) \cup Under(t, right) = Under(t, i)
             /\ Under(t, left) \cap Under(t, right) = {}
<1> DEFINE l == t[i].leftSon
           r == t[i].rightSon
           F == Lift(t)
           n == t[i].n
<1>1. l \in i + 1 .. Len(t) /\ r \in i + 1 .. Len(t) /\ t[l].fatherGraph = i /\ t[r].fatherGraph = i
  BY DEF Forks
<1>2. PICK p \in [0 .. Core(t[i]).n - 1 -> {0, 1}] :
        IsSon(Core(t[i]), Core(t[l]), p, 0) /\ IsSon(Core(t[i]), Core(t[r]), p, 1)
  BY DEF Forks
<1>3. p \in [0 .. n - 1 -> {0, 1}]
  BY DEF Core
<1> HIDE DEF l, r
<1>4. l \in 2 .. Len(t) /\ r \in 2 .. Len(t)
  BY <1>1
<1>5. Under(t, l) = Through(F[i], Side(n, p, 0)) /\ Under(t, r) = Through(F[i], Side(n, p, 1))
  <2>1. SonBy(t, l, p, 0) /\ SonBy(t, r, p, 1)
    BY <1>1, <1>2 DEF SonBy
  <2>2. Under(t, l) = Through(F[t[l].fatherGraph], Side(t[t[l].fatherGraph].n, p, 0))
    BY <1>4, <2>1, SonLift
  <2>3. Under(t, r) = Through(F[t[r].fatherGraph], Side(t[t[r].fatherGraph].n, p, 1))
    BY <1>4, <2>1, SonLift
  <2> QED
    BY <1>1, <2>2, <2>3
<1>6. F[i] \in [0 .. n - 1 -> Nat] /\ IsInjective(F[i]) /\ DOMAIN F[i] = 0 .. n - 1
  BY LiftIs, LiftInjective
<1>7. Under(t, i) = {F[i][v] : v \in 0 .. n - 1}
  BY <1>6 DEF Under, Range
<1> HIDE DEF F, n
<1>8. /\ Side(n, p, 0) \cup Side(n, p, 1) = 0 .. n - 1
      /\ Side(n, p, 0) \cap Side(n, p, 1) = {}
  <2>1. \A v \in 0 .. n - 1 : (p[v] = 0 \/ p[v] = 1) /\ ~ (p[v] = 0 /\ p[v] = 1)
    <3> SUFFICES ASSUME NEW v \in 0 .. n - 1 PROVE p[v] \in {0, 1}
      OBVIOUS
    <3> QED
      BY <1>3
  <2> DEFINE N == 0 .. n - 1
  <2>2. Side(n, p, 0) = {v \in N : p[v] = 0} /\ Side(n, p, 1) = {v \in N : p[v] = 1}
    BY DEF Side
  <2> HIDE DEF N
  <2>3. \A v \in N : (p[v] = 0 \/ p[v] = 1) /\ ~ (p[v] = 0 /\ p[v] = 1)
    BY <2>1 DEF N
  <2>4. /\ Side(n, p, 0) \cup Side(n, p, 1) = N
        /\ Side(n, p, 0) \cap Side(n, p, 1) = {}
    BY <2>2, <2>3
  <2> QED
    BY <2>4 DEF N
<1>9. Under(t, l) \cup Under(t, r) = Under(t, i)
  BY <1>5, <1>7, <1>8 DEF Through
<1>10. Under(t, l) \cap Under(t, r) = {}
  <2> SUFFICES ASSUME NEW a \in Side(n, p, 0), NEW b \in Side(n, p, 1), F[i][a] = F[i][b]
               PROVE  FALSE
    BY <1>5 DEF Through
  <2>1. a = b
    BY <1>6, <1>8 DEF IsInjective
  <2> QED
    BY <1>8, <2>1
<1> QED
  BY <1>9, <1>10 DEF l, r

-----------------------------------------------------------------------------
(***************************************************************************)
(* The leaves divide the vertices of pHyper.                               *)
(***************************************************************************)

\* One step down: the leaves below graph i, by those below its sons.
Below(t, F, i) == IF t[i].leftSon = 0 THEN <<i>> ELSE F[t[i].leftSon] \o F[t[i].rightSon]

\* The leaves below a graph with sons.
LEMMA BelowForks ==
  ASSUME NEW t, NEW i \in 1 .. Len(t), Forks(t, i), NEW F
  PROVE  Below(t, F, i) = F[t[i].leftSon] \o F[t[i].rightSon]
<1> DEFINE l == t[i].leftSon
<1>1. l \in i + 1 .. Len(t)
  BY DEF Forks
<1>2. l # 0
  <2> HIDE DEF l
  <2> QED
    BY <1>1
<1> QED
  BY <1>2 DEF Below

\* Going down keeps to the graphs of the tree.
LEMMA BelowType ==
  ASSUME NEW t, Shaped(t), NEW F, NEW i \in 1 .. Len(t),
         \A j \in 1 .. Len(t) : j > i => F[j] \in Seq(1 .. Len(t))
  PROVE  Below(t, F, i) \in Seq(1 .. Len(t))
<1>1. CASE Ends(t, i)
  BY <1>1 DEF Below, Ends
<1>2. CASE Forks(t, i)
  <2> DEFINE l == t[i].leftSon
             r == t[i].rightSon
  <2>1. l \in i + 1 .. Len(t) /\ r \in i + 1 .. Len(t)
    BY <1>2 DEF Forks
  <2>2. Below(t, F, i) = F[l] \o F[r]
    BY <1>2, BelowForks
  <2> HIDE DEF l, r
  <2>3. F[l] \in Seq(1 .. Len(t)) /\ F[r] \in Seq(1 .. Len(t))
    BY <2>1
  <2> QED
    BY <2>2, <2>3, ConcatProperties
<1> QED
  BY <1>1, <1>2 DEF Shaped

\* The recursion that defines LeafSeq.
LEMMA LeafSeqIs ==
  ASSUME NEW t, Shaped(t)
  PROVE  \A i \in 1 .. Len(t) : /\ LeafSeq(t)[i] \in Seq(1 .. Len(t))
                                /\ LeafSeq(t)[i] = Below(t, LeafSeq(t), i)
<1> DEFINE n == Len(t)
           D == 1 .. n
           r == [i \in D |-> (n + 1) - i]
           Q == [i \in D |-> Seq(1 .. n)]
           d == [s \in Picks(D, Q) \X D |-> Below(t, s[1], s[2])]
<1>1. n \in Nat
  BY LenProperties DEF Shaped
<1>2. r \in [D -> 1 .. n] /\ \A i \in D : r[i] = (n + 1) - i
  BY <1>1
<1>3. \A f \in Picks(D, Q), i \in D : d[<<f, i>>] = Below(t, f, i)
  <2> HIDE DEF Q, D
  <2> QED
    OBVIOUS
<1>4. \A i \in D : Q[i] = Seq(1 .. n)
  OBVIOUS
<1>5. \A i \in D : Q[i] # {}
  BY <1>4, EmptySeq
<1> HIDE DEF Q, r, d
<1>6. ASSUME NEW f \in Picks(D, Q), NEW i \in D
      PROVE  d[<<f, i>>] \in Q[i]
  <2>1. \A j \in D : f[j] \in Seq(1 .. n)
    BY <1>4 DEF Picks
  <2>2. Below(t, f, i) \in Seq(1 .. n)
    BY <2>1, BelowType
  <2> QED
    BY <1>3, <1>4, <2>2
<1>7. ASSUME NEW f \in Picks(D, Q), NEW h \in Picks(D, Q), NEW i \in D,
             \A j \in D : r[j] < r[i] => f[j] = h[j]
      PROVE  d[<<f, i>>] = d[<<h, i>>]
  <2>1. CASE Ends(t, i)
    <3>1. Below(t, f, i) = Below(t, h, i)
      BY <2>1 DEF Below, Ends
    <3> QED
      BY <1>3, <3>1
  <2>2. CASE Forks(t, i)
    <3> DEFINE left == t[i].leftSon
               right == t[i].rightSon
    <3>1. left \in i + 1 .. n /\ right \in i + 1 .. n
      BY <2>2 DEF Forks
    <3>2. Below(t, f, i) = f[left] \o f[right] /\ Below(t, h, i) = h[left] \o h[right]
      BY <2>2, BelowForks
    <3> HIDE DEF left, right
    <3>3. left \in D /\ right \in D /\ r[left] < r[i] /\ r[right] < r[i]
      BY <1>1, <1>2, <3>1
    <3>4. f[left] = h[left] /\ f[right] = h[right]
      BY <1>7, <3>3
    <3> QED
      BY <1>3, <3>2, <3>4
  <2> QED
    BY <2>1, <2>2 DEF Shaped
<1>8. PICK f \in Picks(D, Q) : \A i \in D : f[i] = d[<<f, i>>]
  <2>1. Recurses(D, r, Q, d)
    BY <1>5, <1>6, <1>7 DEF Recurses
  <2>2. n \in Nat /\ r \in [D -> 1 .. n]
    BY <1>1, <1>2
  <2> HIDE DEF D, n
  <2>3. \E f \in Picks(D, Q) : \A x \in D : f[x] = d[<<f, x>>]
    BY <2>1, <2>2, RecursionExists
  <2> QED
    BY <2>3
<1>9. f = [i \in D |-> Below(t, f, i)]
  <2>1. f = [i \in D |-> f[i]]
    BY DEF Picks
  <2>2. \A i \in D : f[i] = Below(t, f, i)
    BY <1>3, <1>8
  <2> HIDE DEF D
  <2> QED
    BY <2>1, <2>2
<1> DEFINE F == LeafSeq(t)
<1>10. F = [i \in D |-> Below(t, F, i)]
  <2>1. F = CHOOSE u : u = [i \in D |-> Below(t, u, i)]
    BY DEF LeafSeq, Below
  <2> HIDE DEF F, D
  <2> QED
    BY <1>9, <2>1, Zenon
<1> HIDE DEF F
<1>11. \A i \in D : F[i] = Below(t, F, i)
  BY <1>10
<1>12. \A i \in D : F[i] \in Seq(1 .. n)
  <2> DEFINE P == {i \in D : F[i] \in Seq(1 .. n)}
  <2>1. ASSUME NEW i \in D, \A j \in D : r[j] < r[i] => j \in P
        PROVE  i \in P
    <3>1. \A j \in D : j > i => r[j] < r[i]
      BY <1>1, <1>2
    <3>2. \A j \in D : j > i => F[j] \in Seq(1 .. n)
      BY <2>1, <3>1
    <3>3. Below(t, F, i) \in Seq(1 .. n)
      BY <3>2, BelowType
    <3> QED
      BY <1>11, <3>3
  <2>2. \A i \in D : i \in P
    <3>1. n \in Nat /\ r \in [D -> 1 .. n]
      BY <1>1, <1>2
    <3> HIDE DEF P, D, n
    <3> QED
      BY <2>1, <3>1, RankInduction
  <2> QED
    BY <2>2
<1> QED
  BY <1>11, <1>12 DEF F

\* The leaves listed in s tile V: each vertex of V is in one of them, at one place.
Tiles(t, s, V) ==
  /\ \A k \in DOMAIN s : Ends(t, s[k]) /\ Under(t, s[k]) \subseteq V
  /\ \A v \in V : \E k \in DOMAIN s : v \in Under(t, s[k])
  /\ \A k, m \in DOMAIN s, v \in V : v \in Under(t, s[k]) /\ v \in Under(t, s[m]) => k = m

\* Two lists of leaves that tile disjoint sets tile both.
LEMMA TilesConcat ==
  ASSUME NEW t, NEW X, NEW a \in Seq(X), NEW b \in Seq(X), NEW A, NEW B,
         Tiles(t, a, A), Tiles(t, b, B), A \cap B = {}
  PROVE  Tiles(t, a \o b, A \cup B)
<1> DEFINE c == a \o b
           m == Len(a)
           n == Len(b)
<1>1. m \in Nat /\ n \in Nat /\ DOMAIN a = 1 .. m /\ DOMAIN b = 1 .. n
  BY LenProperties
<1>2. c \in Seq(X) /\ Len(c) = m + n /\ \A k \in 1 .. m + n : c[k] = IF k <= m THEN a[k] ELSE b[k - m]
  BY ConcatProperties
<1>3. DOMAIN c = 1 .. m + n
  BY <1>2, LenProperties
<1> HIDE DEF c, m, n
<1>4. ASSUME NEW k \in 1 .. m + n
      PROVE  \/ k <= m /\ k \in 1 .. m /\ c[k] = a[k]
             \/ ~ k <= m /\ k - m \in 1 .. n /\ c[k] = b[k - m]
  BY <1>1, <1>2
<1>5. ASSUME NEW k \in 1 .. m + n
      PROVE  /\ Ends(t, c[k]) /\ Under(t, c[k]) \subseteq A \cup B
             /\ k <= m => Under(t, c[k]) \subseteq A
             /\ ~ k <= m => Under(t, c[k]) \subseteq B
  <2>1. CASE k <= m
    BY <1>1, <1>4, <2>1 DEF Tiles
  <2>2. CASE ~ k <= m
    BY <1>1, <1>4, <2>2 DEF Tiles
  <2> QED
    BY <2>1, <2>2
<1>6. ASSUME NEW v \in A PROVE \E k \in 1 .. m + n : v \in Under(t, c[k])
  <2>1. PICK k \in 1 .. m : v \in Under(t, a[k])
    BY <1>1 DEF Tiles
  <2>2. k \in 1 .. m + n /\ k <= m
    BY <1>1
  <2> QED
    BY <1>2, <2>1, <2>2
<1>7. ASSUME NEW v \in B PROVE \E k \in 1 .. m + n : v \in Under(t, c[k])
  <2>1. PICK k \in 1 .. n : v \in Under(t, b[k])
    BY <1>1 DEF Tiles
  <2>2. m + k \in 1 .. m + n /\ ~ m + k <= m /\ (m + k) - m = k
    BY <1>1
  <2>3. c[m + k] = b[k]
    BY <1>2, <2>2
  <2> QED
    BY <2>1, <2>2, <2>3
<1>8. ASSUME NEW k \in 1 .. m + n, NEW j \in 1 .. m + n, NEW v \in A \cup B,
             v \in Under(t, c[k]), v \in Under(t, c[j])
      PROVE  k = j
  <2>1. k <= m <=> j <= m
    BY <1>5, <1>8
  <2>2. CASE k <= m
    <3>1. v \in A /\ k \in 1 .. m /\ j \in 1 .. m /\ c[k] = a[k] /\ c[j] = a[j]
      BY <1>4, <1>5, <1>8, <2>1, <2>2
    <3> QED
      BY <1>1, <1>8, <3>1 DEF Tiles
  <2>3. CASE ~ k <= m
    <3>1. v \in B /\ k - m \in 1 .. n /\ j - m \in 1 .. n /\ c[k] = b[k - m] /\ c[j] = b[j - m]
      BY <1>4, <1>5, <1>8, <2>1, <2>3
    <3>2. k - m = j - m
      BY <1>1, <1>8, <3>1 DEF Tiles
    <3> QED
      BY <1>1, <3>2
  <2> QED
    BY <2>2, <2>3
<1>9. Tiles(t, c, A \cup B)
  BY <1>3, <1>5, <1>6, <1>7, <1>8 DEF Tiles
<1> QED
  BY <1>9 DEF c

\* The leaves below a graph tile what it stands for.
LEMMA LeavesTile ==
  ASSUME NEW t, Shaped(t)
  PROVE  \A i \in 1 .. Len(t) : Tiles(t, LeafSeq(t)[i], Under(t, i))
<1> DEFINE n == Len(t)
           D == 1 .. n
           F == LeafSeq(t)
           r == [i \in D |-> (n + 1) - i]
           P == {i \in D : Tiles(t, F[i], Under(t, i))}
<1>1. n \in Nat
  BY LenProperties DEF Shaped
<1>2. r \in [D -> 1 .. n] /\ \A i \in D : r[i] = (n + 1) - i
  BY <1>1
<1> HIDE DEF r
<1>3. \A i \in D : F[i] \in Seq(1 .. n) /\ F[i] = Below(t, F, i)
  BY LeafSeqIs
<1> HIDE DEF F
<1>4. ASSUME NEW i \in D, \A j \in D : r[j] < r[i] => j \in P
      PROVE  i \in P
  <2>1. CASE Ends(t, i)
    <3>1. F[i] = <<i>>
      BY <1>3, <2>1 DEF Below, Ends
    <3>2. DOMAIN <<i>> = {1} /\ <<i>>[1] = i
      OBVIOUS
    <3>3. Tiles(t, <<i>>, Under(t, i))
      BY <2>1, <3>2 DEF Tiles
    <3> QED
      BY <3>1, <3>3
  <2>2. CASE Forks(t, i)
    <3> DEFINE left == t[i].leftSon
               right == t[i].rightSon
               U == Under(t, left)
               W == Under(t, right)
               a == F[left]
               b == F[right]
    <3>1. left \in i + 1 .. n /\ right \in i + 1 .. n
      BY <2>2 DEF Forks
    <3>2. F[i] = a \o b
      <4>1. Below(t, F, i) = a \o b
        BY <2>2, BelowForks
      <4> QED
        BY <1>3, <4>1
    <3>3. U \cup W = Under(t, i) /\ U \cap W = {}
      BY <2>2, SonsDivide
    <3> HIDE DEF left, right
    <3>4. left \in D /\ right \in D /\ r[left] < r[i] /\ r[right] < r[i]
      BY <1>1, <1>2, <3>1
    <3>5. Tiles(t, a, U) /\ Tiles(t, b, W)
      BY <1>4, <3>4
    <3>6. a \in Seq(1 .. n) /\ b \in Seq(1 .. n)
      BY <1>3, <3>4
    <3> HIDE DEF a, b, U, W
    <3>7. Tiles(t, a \o b, U \cup W)
      BY <3>3, <3>5, <3>6, TilesConcat
    <3> QED
      BY <3>2, <3>3, <3>7
  <2> QED
    BY <2>1, <2>2 DEF Shaped
<1>5. \A i \in D : i \in P
  <2>1. n \in Nat /\ r \in [D -> 1 .. n]
    BY <1>1, <1>2
  <2> HIDE DEF P, D, n
  <2> QED
    BY <1>4, <2>1, RankInduction
<1> QED
  BY <1>5 DEF F

\* pHyper stands for its own vertices.
LEMMA UnderRoot ==
  ASSUME NEW t, Shaped(t)
  PROVE  1 \in 1 .. Len(t) /\ Under(t, 1) = 0 .. t[1].n - 1
<1>1. 1 \in 1 .. Len(t)
  BY LenProperties DEF Shaped
<1>2. Lift(t)[1] = Above(t, Lift(t), 1)
  BY <1>1, LiftIs
<1>3. Above(t, Lift(t), 1) = [x \in 0 .. t[1].n - 1 |-> x]
  BY DEF Above, Shaped, Rooted
<1>4. Range([x \in 0 .. t[1].n - 1 |-> x]) = 0 .. t[1].n - 1
  BY DEF Range
<1> QED
  BY <1>1, <1>2, <1>3, <1>4 DEF Under

\* Every graph without sons is listed as a leaf of the tree.
LEMMA LeavesListed ==
  ASSUME NEW t, Shaped(t), NEW j \in 1 .. Len(t), t[j].leftSon = 0
  PROVE  j \in Range(LeafSeq(t)[1])
<1> DEFINE n == Len(t)
           D == 1 .. n
           F == LeafSeq(t)
           r == [i \in D |-> i]
           P == {i \in D : Range(F[i]) \subseteq Range(F[1])}
<1>1. n \in Nat
  BY LenProperties DEF Shaped
<1>2. r \in [D -> 1 .. n] /\ \A i \in D : r[i] = i
  OBVIOUS
<1> HIDE DEF r
<1>3. \A i \in D : F[i] \in Seq(1 .. n) /\ F[i] = Below(t, F, i)
  BY LeafSeqIs
<1> HIDE DEF F
<1>4. ASSUME NEW i \in D, \A k \in D : r[k] < r[i] => k \in P
      PROVE  i \in P
  <2>1. CASE i = 1
    BY <2>1
  <2>2. CASE i # 1
    <3> DEFINE f == t[i].fatherGraph
               left == t[f].leftSon
               right == t[f].rightSon
    <3>1. i \in 2 .. n
      BY <1>1, <2>2
    <3>2. f \in 1 .. i - 1 /\ f \in D /\ Forks(t, f)
      BY <3>1, SonOf
    <3>3. i \in {left, right}
      BY <3>1 DEF Shaped, Hangs
    <3>4. left \in f + 1 .. n /\ right \in f + 1 .. n
      BY <3>2 DEF Forks
    <3>5. Below(t, F, f) = F[left] \o F[right]
      BY <3>2, BelowForks
    <3> HIDE DEF f, left, right
    <3>6. left \in D /\ right \in D
      BY <1>1, <3>2, <3>4
    <3>7. F[left] \in Seq(1 .. n) /\ F[right] \in Seq(1 .. n)
      BY <1>3, <3>6
    <3>8. Range(F[left] \o F[right]) = Range(F[left]) \cup Range(F[right])
      <4>1. ToSet(F[left] \o F[right]) = ToSet(F[left]) \cup ToSet(F[right])
        BY <3>7, ConcatSet
      <4> QED
        BY <4>1 DEF ToSet, Range
    <3>9. Range(F[i]) \subseteq Range(F[f])
      <4>1. F[f] = F[left] \o F[right]
        BY <1>3, <3>2, <3>5
      <4> QED
        BY <3>3, <3>8, <4>1
    <3>10. f \in P
      BY <1>1, <1>2, <1>4, <3>2
    <3> QED
      BY <3>9, <3>10
  <2> QED
    BY <2>1, <2>2
<1>5. \A i \in D : i \in P
  <2>1. n \in Nat /\ r \in [D -> 1 .. n]
    BY <1>1, <1>2
  <2> HIDE DEF P, D, n
  <2> QED
    BY <1>4, <2>1, RankInduction
<1>6. F[j] = <<j>>
  BY <1>3 DEF Below
<1>7. j \in Range(<<j>>)
  BY DEF Range
<1> QED
  BY <1>5, <1>6, <1>7 DEF F

\* The leaves of the tree, as dfsForWriteParts meets them.
LEMMA LeavesAre ==
  ASSUME NEW t, Shaped(t)
  PROVE  LET s == LeafSeq(t)[1]
         IN  /\ s \in Seq(1 .. Len(t)) /\ Len(s) \in Nat /\ DOMAIN s = 1 .. Len(s)
             /\ Tiles(t, s, 0 .. t[1].n - 1)
<1>1. 1 \in 1 .. Len(t) /\ Under(t, 1) = 0 .. t[1].n - 1
  BY UnderRoot
<1>2. LeafSeq(t)[1] \in Seq(1 .. Len(t))
  BY <1>1, LeafSeqIs
<1>3. Tiles(t, LeafSeq(t)[1], Under(t, 1))
  BY <1>1, LeavesTile
<1> QED
  BY <1>1, <1>2, <1>3, LenProperties

\* One step down: the number a graph is given, by that of its father.
Handed(t, B, i) ==
  LET father == t[i].fatherGraph
  IN  IF father = 0 THEN 0
      ELSE IF i = t[father].rightSon THEN B[father] + Len(LeafSeq(t)[t[father].leftSon])
      ELSE B[father]

\* A graph has a number if its father has.
LEMMA HandedType ==
  ASSUME NEW t, Shaped(t), NEW B, NEW i \in 1 .. Len(t),
         \A j \in 1 .. Len(t) : j < i => B[j] \in Nat
  PROVE  Handed(t, B, i) \in Nat
<1>1. Len(t) \in Nat
  BY LenProperties DEF Shaped
<1>2. CASE i = 1
  BY <1>2 DEF Handed, Shaped, Rooted
<1>3. CASE i # 1
  <2> DEFINE f == t[i].fatherGraph
             left == t[f].leftSon
             c == Len(LeafSeq(t)[left])
  <2>1. i \in 2 .. Len(t)
    BY <1>1, <1>3
  <2>2. f \in 1 .. i - 1 /\ f \in 1 .. Len(t) /\ Forks(t, f)
    BY <2>1, SonOf
  <2>3. left \in f + 1 .. Len(t)
    BY <2>2 DEF Forks
  <2>4. Handed(t, B, i) \in {0, B[f] + c, B[f]}
    BY DEF Handed
  <2> HIDE DEF f, left
  <2>5. left \in 1 .. Len(t)
    BY <1>1, <2>2, <2>3
  <2>6. c \in Nat
    <3>1. LeafSeq(t)[left] \in Seq(1 .. Len(t))
      BY <2>5, LeafSeqIs
    <3> QED
      BY <3>1, LenProperties
  <2> HIDE DEF c
  <2>7. B[f] \in Nat
    BY <1>1, <2>2
  <2> QED
    BY <2>4, <2>6, <2>7
<1> QED
  BY <1>2, <1>3

\* The recursion that defines PartsBefore.
LEMMA PartsBeforeIs ==
  ASSUME NEW t, Shaped(t)
  PROVE  \A i \in 1 .. Len(t) : /\ PartsBefore(t)[i] \in Nat
                                /\ PartsBefore(t)[i] = Handed(t, PartsBefore(t), i)
<1> DEFINE n == Len(t)
           D == 1 .. n
           r == [i \in D |-> i]
           Q == [i \in D |-> Nat]
           d == [s \in Picks(D, Q) \X D |-> Handed(t, s[1], s[2])]
<1>1. n \in Nat
  BY LenProperties DEF Shaped
<1>2. r \in [D -> 1 .. n] /\ \A i \in D : r[i] = i
  OBVIOUS
<1>3. \A f \in Picks(D, Q), i \in D : d[<<f, i>>] = Handed(t, f, i)
  <2> HIDE DEF Q, D
  <2> QED
    OBVIOUS
<1>4. \A i \in D : Q[i] = Nat
  OBVIOUS
<1>5. \A i \in D : Q[i] # {}
  BY <1>4
<1> HIDE DEF Q, r, d
<1>6. ASSUME NEW f \in Picks(D, Q), NEW i \in D
      PROVE  d[<<f, i>>] \in Q[i]
  <2>1. \A j \in D : f[j] \in Nat
    BY <1>4 DEF Picks
  <2>2. Handed(t, f, i) \in Nat
    BY <2>1, HandedType
  <2> QED
    BY <1>3, <1>4, <2>2
<1>7. ASSUME NEW f \in Picks(D, Q), NEW h \in Picks(D, Q), NEW i \in D,
             \A j \in D : r[j] < r[i] => f[j] = h[j]
      PROVE  d[<<f, i>>] = d[<<h, i>>]
  <2>1. CASE t[i].fatherGraph = 0
    <3>1. Handed(t, f, i) = Handed(t, h, i)
      BY <2>1 DEF Handed
    <3> QED
      BY <1>3, <3>1
  <2>2. CASE t[i].fatherGraph # 0
    <3>1. i \in 2 .. n
      BY <1>1, <2>2 DEF Shaped, Rooted
    <3>2. t[i].fatherGraph \in 1 .. i - 1 /\ t[i].fatherGraph \in D
      BY <3>1, SonOf
    <3>3. r[t[i].fatherGraph] < r[i]
      BY <1>1, <1>2, <3>2
    <3>4. f[t[i].fatherGraph] = h[t[i].fatherGraph]
      BY <1>7, <3>2, <3>3
    <3>5. Handed(t, f, i) = Handed(t, h, i)
      BY <3>4 DEF Handed
    <3> QED
      BY <1>3, <3>5
  <2> QED
    BY <2>1, <2>2
<1>8. PICK f \in Picks(D, Q) : \A i \in D : f[i] = d[<<f, i>>]
  <2>1. Recurses(D, r, Q, d)
    BY <1>5, <1>6, <1>7 DEF Recurses
  <2>2. n \in Nat /\ r \in [D -> 1 .. n]
    BY <1>1, <1>2
  <2> HIDE DEF D, n
  <2>3. \E f \in Picks(D, Q) : \A x \in D : f[x] = d[<<f, x>>]
    BY <2>1, <2>2, RecursionExists
  <2> QED
    BY <2>3
<1>9. f = [i \in D |-> Handed(t, f, i)]
  <2>1. f = [i \in D |-> f[i]]
    BY DEF Picks
  <2>2. \A i \in D : f[i] = Handed(t, f, i)
    BY <1>3, <1>8
  <2> HIDE DEF D
  <2> QED
    BY <2>1, <2>2
<1> DEFINE B == PartsBefore(t)
<1>10. B = [i \in D |-> Handed(t, B, i)]
  <2>1. B = CHOOSE u : u = [i \in D |-> Handed(t, u, i)]
    BY DEF PartsBefore, Handed
  <2> HIDE DEF B, D
  <2> QED
    BY <1>9, <2>1, Zenon
<1> HIDE DEF B
<1>11. \A i \in D : B[i] = Handed(t, B, i)
  BY <1>10
<1>12. \A i \in D : B[i] \in Nat
  <2> DEFINE P == {i \in D : B[i] \in Nat}
  <2>1. ASSUME NEW i \in D, \A j \in D : r[j] < r[i] => j \in P
        PROVE  i \in P
    <3>1. \A j \in D : j < i => B[j] \in Nat
      BY <1>2, <2>1
    <3>2. Handed(t, B, i) \in Nat
      BY <3>1, HandedType
    <3> QED
      BY <1>11, <3>2
  <2>2. \A i \in D : i \in P
    <3> HIDE DEF P, D, n
    <3> QED
      BY <1>1, <1>2, <2>1, RankInduction
  <2> QED
    BY <2>2
<1> QED
  BY <1>11, <1>12 DEF B

\* The numbers of two sons: the left one starts where its father does, the right one
\* after the leaves of the left one.
LEMMA SonsHanded ==
  ASSUME NEW t, Shaped(t), NEW i \in 1 .. Len(t), Forks(t, i)
  PROVE  LET B == PartsBefore(t)  left == t[i].leftSon  right == t[i].rightSon
         IN  B[left] = B[i] /\ B[right] = B[i] + Len(LeafSeq(t)[left])
<1> DEFINE B == PartsBefore(t)
           left == t[i].leftSon
           right == t[i].rightSon
<1>1. Len(t) \in Nat
  BY LenProperties DEF Shaped
<1>2. /\ left \in i + 1 .. Len(t) /\ right \in i + 1 .. Len(t) /\ left # right
      /\ t[left].fatherGraph = i /\ t[right].fatherGraph = i
  BY DEF Forks
<1>3. i # 0
  OBVIOUS
<1>4. Handed(t, B, left) = B[i] /\ Handed(t, B, right) = B[i] + Len(LeafSeq(t)[left])
  BY <1>2, <1>3 DEF Handed
<1> HIDE DEF left, right
<1>5. left \in 1 .. Len(t) /\ right \in 1 .. Len(t)
  BY <1>1, <1>2
<1>6. B[left] = Handed(t, B, left) /\ B[right] = Handed(t, B, right)
  BY <1>5, PartsBeforeIs
<1> QED
  BY <1>4, <1>6 DEF left, right

\* The leaves below each graph are numbered one by one from the graph's own number.
LEMMA LeavesNumbered ==
  ASSUME NEW t, Shaped(t)
  PROVE  \A i \in 1 .. Len(t) : \A k \in 1 .. Len(LeafSeq(t)[i]) :
           PartsBefore(t)[LeafSeq(t)[i][k]] = PartsBefore(t)[i] + (k - 1)
<1> DEFINE n == Len(t)
           D == 1 .. n
           F == LeafSeq(t)
           B == PartsBefore(t)
           r == [i \in D |-> (n + 1) - i]
           P == {i \in D : \A k \in 1 .. Len(F[i]) : B[F[i][k]] = B[i] + (k - 1)}
<1>1. n \in Nat
  BY LenProperties DEF Shaped
<1>2. r \in [D -> 1 .. n] /\ \A i \in D : r[i] = (n + 1) - i
  BY <1>1
<1> HIDE DEF r
<1>3. \A i \in D : F[i] \in Seq(1 .. n) /\ F[i] = Below(t, F, i) /\ B[i] \in Nat
  BY LeafSeqIs, PartsBeforeIs
<1>4. ASSUME NEW i \in D, \A k \in D : r[k] < r[i] => k \in P
      PROVE  i \in P
  <2>1. CASE Ends(t, i)
    <3>1. F[i] = <<i>>
      BY <1>3, <2>1 DEF Below, Ends
    <3> HIDE DEF F, B
    <3>2. Len(F[i]) = 1 /\ F[i][1] = i
      BY <3>1
    <3>3. \A k \in 1 .. Len(F[i]) : k = 1
      BY <3>2
    <3>4. B[i] = B[i] + (1 - 1)
      BY <1>3
    <3> QED
      BY <3>2, <3>3, <3>4
  <2>2. CASE Forks(t, i)
    <3> DEFINE left == t[i].leftSon
               right == t[i].rightSon
    <3>1. left \in i + 1 .. n /\ right \in i + 1 .. n
      BY <2>2 DEF Forks
    <3>2. F[i] = F[left] \o F[right]
      BY <1>3, <2>2, BelowForks
    <3>3. B[left] = B[i] /\ B[right] = B[i] + Len(F[left])
      BY <2>2, SonsHanded
    <3> HIDE DEF left, right, F, B
    <3>4. left \in D /\ right \in D /\ r[left] < r[i] /\ r[right] < r[i]
      BY <1>1, <1>2, <3>1
    <3>5. left \in P /\ right \in P
      BY <1>4, <3>4
    <3> DEFINE a == F[left]
               b == F[right]
               la == Len(a)
               lb == Len(b)
    <3>6. a \in Seq(1 .. n) /\ b \in Seq(1 .. n) /\ B[i] \in Nat
      BY <1>3, <3>4
    <3>7. /\ \A k \in 1 .. la : B[a[k]] = B[i] + (k - 1)
          /\ \A k \in 1 .. lb : B[b[k]] = (B[i] + la) + (k - 1)
      BY <3>3, <3>5
    <3> HIDE DEF a, b
    <3>8. la \in Nat /\ lb \in Nat
      BY <3>6, LenProperties
    <3>9. /\ Len(a \o b) = la + lb
          /\ \A k \in 1 .. la + lb : (a \o b)[k] = IF k <= la THEN a[k] ELSE b[k - la]
      BY <3>6, ConcatProperties
    <3> HIDE DEF la, lb
    <3>10. F[i] = a \o b
      BY <3>2 DEF a, b
    <3>11. ASSUME NEW k \in 1 .. la + lb PROVE B[F[i][k]] = B[i] + (k - 1)
      <4>1. CASE k <= la
        <5>1. k \in 1 .. la /\ F[i][k] = a[k]
          BY <3>8, <3>9, <3>10, <4>1
        <5> QED
          BY <3>7, <5>1
      <4>2. CASE ~ k <= la
        <5>1. k - la \in 1 .. lb /\ F[i][k] = b[k - la]
          BY <3>8, <3>9, <3>10, <4>2
        <5>2. B[b[k - la]] = (B[i] + la) + ((k - la) - 1)
          BY <3>7, <5>1
        <5>3. (B[i] + la) + ((k - la) - 1) = B[i] + (k - 1)
          BY <3>6, <3>8
        <5> QED
          BY <5>1, <5>2, <5>3
      <4> QED
        BY <4>1, <4>2
    <3> QED
      BY <3>9, <3>10, <3>11
  <2> QED
    BY <2>1, <2>2 DEF Shaped
<1>5. \A i \in D : i \in P
  <2>1. n \in Nat /\ r \in [D -> 1 .. n]
    BY <1>1, <1>2
  <2> HIDE DEF P, D, n
  <2> QED
    BY <1>4, <2>1, RankInduction
<1> QED
  BY <1>5

\* What dfsForWriteParts writes for a vertex: the place of the one leaf it is in.
LEMMA PartOfIs ==
  ASSUME NEW t, Shaped(t), NEW v \in 0 .. t[1].n - 1
  PROVE  LET s == LeafSeq(t)[1]
         IN  /\ PartOf(t, v) \in 0 .. Len(s) - 1 /\ PartOf(t, v) + 1 \in DOMAIN s
             /\ v \in Under(t, s[PartOf(t, v) + 1])
             /\ \A k \in DOMAIN s : v \in Under(t, s[k]) => k = PartOf(t, v) + 1
<1> DEFINE s == LeafSeq(t)[1]
           B == PartsBefore(t)
           i == CHOOSE i \in Range(s) : v \in Under(t, i)
<1>1. Len(s) \in Nat /\ DOMAIN s = 1 .. Len(s) /\ Tiles(t, s, 0 .. t[1].n - 1)
  BY LeavesAre
<1>2. PartOf(t, v) = B[i]
  BY DEF PartOf
<1>3. \A k \in 1 .. Len(s) : B[s[k]] = k - 1
  <2>1. 1 \in 1 .. Len(t)
    BY UnderRoot
  <2>2. B[1] = 0
    <3>1. Handed(t, B, 1) = 0
      BY DEF Handed, Shaped, Rooted
    <3> QED
      BY <2>1, <3>1, PartsBeforeIs
  <2>3. \A k \in 1 .. Len(s) : B[s[k]] = B[1] + (k - 1)
    BY <2>1, LeavesNumbered
  <2> HIDE DEF B, s
  <2> QED
    BY <2>2, <2>3
<1> HIDE DEF s, B
<1>4. \E m \in DOMAIN s : v \in Under(t, s[m])
  BY <1>1 DEF Tiles
<1>5. i \in Range(s) /\ v \in Under(t, i)
  BY <1>4 DEF Range
<1> HIDE DEF i
<1>6. PICK k \in DOMAIN s : i = s[k]
  BY <1>5 DEF Range
<1>7. k - 1 \in 0 .. Len(s) - 1 /\ (k - 1) + 1 = k /\ PartOf(t, v) = k - 1
  BY <1>1, <1>2, <1>3, <1>6
<1>8. \A m \in DOMAIN s : v \in Under(t, s[m]) => m = k
  BY <1>1, <1>5, <1>6 DEF Tiles
<1> QED
  BY <1>5, <1>6, <1>7, <1>8 DEF s

\* The leaves hold the vertices of pHyper, and no others.
LEMMA LeavesCover ==
  ASSUME NEW t, Shaped(t)
  PROVE  UNION {Under(t, i) : i \in Range(LeafSeq(t)[1])} = 0 .. t[1].n - 1
<1> DEFINE s == LeafSeq(t)[1]
           V == 0 .. t[1].n - 1
<1>1. Tiles(t, s, V)
  BY LeavesAre
<1> HIDE DEF s, V
<1>2. \A v \in V : \E i \in Range(s) : v \in Under(t, i)
  BY <1>1 DEF Tiles, Range
<1>3. \A i \in Range(s) : Under(t, i) \subseteq V
  BY <1>1 DEF Tiles, Range
<1>4. UNION {Under(t, i) : i \in Range(s)} = V
  BY <1>2, <1>3
<1> QED
  BY <1>4 DEF s, V

\* A vertex is in one leaf.
LEMMA OneLeaf ==
  ASSUME NEW t, Shaped(t), NEW v \in 0 .. t[1].n - 1
  PROVE  Cardinality({i \in Range(LeafSeq(t)[1]) : v \in Under(t, i)}) = 1
<1> DEFINE s == LeafSeq(t)[1]
           k == PartOf(t, v) + 1
           S == {i \in Range(s) : v \in Under(t, i)}
<1>1. k \in DOMAIN s /\ v \in Under(t, s[k]) /\ \A m \in DOMAIN s : v \in Under(t, s[m]) => m = k
  BY PartOfIs
<1> HIDE DEF k, s
<1>2. S = {s[k]}
  BY <1>1 DEF Range
<1>3. Cardinality({s[k]}) = 1
  BY FS_Singleton
<1> QED
  BY <1>2, <1>3 DEF s

\* A graph stands for as many vertices as it has.
LEMMA UnderCardinality ==
  ASSUME NEW t, Shaped(t), NEW i \in 1 .. Len(t)
  PROVE  Cardinality(Under(t, i)) = t[i].n
<1>1. t[i].n \in Nat
  BY DEF Shaped, Spanned, Core
<1>2. Lift(t)[i] \in [0 .. t[i].n - 1 -> Nat] /\ IsInjective(Lift(t)[i])
  BY LiftIs, LiftInjective
<1> QED
  BY <1>1, <1>2, RangeCardinality DEF Under

\* The leaves divide the vertices of pHyper.
LEMMA ShapedPartition ==
  ASSUME Shaped(tree)
  PROVE  LeavesPartition
<1>1. DOMAIN tree = 1 .. Len(tree)
  BY LenProperties DEF Shaped
<1> QED
  BY <1>1, OneLeaf, UnderCardinality DEF LeavesPartition

\* The sons of a split have, together, as many vertices as the graph.
LEMMA SonsCount ==
  ASSUME NEW G, NEW L, NEW R, NEW p \in [0 .. G.n - 1 -> {0, 1}], Spanned(G), Spanned(L), Spanned(R),
         IsSon(G, L, p, 0), IsSon(G, R, p, 1)
  PROVE  L.n \in Nat /\ R.n \in Nat /\ L.n + R.n = G.n
<1> DEFINE A == Side(G.n, p, 0)
           B == Side(G.n, p, 1)
           N == 0 .. G.n - 1
<1>1. G.n \in Nat /\ L.n \in Nat /\ R.n \in Nat
  BY DEF Spanned
<1>2. IsFiniteSet(A) /\ Cardinality(A) = L.n
  <2> DEFINE f == L.mapForFather
             n == L.n
  <2>1. f \in [0 .. n - 1 -> N] /\ IsInjective(f) /\ Range(f) = A
    BY DEF IsSon
  <2> HIDE DEF f, A, N, n
  <2> QED
    BY <1>1, <2>1, RangeCardinality DEF n
<1>3. IsFiniteSet(B) /\ Cardinality(B) = R.n
  <2> DEFINE f == R.mapForFather
             n == R.n
  <2>1. f \in [0 .. n - 1 -> N] /\ IsInjective(f) /\ Range(f) = B
    BY DEF IsSon
  <2> HIDE DEF f, B, N, n
  <2> QED
    BY <1>1, <2>1, RangeCardinality DEF n
<1>4. \A v \in N : p[v] \in {0, 1}
  OBVIOUS
<1>5. A = {v \in N : p[v] = 0} /\ B = {v \in N : p[v] = 1}
  BY DEF Side
<1>6. Cardinality(N) = G.n
  <2>1. 0 \in Int /\ G.n - 1 \in Int
    BY <1>1
  <2>2. Cardinality(N) = IF 0 > G.n - 1 THEN 0 ELSE (G.n - 1) - 0 + 1
    BY <2>1, FS_Interval
  <2> QED
    BY <1>1, <2>2
<1> HIDE DEF A, B, N
<1>7. A \cup B = N /\ A \cap B = {}
  <2>1. \A v \in N : (p[v] = 0 \/ p[v] = 1) /\ ~ (p[v] = 0 /\ p[v] = 1)
    BY <1>4
  <2> QED
    BY <1>5, <2>1
<1>8. Cardinality(A \cup B) = Cardinality(A) + Cardinality(B) - Cardinality(A \cap B)
  BY <1>2, <1>3, FS_Union
<1>9. Cardinality({}) = 0
  BY FS_EmptySet
<1>10. G.n = L.n + R.n - 0
  BY <1>2, <1>3, <1>6, <1>7, <1>8, <1>9
<1> QED
  BY <1>1, <1>10

-----------------------------------------------------------------------------
(***************************************************************************)
(* The edges of a graph are what is left of pHyper's.                      *)
(***************************************************************************)

\* The edges that meet U.
Meeting(E, U) == {e \in DOMAIN E : Range(E[e]) \cap U # {}}
Meets(E, U) == Among([e \in DOMAIN E |-> e], Meeting(E, U))

\* Edge e of the lists eind with weights w is what is left in U of edge m of E, the
\* vertices seen through F.
IsLeft(E, W, U, F, eind, w, m, e) ==
  /\ Mapped(eind[e], F) = Among(E[m], U)
  /\ eind[e] # <<>>
  /\ w[e] = IF Range(E[m]) \subseteq U THEN W[m] ELSE 0

\* The edges eind are what is left in U of the edges E.
Projected(E, W, U, F, eind, w) ==
  /\ Len(eind) = Len(Meets(E, U)) /\ Len(w) = Len(Meets(E, U))
  /\ \A e \in DOMAIN Meets(E, U) : IsLeft(E, W, U, F, eind, w, Meets(E, U)[e], e)

\* The edges that meet U are edges, in order.
LEMMA MeetsAre ==
  ASSUME NEW X, NEW E \in Seq(Seq(X)), NEW U
  PROVE  /\ Meets(E, U) \in Seq(1 .. Len(E)) /\ Len(Meets(E, U)) \in Nat
         /\ DOMAIN Meets(E, U) = 1 .. Len(Meets(E, U))
         /\ Range(Meets(E, U)) = Meeting(E, U)
         /\ Meets(E, U) \in [1 .. Len(Meets(E, U)) -> 1 .. Len(E)]
<1> DEFINE m == Len(E)
           id == [e \in DOMAIN E |-> e]
<1>1. m \in Nat /\ DOMAIN E = 1 .. m
  BY LenProperties
<1>2. id \in Seq(1 .. m) /\ Range(id) = 1 .. m
  <2> HIDE DEF m
  <2> QED
    BY <1>1, CountUp
<1>3. Meeting(E, U) \subseteq 1 .. m
  BY <1>1 DEF Meeting
<1> DEFINE s == Among(id, Meeting(E, U))
<1>4. Meets(E, U) = s
  BY DEF Meets
<1> HIDE DEF m, id
<1>5. s \in Seq(1 .. m) /\ Range(s) = (1 .. m) \cap Meeting(E, U)
  BY <1>2, AmongType
<1> HIDE DEF s
<1>6. Len(s) \in Nat /\ DOMAIN s = 1 .. Len(s) /\ s \in [1 .. Len(s) -> 1 .. m]
  BY <1>5, LenProperties
<1>7. Range(s) = Meeting(E, U)
  BY <1>3, <1>5
<1> QED
  BY <1>4, <1>5, <1>6, <1>7 DEF m

\* The whole hypergraph is what is left of it.
LEMMA RootProjected ==
  ASSUME NEW G, Spanned(G), \A e \in 1 .. Len(G.eind) : G.eind[e] # <<>>
  PROVE  Projected(G.eind, G.w, 0 .. G.n - 1, [x \in 0 .. G.n - 1 |-> x], G.eind, G.w)
<1> DEFINE E == G.eind
           W == G.w
           U == 0 .. G.n - 1
           F == [x \in U |-> x]
           m == Len(E)
           id == [e \in DOMAIN E |-> e]
<1>1. E \in Seq(Seq(U)) /\ Len(W) = m
  BY DEF Spanned
<1> HIDE DEF E, U, W
<1>2. m \in Nat /\ DOMAIN E = 1 .. m /\ E \in [1 .. m -> Seq(U)]
  BY <1>1, LenProperties
<1>3. ASSUME NEW e \in 1 .. m
      PROVE  E[e] \in Seq(U) /\ E[e] # <<>> /\ Range(E[e]) \subseteq U /\ Range(E[e]) # {}
  <2>1. E[e] \in Seq(U) /\ E[e] # <<>>
    BY <1>2 DEF E
  <2>2. Len(E[e]) \in Nat \ {0} /\ DOMAIN E[e] = 1 .. Len(E[e]) /\ E[e] \in [1 .. Len(E[e]) -> U]
    BY <2>1, EmptySeq, LenProperties
  <2>3. 1 \in DOMAIN E[e]
    BY <2>2
  <2>4. E[e][1] \in Range(E[e])
    BY <2>3 DEF Range
  <2>5. Range(E[e]) \subseteq U
    BY <2>2 DEF Range
  <2> QED
    BY <2>1, <2>4, <2>5
<1>4. Meeting(E, U) = 1 .. m
  <2>1. \A e \in 1 .. m : Range(E[e]) \cap U # {}
    BY <1>3
  <2> QED
    BY <1>2, <2>1 DEF Meeting
<1>5. id \in Seq(1 .. m) /\ Len(id) = m
  <2> HIDE DEF m
  <2> QED
    BY <1>2, CountUp
<1>6. Meets(E, U) = id
  <2> DEFINE X == 1 .. m
  <2>1. id \in Seq(X) /\ X \subseteq Meeting(E, U)
    BY <1>4, <1>5
  <2> HIDE DEF X, id
  <2>2. Among(id, Meeting(E, U)) = id
    BY <2>1, AmongAll
  <2> QED
    BY <2>2 DEF Meets, id
<1>7. ASSUME NEW e \in 1 .. m PROVE IsLeft(E, W, U, F, E, W, e, e)
  <2> DEFINE s == E[e]
  <2>1. s \in Seq(U) /\ s # <<>> /\ Range(s) \subseteq U
    BY <1>3
  <2>2. DOMAIN s = 1 .. Len(s) /\ s \in [1 .. Len(s) -> U]
    BY <2>1, LenProperties
  <2> HIDE DEF s
  <2>3. Among(s, U) = s
    BY <2>1, AmongAll
  <2>4. Mapped(s, F) = s
    <3>1. Mapped(s, F) = [j \in 1 .. Len(s) |-> F[s[j]]]
      BY <2>2 DEF Mapped
    <3>2. \A j \in 1 .. Len(s) : F[s[j]] = s[j]
      BY <2>2
    <3>3. s = [j \in 1 .. Len(s) |-> s[j]]
      BY <2>2
    <3> QED
      BY <3>1, <3>2, <3>3
  <2> HIDE DEF F
  <2> QED
    BY <2>1, <2>3, <2>4 DEF IsLeft, s
<1>8. DOMAIN id = 1 .. m /\ \A e \in 1 .. m : id[e] = e
  BY <1>2
<1> HIDE DEF id, m, F
<1>9. Projected(E, W, U, F, E, W)
  BY <1>1, <1>5, <1>6, <1>7, <1>8 DEF Projected, m
<1> QED
  BY <1>9 DEF E, W, U, F

\* What the step from a graph to its son needs to know of both, and of what the graph
\* stands for.
SonStep(X, E, F, G, S, p, k) ==
  /\ E \in Seq(Seq(X)) /\ Spanned(G) /\ Spanned(S)
  /\ p \in [0 .. G.n - 1 -> {0, 1}] /\ IsSon(G, S, p, k)
  /\ F \in [0 .. G.n - 1 -> Nat] /\ IsInjective(F)

\* A graph of n vertices, seen through F, is what is left of E.
Viewed(X, E, W, n, F, eind, w) ==
  /\ E \in Seq(Seq(X)) /\ n \in Nat /\ F \in [0 .. n - 1 -> Nat] /\ eind \in Seq(Seq(0 .. n - 1))
  /\ Projected(E, W, Range(F), F, eind, w)

\* What is left of an edge in the graph, vertex by vertex.
LEMMA LeftVertices ==
  ASSUME NEW X, NEW E, NEW W, NEW n, NEW F, NEW eind, NEW w, Viewed(X, E, W, n, F, eind, w),
         NEW j \in 1 .. Len(eind)
  PROVE  Range(E[Meets(E, Range(F))[j]]) \cap Range(F) = Through(F, Range(eind[j]))
<1>0. /\ E \in Seq(Seq(X)) /\ n \in Nat /\ F \in [0 .. n - 1 -> Nat] /\ eind \in Seq(Seq(0 .. n - 1))
      /\ Projected(E, W, Range(F), F, eind, w)
  BY DEF Viewed
<1> DEFINE U == Range(F)
           m == Meets(E, U)[j]
           V == 0 .. n - 1
<1>1. Len(Meets(E, U)) = Len(eind) /\ IsLeft(E, W, U, F, eind, w, m, j) /\ m \in 1 .. Len(E)
  <2>1. /\ DOMAIN Meets(E, U) = 1 .. Len(Meets(E, U))
        /\ Meets(E, U) \in [1 .. Len(Meets(E, U)) -> 1 .. Len(E)]
    BY <1>0, MeetsAre
  <2>2. Len(Meets(E, U)) = Len(eind)
    BY <1>0 DEF Projected
  <2>3. j \in DOMAIN Meets(E, U)
    BY <2>1, <2>2
  <2> QED
    BY <1>0, <2>1, <2>2, <2>3 DEF Projected
<1> HIDE DEF m, U
<1>2. Mapped(eind[j], F) = Among(E[m], U)
  BY <1>1 DEF IsLeft
<1>3. E[m] \in Seq(X)
  BY <1>0, <1>1, LenProperties
<1>4. eind[j] \in Seq(V) /\ F \in [V -> Nat]
  BY <1>0, LenProperties
<1> HIDE DEF V
<1>5. Range(Among(E[m], U)) = Range(E[m]) \cap U
  BY <1>3, AmongType
<1>6. IsMapped(Nat, eind[j], F, Mapped(eind[j], F))
  BY <1>4, MappedType
<1>7. Range(Mapped(eind[j], F)) = Through(F, Range(eind[j]))
  BY <1>6 DEF IsMapped, Through
<1> QED
  BY <1>2, <1>5, <1>7 DEF m, U

\* A vertex is on the side of the son just when what it stands for is under the son.
LEMMA SideSeparates ==
  ASSUME NEW n \in Nat, NEW F \in [0 .. n - 1 -> Nat], IsInjective(F), NEW p, NEW k
  PROVE  /\ Separates(0 .. n - 1, Nat, F, Side(n, p, k), Through(F, Side(n, p, k)))
         /\ Through(F, Side(n, p, k)) \subseteq Range(F)
<1>1. Side(n, p, k) \subseteq 0 .. n - 1
  BY DEF Side
<1>2. DOMAIN F = 0 .. n - 1
  OBVIOUS
<1>3. ASSUME NEW v \in 0 .. n - 1 PROVE v \in Side(n, p, k) <=> F[v] \in Through(F, Side(n, p, k))
  BY <1>1, <1>2 DEF Through, IsInjective
<1>4. Through(F, Side(n, p, k)) \subseteq Range(F)
  BY <1>1, <1>2 DEF Through, Range
<1> QED
  BY <1>3, <1>4 DEF Separates

\* The edges the son takes over are those of pHyper's edges that meet it.
LEMMA SonMeets ==
  ASSUME NEW X, NEW E, NEW W, NEW F, NEW G, NEW S, NEW p, NEW k, SonStep(X, E, F, G, S, p, k),
         Projected(E, W, Range(F), F, G.eind, G.w)
  PROVE  Meets(E, Through(F, Side(G.n, p, k)))
           = Mapped(SonEdges(G.eind, p, k), Meets(E, Range(F)))
<1> DEFINE U == Range(F)
           T == Through(F, Side(G.n, p, k))
           f == Meets(E, U)
           n == G.n
           eind == G.eind
           l == Len(eind)
           A == {i \in DOMAIN eind : \E v \in Range(eind[i]) : p[v] = k}
           id == [i \in DOMAIN eind |-> i]
           I == 1 .. l
           J == 1 .. Len(E)
<1>1. E \in Seq(Seq(X)) /\ n \in Nat /\ eind \in Seq(Seq(0 .. n - 1)) /\ F \in [0 .. n - 1 -> Nat] /\ IsInjective(F)
  BY DEF SonStep, Spanned
<1>2. Separates(0 .. n - 1, Nat, F, Side(n, p, k), T) /\ T \subseteq U
  BY <1>1, SideSeparates
<1>3. f \in [I -> J] /\ f \in Seq(J) /\ Len(f) = l /\ Range(f) = Meeting(E, U)
  <2>1. Len(f) = l
    BY DEF Projected
  <2> HIDE DEF l, U
  <2> QED
    BY <1>1, <2>1, MeetsAre
<1>4. l \in Nat /\ DOMAIN eind = I /\ eind \in [I -> Seq(0 .. n - 1)]
  BY <1>1, LenProperties
<1>5. id \in Seq(I) /\ Len(id) = l
  <2> HIDE DEF l
  <2> QED
    BY <1>4, CountUp
<1>6. ASSUME NEW j \in I PROVE j \in A <=> f[j] \in Meeting(E, T)
  <2>1. Range(E[f[j]]) \cap U = Through(F, Range(eind[j]))
    <3> DEFINE w == G.w
    <3>1. Viewed(X, E, W, n, F, eind, w) /\ j \in 1 .. Len(eind)
      BY <1>1 DEF Viewed
    <3> HIDE DEF U, T, n, eind, w, f, l
    <3>2. Range(E[Meets(E, Range(F))[j]]) \cap Range(F) = Through(F, Range(eind[j]))
      BY <3>1, LeftVertices
    <3> QED
      BY <3>2 DEF U, f
  <2>2. Range(eind[j]) \subseteq 0 .. n - 1
    <3>1. eind[j] \in Seq(0 .. n - 1)
      BY <1>4
    <3> DEFINE s == eind[j]
    <3> HIDE DEF s
    <3>2. DOMAIN s = 1 .. Len(s) /\ s \in [1 .. Len(s) -> 0 .. n - 1]
      BY <3>1, LenProperties DEF s
    <3>3. Range(s) \subseteq 0 .. n - 1
      BY <3>2 DEF Range
    <3> QED
      BY <3>3 DEF s
  <2>3. f[j] \in DOMAIN E
    <3>1. DOMAIN E = 1 .. Len(E)
      BY <1>1, LenProperties
    <3> QED
      BY <1>3, <3>1
  <2> HIDE DEF U, T, f, eind
  <2>4. ASSUME NEW v \in Range(eind[j]) PROVE p[v] = k <=> F[v] \in T
    BY <1>2, <2>2 DEF Separates, Side
  <2>5. j \in A <=> \E v \in Range(eind[j]) : F[v] \in T
    BY <1>4, <2>4
  <2>6. f[j] \in Meeting(E, T) <=> Range(E[f[j]]) \cap T # {}
    BY <2>3 DEF Meeting
  <2>7. Range(E[f[j]]) \cap T = Through(F, Range(eind[j])) \cap T
    BY <1>2, <2>1
  <2>8. Through(F, Range(eind[j])) \cap T # {} <=> \E v \in Range(eind[j]) : F[v] \in T
    BY DEF Through
  <2> QED
    BY <2>5, <2>6, <2>7, <2>8
<1>7. Separates(I, J, f, A, Meeting(E, T))
  BY <1>3, <1>6 DEF Separates
<1>8. Mapped(id, f) = f
  <2>1. DOMAIN id = I /\ \A j \in I : id[j] = j
    BY <1>4
  <2>2. f = [j \in I |-> f[j]]
    BY <1>3
  <2> HIDE DEF id, f, I
  <2> QED
    BY <2>1, <2>2 DEF Mapped
<1>9. SonEdges(eind, p, k) = Among(id, A)
  BY DEF SonEdges
<1>10. Meeting(E, T) \subseteq Meeting(E, U)
  BY <1>2 DEF Meeting
<1> DEFINE ids == [e \in DOMAIN E |-> e]
<1>11. f = Among(ids, Meeting(E, U)) /\ Meets(E, T) = Among(ids, Meeting(E, T))
  BY DEF Meets
<1>12. ids \in Seq(J)
  <2>1. Len(E) \in Nat /\ DOMAIN E = 1 .. Len(E)
    BY <1>1, LenProperties
  <2> QED
    BY <2>1, CountUp
<1> HIDE DEF U, T, f, id, A, ids, I, J, eind
<1>13. Mapped(Among(id, A), f) = Among(Mapped(id, f), Meeting(E, T))
  <2>1. id \in Seq(I)
    BY <1>5
  <2> DEFINE B == Meeting(E, T)
  <2>2. Separates(I, J, f, A, B)
    BY <1>7
  <2> HIDE DEF B
  <2>3. Mapped(Among(id, A), f) = Among(Mapped(id, f), B)
    BY <2>1, <2>2, AmongMapped
  <2> QED
    BY <2>3 DEF B
<1>14. Among(f, Meeting(E, T)) = Among(ids, Meeting(E, U) \cap Meeting(E, T))
  BY <1>11, <1>12, AmongAmong
<1>15. Meeting(E, U) \cap Meeting(E, T) = Meeting(E, T)
  BY <1>10
<1>16. Meets(E, T) = Mapped(SonEdges(eind, p, k), f)
  BY <1>8, <1>9, <1>11, <1>13, <1>14, <1>15
<1> QED
  BY <1>16 DEF T, f, U, eind

\* In the graph with the vertices under U, V of them in the edge R, part k is what is
\* under T.
Cut(R, U, T, V, F, p, k) ==
  T \subseteq U /\ R \cap U = Through(F, V) /\ \A v \in V : p[v] = k <=> F[v] \in T

\* All of V is in part k.
OnSide(V, p, k) == \A v \in V : p[v] = k

\* An edge is whole after the split just when it was whole before and is all on one
\* side.
LEMMA WholeAfter ==
  ASSUME NEW R, NEW U, NEW T, NEW V, NEW F, NEW p, NEW k, Cut(R, U, T, V, F, p, k)
  PROVE  R \subseteq T <=> OnSide(V, p, k) /\ R \subseteq U
<1>1. ASSUME R \subseteq T PROVE OnSide(V, p, k) /\ R \subseteq U
  <2>1. R \subseteq U
    BY <1>1 DEF Cut
  <2>2. \A v \in V : F[v] \in R \cap U
    BY DEF Through, Cut
  <2> QED
    BY <1>1, <2>1, <2>2 DEF OnSide, Cut
<1>2. ASSUME OnSide(V, p, k), R \subseteq U, NEW u \in R PROVE u \in T
  <2>1. u \in Through(F, V)
    BY <1>2 DEF Cut
  <2>2. PICK v \in V : u = F[v]
    BY <2>1 DEF Through
  <2> QED
    BY <1>2, <2>2 DEF OnSide, Cut
<1> QED
  BY <1>1, <1>2

\* What is left of pHyper in a graph is left in its sons, cut down once more.
LEMMA SonProjected ==
  ASSUME NEW X, NEW E, NEW W, NEW F, NEW G, NEW S, NEW p, NEW k, SonStep(X, E, F, G, S, p, k),
         Projected(E, W, Range(F), F, G.eind, G.w)
  PROVE  Projected(E, W, Through(F, Side(G.n, p, k)),
                   [x \in 0 .. S.n - 1 |-> F[S.mapForFather[x]]], S.eind, S.w)
<1> DEFINE U == Range(F)
           n == G.n
           V == Side(n, p, k)
           T == Through(F, V)
           H == [x \in 0 .. S.n - 1 |-> F[S.mapForFather[x]]]
           f == Meets(E, U)
           h == Meets(E, T)
           eind == G.eind
           edges == SonEdges(eind, p, k)
           lists == SonLists(eind, p, k)
           N == 0 .. n - 1
           M == 0 .. S.n - 1
           l == Len(edges)
<1>1. /\ E \in Seq(Seq(X)) /\ n \in Nat /\ eind \in Seq(Seq(N)) /\ F \in [N -> Nat] /\ IsInjective(F)
      /\ S.n \in Nat /\ S.eind \in Seq(Seq(M)) /\ Len(S.w) = Len(S.eind)
      /\ Spanned(G) /\ p \in [N -> {0, 1}] /\ IsSon(G, S, p, k)
  BY DEF SonStep, Spanned
<1>2. Separates(N, Nat, F, V, T) /\ T \subseteq U
  BY <1>1, SideSeparates
<1>3. h = Mapped(edges, f)
  BY SonMeets
<1>4. edges \in Seq(1 .. Len(eind)) /\ DOMAIN edges = 1 .. l /\ l \in Nat /\ Range(edges) = EdgesIn(eind, p, k)
  <2> HIDE DEF N, M, n, eind, l
  <2> QED
    BY <1>1, SonEdgesAre DEF l, N
<1>5. Keeps(eind, edges, V, lists)
  BY <1>1, SonListsAre
<1>6. Len(f) = Len(eind) /\ f \in [1 .. Len(eind) -> 1 .. Len(E)]
  <2>1. Len(f) = Len(eind)
    BY DEF Projected
  <2> HIDE DEF U, eind
  <2> QED
    BY <1>1, <2>1, MeetsAre
<1>7. /\ S.mapForFather \in [M -> N] /\ Len(S.eind) = l
      /\ \A e \in 1 .. Len(S.eind) :
           /\ Mapped(S.eind[e], S.mapForFather) = lists[e]
           /\ S.w[e] = SonWeight(G, p, k, edges[e])
  BY <1>1 DEF IsSon
<1>8. \A e \in 1 .. Len(eind) : IsLeft(E, W, U, F, eind, G.w, f[e], e)
  <2>1. DOMAIN f = 1 .. Len(eind)
    BY <1>6
  <2> QED
    BY <2>1 DEF Projected
<1>9. \A j \in 1 .. Len(eind) : Range(E[f[j]]) \cap U = Through(F, Range(eind[j]))
  <2> DEFINE w == G.w
  <2>1. Viewed(X, E, W, n, F, eind, w)
    BY <1>1 DEF Viewed
  <2> SUFFICES ASSUME NEW j \in 1 .. Len(eind)
               PROVE  Range(E[f[j]]) \cap U = Through(F, Range(eind[j]))
    OBVIOUS
  <2> HIDE DEF n, eind, w, f, U
  <2>2. Range(E[Meets(E, Range(F))[j]]) \cap Range(F) = Through(F, Range(eind[j]))
    BY <2>1, LeftVertices
  <2> QED
    BY <2>2 DEF f, U
<1> HIDE DEF U, V, T, f, h, edges, lists, eind, n
<1>10. h \in Seq(1 .. Len(E)) /\ Len(h) = l /\ \A e \in 1 .. l : h[e] = f[edges[e]]
  <2>1. IsMapped(1 .. Len(E), edges, f, Mapped(edges, f))
    BY <1>4, <1>6, MappedType
  <2> QED
    BY <1>3, <2>1 DEF IsMapped
<1>11. H = [x \in M |-> F[S.mapForFather[x]]]
  OBVIOUS
<1> HIDE DEF H
<1>12. ASSUME NEW e \in 1 .. l PROVE IsLeft(E, W, T, H, S.eind, S.w, h[e], e)
  <2> DEFINE j == edges[e]
             m == h[e]
             s == S.eind[e]
             g == eind[j]
             map == S.mapForFather
  <2>1. j \in 1 .. Len(eind) /\ m = f[j] /\ m \in 1 .. Len(E)
    <3>1. j \in 1 .. Len(eind)
      BY <1>4, LenProperties
    <3> QED
      BY <1>6, <1>10, <3>1
  <2>2. s \in Seq(M) /\ g \in Seq(N) /\ E[m] \in Seq(X)
    <3>1. e \in 1 .. Len(S.eind)
      BY <1>7
    <3> HIDE DEF M, N
    <3>2. s \in Seq(M)
      BY <1>1, <3>1, LenProperties
    <3>3. g \in Seq(N)
      BY <1>1, <2>1, LenProperties
    <3>4. E[m] \in Seq(X)
      BY <1>1, <2>1, LenProperties
    <3> QED
      BY <3>2, <3>3, <3>4
  <2>3. Mapped(s, map) = Among(g, V) /\ S.w[e] = SonWeight(G, p, k, j)
    BY <1>5, <1>7 DEF Keeps
  <2>4. IsLeft(E, W, U, F, eind, G.w, m, j)
    BY <1>8, <2>1
  <2>5. Mapped(g, F) = Among(E[m], U) /\ G.w[j] = IF Range(E[m]) \subseteq U THEN W[m] ELSE 0
    BY <2>4 DEF IsLeft
  <2>6. Range(E[m]) \cap U = Through(F, Range(g))
    BY <1>9, <2>1
  <2>7. \E v \in Range(g) : p[v] = k
    <3>1. j \in Range(edges)
      BY <1>4 DEF Range
    <3> QED
      BY <1>4, <3>1 DEF EdgesIn
  <2>8. Range(g) \subseteq N
    <3>1. DOMAIN g = 1 .. Len(g) /\ g \in [1 .. Len(g) -> N]
      BY <2>2, LenProperties
    <3> HIDE DEF g
    <3> QED
      BY <3>1 DEF Range
  <2>9. ASSUME NEW v \in Range(g) PROVE p[v] = k <=> F[v] \in T
    BY <1>2, <2>8 DEF Separates, V, Side
  <2>10. SonWeight(G, p, k, j) = IF \A v \in Range(g) : p[v] = k THEN G.w[j] ELSE 0
    BY DEF SonWeight, eind
  <2> HIDE DEF j, m, s, g, map, N, M
  <2>11. Mapped(s, H) = Among(E[m], T)
    <3>1. Mapped(Mapped(s, map), F) = Mapped(s, H)
      <4>1. map \in [M -> N] /\ F \in [N -> Nat] /\ s \in Seq(M)
        BY <1>1, <1>7, <2>2 DEF map
      <4>2. Composes(M, N, Nat, map, F, H)
        BY <1>11, <4>1 DEF Composes, map
      <4> QED
        BY <4>1, <4>2, MappedMapped
    <3>2. Mapped(Among(g, V), F) = Among(Mapped(g, F), T)
      BY <1>2, <2>2, AmongMapped
    <3>3. Among(Among(E[m], U), T) = Among(E[m], U \cap T)
      BY <2>2, AmongAmong
    <3>4. U \cap T = T
      BY <1>2
    <3> QED
      BY <2>3, <2>5, <3>1, <3>2, <3>3, <3>4
  <2>12. s # <<>>
    <3> SUFFICES ASSUME s = <<>> PROVE FALSE
      OBVIOUS
    <3>1. PICK v \in Range(g) : p[v] = k
      BY <2>7
    <3>2. v \in V
      BY <2>8, <3>1 DEF V, Side, N
    <3>3. Range(Among(g, V)) = Range(g) \cap V
      BY <2>2, AmongType
    <3>4. Mapped(<<>>, map) = <<>>
      BY DEF Mapped
    <3>5. Range(<<>>) = {}
      BY DEF Range
    <3> QED
      BY <2>3, <3>1, <3>2, <3>3, <3>4, <3>5
  <2>13. S.w[e] = IF Range(E[m]) \subseteq T THEN W[m] ELSE 0
    <3> DEFINE R == Range(E[m])
               Y == Range(g)
               wt == W[m]
    <3>1. Cut(R, U, T, Y, F, p, k)
      BY <1>2, <2>6, <2>9 DEF Cut
    <3>2. S.w[e] = IF OnSide(Y, p, k) THEN (IF R \subseteq U THEN wt ELSE 0) ELSE 0
      BY <2>3, <2>5, <2>10 DEF OnSide
    <3> HIDE DEF R, Y, wt
    <3>3. R \subseteq T <=> OnSide(Y, p, k) /\ R \subseteq U
      BY <3>1, WholeAfter
    <3>4. S.w[e] = IF R \subseteq T THEN wt ELSE 0
      BY <3>2, <3>3
    <3> QED
      BY <3>4 DEF R, wt
  <2> QED
    BY <2>11, <2>12, <2>13 DEF IsLeft, s, m
<1>13. DOMAIN h = 1 .. l
  BY <1>10, LenProperties
<1>14. Len(S.eind) = Len(h) /\ Len(S.w) = Len(h)
  BY <1>1, <1>7, <1>10
<1>15. Projected(E, W, T, H, S.eind, S.w)
  BY <1>12, <1>13, <1>14 DEF Projected, h
<1> QED
  BY <1>15 DEF T, V, H, n

\* The edges of graph i are what is left of pHyper's edges.
GraphProjects(t, i) ==
  Projected(t[1].eind, t[1].w, Under(t, i), Lift(t)[i], t[i].eind, t[i].w)

\* A son's edges are what is left, as the father's are.
LEMMA SonProjects ==
  ASSUME NEW t, Shaped(t), NEW i \in 2 .. Len(t), GraphProjects(t, t[i].fatherGraph)
  PROVE  GraphProjects(t, i)
<1> DEFINE f == t[i].fatherGraph
           F == Lift(t)[f]
           G == Core(t[f])
           S == Core(t[i])
           E == t[1].eind
           W == t[1].w
           X == 0 .. t[1].n - 1
<1>1. f \in 1 .. Len(t) /\ i \in 1 .. Len(t) /\ 1 \in 1 .. Len(t)
  BY SonOf
<1>2. PICK p \in [0 .. t[f].n - 1 -> {0, 1}], k \in {0, 1} : SonBy(t, i, p, k)
  BY SonOf
<1>3. Spanned(G) /\ Spanned(S)
  BY <1>1 DEF Shaped
<1>4. E \in Seq(Seq(X))
  <2>1. Spanned(Core(t[1]))
    BY <1>1 DEF Shaped
  <2> QED
    BY <2>1 DEF Spanned, Core
<1>5. F \in [0 .. G.n - 1 -> Nat] /\ IsInjective(F)
  BY <1>1, LiftIs, LiftInjective DEF Core
<1>6. SonStep(X, E, F, G, S, p, k)
  <2>1. p \in [0 .. G.n - 1 -> {0, 1}] /\ IsSon(G, S, p, k)
    BY <1>2 DEF SonBy, Core
  <2> HIDE DEF X, E, F, G, S
  <2> QED
    BY <1>3, <1>4, <1>5, <2>1 DEF SonStep
<1>7. Projected(E, W, Range(F), F, G.eind, G.w)
  BY DEF GraphProjects, Under, Core
<1>8. Projected(E, W, Through(F, Side(G.n, p, k)), [x \in 0 .. S.n - 1 |-> F[S.mapForFather[x]]], S.eind, S.w)
  <2> HIDE DEF X, E, F, G, S, W
  <2> QED
    BY <1>6, <1>7, SonProjected
<1>9. LiftsOver(t, i, f) /\ Under(t, i) = Through(F, Side(t[f].n, p, k))
  BY <1>2, SonLift
<1>10. Lift(t)[i] = [x \in 0 .. S.n - 1 |-> F[S.mapForFather[x]]]
  <2>1. Lift(t)[i] \in [0 .. t[i].n - 1 -> Nat]
    BY <1>1, LiftIs
  <2>2. S.n = t[i].n /\ S.mapForFather = t[i].mapForFather
    BY DEF Core
  <2>3. \A x \in 0 .. S.n - 1 : Lift(t)[i][x] = F[S.mapForFather[x]]
    BY <1>9, <2>2 DEF LiftsOver
  <2> HIDE DEF S, F
  <2> QED
    BY <2>1, <2>2, <2>3
<1>11. G.n = t[f].n /\ S.eind = t[i].eind /\ S.w = t[i].w
  BY DEF Core
<1> HIDE DEF S, F, G
<1> QED
  BY <1>8, <1>9, <1>10, <1>11 DEF GraphProjects

\* Every graph of the tree has what is left of pHyper's edges.
LEMMA AllProject ==
  ASSUME NEW t, Shaped(t)
  PROVE  \A i \in 1 .. Len(t) : GraphProjects(t, i)
<1> DEFINE n == Len(t)
           D == 1 .. n
           r == [i \in D |-> i]
           P == {i \in D : GraphProjects(t, i)}
<1>1. n \in Nat
  BY LenProperties DEF Shaped
<1>2. r \in [D -> 1 .. n] /\ \A i \in D : r[i] = i
  OBVIOUS
<1> HIDE DEF r
<1>3. GraphProjects(t, 1)
  <2> DEFINE G == Core(t[1])
  <2>1. 1 \in 1 .. n /\ Under(t, 1) = 0 .. t[1].n - 1
    BY UnderRoot
  <2>2. Lift(t)[1] = [x \in 0 .. t[1].n - 1 |-> x]
    <3>1. Lift(t)[1] = Above(t, Lift(t), 1)
      BY <2>1, LiftIs
    <3>2. Above(t, Lift(t), 1) = [x \in 0 .. t[1].n - 1 |-> x]
      BY DEF Above, Shaped, Rooted
    <3> QED
      BY <3>1, <3>2
  <2>3. Spanned(G) /\ \A e \in 1 .. Len(G.eind) : G.eind[e] # <<>>
    BY <2>1 DEF Shaped, Rooted
  <2>4. G.n = t[1].n /\ G.eind = t[1].eind /\ G.w = t[1].w
    BY DEF Core
  <2> HIDE DEF G
  <2>5. Projected(G.eind, G.w, 0 .. G.n - 1, [x \in 0 .. G.n - 1 |-> x], G.eind, G.w)
    BY <2>3, RootProjected
  <2> QED
    BY <2>1, <2>2, <2>4, <2>5 DEF GraphProjects
<1>4. ASSUME NEW i \in D, \A j \in D : r[j] < r[i] => j \in P
      PROVE  i \in P
  <2>1. CASE i = 1
    BY <1>3, <2>1
  <2>2. CASE i # 1
    <3>1. i \in 2 .. n
      BY <1>1, <2>2
    <3>2. t[i].fatherGraph \in 1 .. i - 1 /\ t[i].fatherGraph \in D
      BY <3>1, SonOf
    <3>3. t[i].fatherGraph \in P
      BY <1>1, <1>2, <1>4, <3>2
    <3> QED
      BY <3>1, <3>3, SonProjects
  <2> QED
    BY <2>1, <2>2
<1>5. \A i \in D : i \in P
  <2>1. n \in Nat /\ r \in [D -> 1 .. n]
    BY <1>1, <1>2
  <2> HIDE DEF P, D, n
  <2> QED
    BY <1>4, <2>1, RankInduction
<1> QED
  BY <1>5

\* The edges of every graph are what is left of pHyper's edges.
LEMMA ShapedProjects ==
  ASSUME Shaped(tree)
  PROVE  EdgesProject
<1>1. DOMAIN tree = 1 .. Len(tree)
  BY LenProperties DEF Shaped
<1> SUFFICES ASSUME NEW i \in 1 .. Len(tree)
             PROVE  LET met == Met(tree, i)
                    IN  /\ Len(tree[i].eind) = Len(met) /\ Len(tree[i].w) = Len(met)
                        /\ \A e \in DOMAIN met :
                             LET whole == tree[1].eind[met[e]]
                             IN  /\ [j \in DOMAIN tree[i].eind[e] |-> Lift(tree)[i][tree[i].eind[e][j]]]
                                      = Among(whole, Under(tree, i))
                                 /\ tree[i].eind[e] # <<>>
                                 /\ tree[i].w[e] = IF Range(whole) \subseteq Under(tree, i)
                                                     THEN tree[1].w[met[e]] ELSE 0
  BY <1>1 DEF EdgesProject
<1>2. GraphProjects(tree, i)
  BY AllProject
<1>3. Met(tree, i) = Meets(tree[1].eind, Under(tree, i))
  BY DEF Met, Meets, Meeting
<1> DEFINE met == Meets(tree[1].eind, Under(tree, i))
           s(e) == tree[i].eind[e]
<1>4. \A e : Mapped(s(e), Lift(tree)[i]) = [j \in DOMAIN s(e) |-> Lift(tree)[i][s(e)[j]]]
  BY DEF Mapped
<1>5. Len(tree[i].eind) = Len(met) /\ Len(tree[i].w) = Len(met)
  BY <1>2 DEF GraphProjects, Projected
<1>6. \A e \in DOMAIN met : IsLeft(tree[1].eind, tree[1].w, Under(tree, i), Lift(tree)[i], tree[i].eind, tree[i].w, met[e], e)
  BY <1>2 DEF GraphProjects, Projected
<1> HIDE DEF met
<1>7. \A e \in DOMAIN met :
        LET whole == tree[1].eind[met[e]]
        IN  /\ [j \in DOMAIN tree[i].eind[e] |-> Lift(tree)[i][tree[i].eind[e][j]]]
                 = Among(whole, Under(tree, i))
            /\ tree[i].eind[e] # <<>>
            /\ tree[i].w[e] = IF Range(whole) \subseteq Under(tree, i)
                                THEN tree[1].w[met[e]] ELSE 0
  <2> SUFFICES ASSUME NEW e \in DOMAIN met
               PROVE  LET whole == tree[1].eind[met[e]]
                      IN  /\ [j \in DOMAIN tree[i].eind[e] |-> Lift(tree)[i][tree[i].eind[e][j]]]
                               = Among(whole, Under(tree, i))
                          /\ tree[i].eind[e] # <<>>
                          /\ tree[i].w[e] = IF Range(whole) \subseteq Under(tree, i)
                                              THEN tree[1].w[met[e]] ELSE 0
    OBVIOUS
  <2>1. /\ Mapped(s(e), Lift(tree)[i]) = Among(tree[1].eind[met[e]], Under(tree, i))
        /\ s(e) # <<>>
        /\ tree[i].w[e] = IF Range(tree[1].eind[met[e]]) \subseteq Under(tree, i) THEN tree[1].w[met[e]] ELSE 0
    BY <1>6 DEF IsLeft
  <2> QED
    BY <1>4, <2>1
<1> QED
  BY <1>3, <1>5, <1>7 DEF met

-----------------------------------------------------------------------------
(***************************************************************************)
(* The queue of doHmetis and its invariant.                                *)
(***************************************************************************)

\* The queue of doHmetis: graphs of the tree that have no sons yet, none twice.
Waits(t, q) ==
  /\ q \in Seq(1 .. Len(t)) /\ IsInjective(q)
  /\ \A k \in 1 .. Len(q) : Ends(t, q[k])

\* Graph i is not queued.
Taken(q, i) == \A k \in 1 .. Len(q) : q[k] # i

\* The graph at the front, and the queue without it.
LEMMA WaitsTail ==
  ASSUME NEW t, NEW q, Waits(t, q), q # <<>>
  PROVE  /\ Head(q) \in 1 .. Len(t) /\ Ends(t, Head(q))
         /\ Waits(t, Tail(q)) /\ Taken(Tail(q), Head(q))
<1> DEFINE X == 1 .. Len(t)
           n == Len(q)
           r == Tail(q)
<1>1. q \in Seq(X) /\ IsInjective(q) /\ n \in Nat /\ DOMAIN q = 1 .. n
  BY LenProperties DEF Waits
<1> HIDE DEF X
<1>2. n \in Nat \ {0} /\ Head(q) = q[1] /\ Head(q) \in X
  BY <1>1, HeadTailProperties, EmptySeq
<1>3. r \in Seq(X) /\ Len(r) = n - 1 /\ \A k \in 1 .. n - 1 : r[k] = q[k + 1]
  BY <1>1, HeadTailProperties
<1>4. DOMAIN r = 1 .. n - 1
  BY <1>3, LenProperties
<1> HIDE DEF r
<1>5. \A k \in 1 .. n : Ends(t, q[k])
  BY DEF Waits
<1> HIDE DEF n
<1>6. \A k \in 1 .. n - 1 : k + 1 \in 1 .. n /\ k + 1 # 1
  BY <1>2
<1>7. 1 \in 1 .. n
  BY <1>2
<1>8. Ends(t, Head(q))
  BY <1>2, <1>5, <1>7
<1>9. Taken(r, Head(q))
  BY <1>1, <1>2, <1>3, <1>6, <1>7 DEF Taken, IsInjective
<1>10. IsInjective(r)
  <2> SUFFICES ASSUME NEW a \in 1 .. n - 1, NEW b \in 1 .. n - 1, r[a] = r[b] PROVE a = b
    BY <1>4 DEF IsInjective
  <2>1. q[a + 1] = q[b + 1]
    BY <1>3
  <2>2. a + 1 = b + 1
    BY <1>1, <1>6, <2>1 DEF IsInjective
  <2> QED
    BY <1>2, <2>2
<1>11. \A k \in 1 .. n - 1 : Ends(t, r[k])
  BY <1>3, <1>5, <1>6
<1> QED
  BY <1>2, <1>3, <1>8, <1>9, <1>10, <1>11 DEF Waits, r, X

\* The queue while the graph that was taken from it gets its sons.
LEMMA WaitsGrows ==
  ASSUME NEW t, NEW u, NEW q, NEW gi \in 1 .. Len(t), NEW left, NEW right, Shaped(t),
         Waits(t, q), Taken(q, gi), Grown(t, u, gi, left, right)
  PROVE  Waits(u, q) /\ Taken(q, Len(t) + 1) /\ Taken(q, Len(t) + 2)
<1> DEFINE n == Len(t)
           m == Len(q)
<1>1. n \in Nat /\ Len(u) = n + 2
  BY LenProperties DEF Shaped, Grown
<1>2. q \in Seq(1 .. n) /\ m \in Nat /\ q \in [1 .. m -> 1 .. n]
  BY LenProperties DEF Waits
<1> HIDE DEF n, m
<1>3. q \in Seq(1 .. n + 2)
  <2>1. 1 .. n \subseteq 1 .. n + 2
    BY <1>1
  <2> QED
    BY <1>2, <2>1, SeqMonotonic
<1>4. ASSUME NEW k \in 1 .. m
      PROVE  Ends(u, q[k]) /\ q[k] # n + 1 /\ q[k] # n + 2
  <2> DEFINE i == q[k]
  <2>1. i \in 1 .. n
    BY <1>2
  <2>2. i # gi /\ Ends(t, i)
    BY DEF Taken, Waits, m
  <2> HIDE DEF i
  <2>3. u[i].leftSon = t[i].leftSon /\ u[i].rightSon = t[i].rightSon
    BY <2>1, <2>2 DEF Grown, n
  <2>4. Ends(u, i)
    BY <2>2, <2>3 DEF Ends
  <2>5. i # n + 1 /\ i # n + 2
    BY <1>1, <2>1
  <2> QED
    BY <2>4, <2>5 DEF i
<1>5. Waits(u, q)
  BY <1>1, <1>3, <1>4 DEF Waits, m
<1> QED
  BY <1>4, <1>5 DEF Taken, m, n

\* One more graph in the queue.
LEMMA WaitsAppend ==
  ASSUME NEW t, NEW q, Waits(t, q), NEW i \in 1 .. Len(t), Ends(t, i), Taken(q, i)
  PROVE  Waits(t, Append(q, i))
<1> DEFINE X == 1 .. Len(t)
           n == Len(q)
           r == Append(q, i)
<1>1. q \in Seq(X) /\ n \in Nat /\ IsInjective(q) /\ DOMAIN q = 1 .. n
  BY LenProperties DEF Waits
<1>2. \A k \in 1 .. n : Ends(t, q[k]) /\ q[k] # i
  BY DEF Waits, Taken
<1>3. r \in Seq(X) /\ Len(r) = n + 1 /\ (\A k \in 1 .. n : r[k] = q[k]) /\ r[n + 1] = i
  BY <1>1, AppendProperties
<1>4. DOMAIN r = 1 .. n + 1
  BY <1>3, LenProperties
<1> HIDE DEF r, n, X
<1>5. \A k \in 1 .. n + 1 : k \in 1 .. n \/ k = n + 1
  BY <1>1
<1>6. \A k \in 1 .. n + 1 : Ends(t, r[k])
  BY <1>2, <1>3, <1>5
<1>7. ASSUME NEW a \in 1 .. n + 1, NEW b \in 1 .. n + 1, r[a] = r[b]
      PROVE  a = b
  <2>1. CASE a \in 1 .. n /\ b \in 1 .. n
    BY <1>1, <1>3, <1>7, <2>1 DEF IsInjective
  <2>2. CASE a \in 1 .. n /\ b = n + 1
    BY <1>2, <1>3, <1>7, <2>2
  <2>3. CASE a = n + 1 /\ b \in 1 .. n
    BY <1>2, <1>3, <1>7, <2>3
  <2> QED
    BY <1>5, <2>1, <2>2, <2>3
<1>8. IsInjective(r)
  BY <1>4, <1>7 DEF IsInjective
<1> QED
  BY <1>3, <1>6, <1>8 DEF Waits, r, X

\* Two sons at the end of the queue, one after the other.
LEMMA PairAppended ==
  ASSUME NEW X, NEW q \in Seq(X), NEW a \in X, NEW b \in X
  PROVE  q \o <<a, b>> = Append(Append(q, a), b)
<1> DEFINE n == Len(q)
           two == <<a, b>>
           l == q \o two
           r == Append(Append(q, a), b)
<1>1. n \in Nat /\ two \in Seq(X) /\ Len(two) = 2 /\ two[1] = a /\ two[2] = b
  BY LenProperties
<1> HIDE DEF two
<1>2. /\ l \in Seq(X) /\ Len(l) = n + 2
      /\ \A i \in 1 .. n + 2 : l[i] = IF i <= n THEN q[i] ELSE two[i - n]
  <2>1. /\ l \in Seq(X) /\ Len(l) = Len(q) + Len(two)
        /\ \A i \in 1 .. Len(q) + Len(two) : l[i] = IF i <= Len(q) THEN q[i] ELSE two[i - Len(q)]
    BY <1>1, ConcatProperties
  <2> HIDE DEF l
  <2> QED
    BY <1>1, <2>1
<1>3. /\ Append(q, a) \in Seq(X) /\ Len(Append(q, a)) = n + 1 /\ Append(q, a)[n + 1] = a
      /\ \A i \in 1 .. n : Append(q, a)[i] = q[i]
  BY AppendProperties
<1>4. /\ r \in Seq(X) /\ Len(r) = (n + 1) + 1 /\ r[(n + 1) + 1] = b
      /\ \A i \in 1 .. n + 1 : r[i] = Append(q, a)[i]
  BY <1>3, AppendProperties
<1> HIDE DEF n, l, r
<1>5. ASSUME NEW i \in 1 .. n + 2
      PROVE  l[i] = r[i]
  <2>1. CASE i \in 1 .. n
    <3>1. i \in 1 .. n + 1 /\ i <= n
      BY <1>1, <2>1
    <3> QED
      BY <1>2, <1>3, <1>4, <2>1, <3>1
  <2>2. CASE i = n + 1
    <3>1. i \in 1 .. n + 1 /\ ~ i <= n /\ i - n = 1
      BY <1>1, <2>2
    <3> QED
      BY <1>1, <1>2, <1>3, <1>4, <2>2, <3>1
  <2>3. CASE i = n + 2
    <3>1. ~ i <= n /\ i - n = 2 /\ i = (n + 1) + 1
      BY <1>1, <2>3
    <3> QED
      BY <1>1, <1>2, <1>4, <2>3, <3>1
  <2> QED
    BY <1>1, <2>1, <2>2, <2>3
<1>6. Len(r) = n + 2
  BY <1>1, <1>4
<1>7. l = r
  BY <1>2, <1>4, <1>5, <1>6, SeqEqual
<1> QED
  BY <1>7 DEF l, r, two

\* What dfsForWriteParts leaves behind.
Numbered ==
  /\ part = [v \in 0 .. tree[1].n - 1 |-> PartOf(tree, v)]
  /\ partnum = Len(LeafSeq(tree)[1])

\* The inductive invariant of doHmetis, which mergeParts and doWriting leave alone: the
\* graphs are a tree that createSubGraph has made, what is queued has no sons yet, and
\* pMyGraph is set by the first split.
SplitInv ==
  /\ Shaped(tree)
  /\ pc = "split" => Waits(tree, subGraph)
  /\ pMyGraph = 0 => Len(tree) = 1
  /\ pc # "split" => Numbered

\* doHmetis begins with pHyper.
LEMMA InitSplit == Init => SplitInv
<1> SUFFICES ASSUME Init PROVE SplitInv
  OBVIOUS
<1>1. PICK r \in Roots : tree = <<Node(r.n, r.eind, r.w, 0, <<>>)>>
  BY DEF Init, SplitInit
<1>2. Shaped(tree) /\ Ends(tree, 1) /\ Len(tree) = 1
  BY <1>1, ShapedRoot
<1>3. pc = "split" /\ subGraph = <<1>>
  BY DEF Init, SplitInit
<1>4. Waits(tree, subGraph)
  <2>1. subGraph \in Seq(1 .. Len(tree)) /\ Len(subGraph) = 1 /\ subGraph[1] = 1
    BY <1>2, <1>3
  <2>2. DOMAIN subGraph = 1 .. 1
    BY <2>1, LenProperties
  <2>3. IsInjective(subGraph)
    BY <2>2 DEF IsInjective
  <2>4. \A k \in 1 .. Len(subGraph) : k = 1
    BY <2>1
  <2>5. \A k \in 1 .. Len(subGraph) : Ends(tree, subGraph[k])
    BY <1>2, <2>1, <2>4
  <2> QED
    BY <2>1, <2>3, <2>5 DEF Waits
<1> QED
  BY <1>2, <1>3, <1>4 DEF SplitInv

\* What a split does to the tree, and what it leaves to look at.
Branches(t, gi, p, u) ==
  LET left  == createSubGraph(t[gi], gi, p, 0)
      right == createSubGraph(t[gi], gi, p, 1)
  IN  /\ Grown(t, u, gi, left, right) /\ Shaped(u)
      /\ Len(t) + 1 \in 1 .. Len(u) /\ Len(t) + 2 \in 1 .. Len(u)
      /\ Ends(u, Len(t) + 1) /\ Ends(u, Len(t) + 2)
      /\ u[Len(t) + 1].n = left.n /\ u[Len(t) + 2].n = right.n
      /\ left.n \in Nat /\ right.n \in Nat /\ left.n + right.n = t[gi].n

\* The tree after a split.
LEMMA SplitTreeGrows ==
  ASSUME NEW t, Shaped(t), NEW gi \in 1 .. Len(t), Ends(t, gi),
         NEW p \in [0 .. t[gi].n - 1 -> {0, 1}], NEW u,
         u = [t EXCEPT ![gi].leftSon = Len(t) + 1, ![gi].rightSon = Len(t) + 2]
               \o <<createSubGraph(t[gi], gi, p, 0), createSubGraph(t[gi], gi, p, 1)>>
  PROVE  Branches(t, gi, p, u)
<1> DEFINE G == t[gi]
           L == createSubGraph(G, gi, p, 0)
           R == createSubGraph(G, gi, p, 1)
           n == Len(t)
<1>0. t \in Seq(Hypergraphs) /\ n \in Nat
  BY LenProperties DEF Shaped
<1>1. G \in Hypergraphs /\ Spanned(Core(G)) /\ gi \in Nat
  BY <1>0, ElementOfSeq DEF Shaped
<1>2. /\ L \in Hypergraphs /\ L.leftSon = 0 /\ L.rightSon = 0
      /\ Spanned(Core(L)) /\ IsSon(Core(G), Core(L), p, 0)
  <2>1. NewSon(t[gi], gi, p, 0, L)
    BY <1>1, SonIs
  <2> HIDE DEF L
  <2> QED
    BY <2>1 DEF NewSon
<1>3. /\ R \in Hypergraphs /\ R.leftSon = 0 /\ R.rightSon = 0
      /\ Spanned(Core(R)) /\ IsSon(Core(G), Core(R), p, 1)
  <2>1. NewSon(t[gi], gi, p, 1, R)
    BY <1>1, SonIs
  <2> HIDE DEF R
  <2> QED
    BY <2>1 DEF NewSon
<1>4. Grown(t, u, gi, L, R)
  <2> DEFINE grown == [t EXCEPT ![gi].leftSon = Len(t) + 1, ![gi].rightSon = Len(t) + 2] \o <<L, R>>
  <2>1. u = grown
    OBVIOUS
  <2>2. L \in Hypergraphs /\ R \in Hypergraphs /\ t \in Seq(Hypergraphs)
    BY <1>0, <1>2, <1>3
  <2> HIDE DEF L, R
  <2>3. Grown(t, grown, gi, L, R)
    BY <2>2, TreeGrows
  <2> HIDE DEF grown
  <2> QED
    BY <2>1, <2>3
<1>5. Shaped(u)
  BY <1>4, ShapedGrows
<1>6. Len(u) = n + 2 /\ u[n + 1] = L /\ u[n + 2] = R
  BY <1>4 DEF Grown
<1>7. n + 1 \in 1 .. Len(u) /\ n + 2 \in 1 .. Len(u)
  <2> HIDE DEF n
  <2> QED
    BY <1>0, <1>6
<1>8. Ends(u, n + 1) /\ Ends(u, n + 2)
  BY <1>2, <1>3, <1>6 DEF Ends
<1>9. L.n \in Nat /\ R.n \in Nat /\ L.n + R.n = G.n
  <2> DEFINE A == Core(G)
             B == Core(L)
             C == Core(R)
  <2>1. A.n = G.n /\ B.n = L.n /\ C.n = R.n
    BY DEF Core
  <2>2. p \in [0 .. A.n - 1 -> {0, 1}]
    BY <2>1
  <2>3. Spanned(A) /\ Spanned(B) /\ Spanned(C) /\ IsSon(A, B, p, 0) /\ IsSon(A, C, p, 1)
    BY <1>1, <1>2, <1>3
  <2> HIDE DEF A, B, C, G, L, R
  <2>4. B.n \in Nat /\ C.n \in Nat /\ B.n + C.n = A.n
    BY <2>2, <2>3, SonsCount
  <2> QED
    BY <2>1, <2>4
<1> QED
  BY <1>4, <1>5, <1>6, <1>7, <1>8, <1>9 DEF Branches

\* A split, as a step of the tree and of the queue.
LEMMA PartedIs ==
  ASSUME SplitInv, NEW p \in [0 .. Current.n - 1 -> {0, 1}], Parted(p)
  PROVE  LET gi    == Head(subGraph)
             left  == createSubGraph(tree[gi], gi, p, 0)
             right == createSubGraph(tree[gi], gi, p, 1)
         IN  /\ gi \in 1 .. Len(tree) /\ Branches(tree, gi, p, tree')
             /\ subGraph' = QueueSons(left, right)
<1> DEFINE gi == Head(subGraph)
           L == createSubGraph(tree[gi], gi, p, 0)
           R == createSubGraph(tree[gi], gi, p, 1)
<1>1. Shaped(tree) /\ Waits(tree, subGraph) /\ subGraph # <<>>
  BY DEF SplitInv, Parted
<1>2. gi \in 1 .. Len(tree) /\ Ends(tree, gi)
  BY <1>1, WaitsTail
<1>3. p \in [0 .. tree[gi].n - 1 -> {0, 1}]
  BY DEF Current
<1>4. tree' = [tree EXCEPT ![gi].leftSon = Len(tree) + 1, ![gi].rightSon = Len(tree) + 2] \o <<L, R>>
  BY DEF Parted, Current
<1>5. subGraph' = QueueSons(L, R)
  BY DEF Parted, Current
<1> HIDE DEF gi
<1>6. Branches(tree, gi, p, tree')
  BY <1>1, <1>2, <1>3, <1>4, SplitTreeGrows
<1> QED
  BY <1>2, <1>5, <1>6 DEF gi

\* The queue after a split.
LEMMA PartedWaits ==
  ASSUME SplitInv, NEW p \in [0 .. Current.n - 1 -> {0, 1}], Parted(p)
  PROVE  Waits(tree', subGraph')
<1> DEFINE gi == Head(subGraph)
           left == createSubGraph(tree[gi], gi, p, 0)
           right == createSubGraph(tree[gi], gi, p, 1)
           q == Tail(subGraph)
           a == Len(tree) + 1
           b == Len(tree) + 2
           u == tree'
<1>1. gi \in 1 .. Len(tree) /\ Branches(tree, gi, p, u) /\ subGraph' = QueueSons(left, right)
  BY PartedIs
<1>2. Shaped(tree) /\ Waits(tree, subGraph) /\ subGraph # <<>>
  BY DEF SplitInv, Parted
<1>3. Waits(tree, q) /\ Taken(q, gi)
  BY <1>2, WaitsTail
<1>4. Grown(tree, u, gi, left, right) /\ a \in 1 .. Len(u) /\ b \in 1 .. Len(u) /\ Ends(u, a) /\ Ends(u, b)
  BY <1>1 DEF Branches
<1>5. subGraph' = q \/ subGraph' = q \o <<a, b>>
  BY <1>1 DEF QueueSons
<1>0. Len(tree) \in Nat
  BY <1>2, LenProperties DEF Shaped
<1>9. a # b
  BY <1>0
<1> HIDE DEF gi, left, right, q, u
<1>6. Waits(u, q) /\ Taken(q, a) /\ Taken(q, b)
  BY <1>1, <1>2, <1>3, <1>4, WaitsGrows
<1> HIDE DEF a, b
<1>7. Waits(u, Append(q, a))
  BY <1>4, <1>6, WaitsAppend
<1>8. Taken(Append(q, a), b)
  <2>1. q \in Seq(1 .. Len(u))
    BY <1>6 DEF Waits
  <2> DEFINE r == Append(q, a)
             n == Len(q)
  <2>2. n \in Nat /\ Len(r) = n + 1 /\ (\A k \in 1 .. n : r[k] = q[k]) /\ r[n + 1] = a
    BY <1>4, <2>1, AppendProperties, LenProperties
  <2>3. \A k \in 1 .. n : q[k] # b
    BY <1>6 DEF Taken
  <2> HIDE DEF r, n
  <2>4. \A k \in 1 .. n + 1 : k \in 1 .. n \/ k = n + 1
    BY <2>2
  <2>5. \A k \in 1 .. n + 1 : r[k] # b
    BY <1>9, <2>2, <2>3, <2>4
  <2> QED
    BY <2>2, <2>5 DEF Taken, r
<1>10. Waits(u, Append(Append(q, a), b))
  BY <1>4, <1>7, <1>8, WaitsAppend
<1>11. q \o <<a, b>> = Append(Append(q, a), b)
  <2>1. q \in Seq(1 .. Len(u))
    BY <1>6 DEF Waits
  <2> DEFINE X == 1 .. Len(u)
  <2> HIDE DEF X
  <2>2. q \in Seq(X) /\ a \in X /\ b \in X
    BY <1>4, <2>1 DEF X
  <2> QED
    BY <2>2, PairAppended
<1> QED
  BY <1>5, <1>6, <1>10, <1>11 DEF u

\* Every step of doHmetis keeps the invariant.
LEMMA SplitKeeps ==
  ASSUME SplitInv, SplitStep
  PROVE  SplitInv'
<1>0. Shaped(tree) /\ Waits(tree, subGraph) /\ (pMyGraph = 0 => Len(tree) = 1)
  BY DEF SplitInv, SplitStep, TooSmall, NotParted, Parted, dfsForWriteParts
<1>1. CASE TooSmall
  <2>1. subGraph # <<>> /\ subGraph' = Tail(subGraph) /\ pc = "split"
        /\ pc' = pc /\ tree' = tree /\ pMyGraph' = pMyGraph
    BY <1>1 DEF TooSmall
  <2>2. Waits(tree, Tail(subGraph))
    BY <1>0, <2>1, WaitsTail
  <2>3. Waits(tree', subGraph')
    BY <2>1, <2>2
  <2> QED
    BY <1>0, <2>1, <2>3 DEF SplitInv
<1>2. CASE NotParted
  <2>1. subGraph # <<>> /\ subGraph' = Tail(subGraph) /\ pc = "split" /\ pc' = pc /\ tree' = tree
    BY <1>2 DEF NotParted
  <2>2. Waits(tree, Tail(subGraph)) /\ Head(subGraph) \in 1 .. Len(tree)
    BY <1>0, <2>1, WaitsTail
  <2>3. Waits(tree', subGraph')
    BY <2>1, <2>2
  <2>4. pMyGraph' = 0 => pMyGraph = 0
    <3>1. Head(subGraph) # 0
      BY <2>2
    <3> QED
      BY <1>2, <3>1 DEF NotParted, KeepGraph
  <2> QED
    BY <1>0, <2>1, <2>3, <2>4 DEF SplitInv
<1>3. CASE subGraph # <<>> /\ \E p \in [0 .. Current.n - 1 -> {0, 1}] : Parted(p)
  <2>1. PICK p \in [0 .. Current.n - 1 -> {0, 1}] : Parted(p)
    BY <1>3
  <2>2. Waits(tree', subGraph')
    BY <2>1, PartedWaits
  <2> DEFINE gi == Head(subGraph)
  <2>3. gi \in 1 .. Len(tree) /\ Branches(tree, gi, p, tree')
    BY <2>1, PartedIs
  <2>4. Shaped(tree') /\ Len(tree) >= 1
    BY <1>0, <2>3 DEF Branches, Shaped
  <2>6. pMyGraph' # 0
    <3>1. gi # 0
      BY <2>3
    <3>2. pMyGraph' = IF tree[gi].fatherGraph = 0 THEN gi ELSE pMyGraph
      BY <2>1 DEF Parted, KeepGraph, Current
    <3>3. CASE pMyGraph = 0
      <4>1. Len(tree) = 1 /\ gi \in 1 .. Len(tree)
        BY <1>0, <2>3, <3>3
      <4>2. gi = 1
        <5> HIDE DEF gi
        <5> QED
          BY <4>1
      <4>3. tree[1].fatherGraph = 0
        BY <1>0 DEF Shaped, Rooted
      <4> QED
        BY <3>2, <4>2, <4>3, <3>1
    <3> HIDE DEF gi
    <3> QED
      BY <3>1, <3>2, <3>3
  <2>7. pc' = "split"
    BY <2>1 DEF Parted
  <2> QED
    BY <2>2, <2>4, <2>6, <2>7 DEF SplitInv
<1>4. CASE dfsForWriteParts
  <2>1. /\ pc' = "merge" /\ tree' = tree /\ pMyGraph' = pMyGraph
        /\ part' = [v \in UNION {Under(tree, i) : i \in Range(LeafSeq(tree)[1])} |-> PartOf(tree, v)]
        /\ partnum' = Len(LeafSeq(tree)[1])
    BY <1>4 DEF dfsForWriteParts
  <2>2. UNION {Under(tree, i) : i \in Range(LeafSeq(tree)[1])} = 0 .. tree[1].n - 1
    BY <1>0, LeavesCover
  <2>3. part' = [v \in 0 .. tree[1].n - 1 |-> PartOf(tree, v)]
    BY <2>1, <2>2
  <2>4. Numbered'
    BY <2>1, <2>3 DEF Numbered
  <2> QED
    BY <1>0, <2>1, <2>4 DEF SplitInv
<1> QED
  BY <1>1, <1>2, <1>3, <1>4 DEF SplitStep

\* mergeParts and doWriting leave the tree and the parts alone.
LEMMA NextSplit == SplitInv /\ [Next]_vars => SplitInv'
<1> SUFFICES ASSUME SplitInv, [Next]_vars
             PROVE  SplitInv'
  OBVIOUS
<1>1. CASE SplitStep
  BY <1>1, SplitKeeps
<1> DEFINE Still == /\ tree' = tree /\ pMyGraph' = pMyGraph /\ part' = part /\ partnum' = partnum
<1>2. ASSUME Still, pc # "split", pc' # "split"
      PROVE  SplitInv'
  <2>1. Numbered
    BY <1>2 DEF SplitInv
  <2>2. Numbered'
    BY <1>2, <2>1 DEF Numbered
  <2> QED
    BY <1>2, <2>2 DEF SplitInv
<1>3. CASE MergeRound
  BY <1>2, <1>3 DEF MergeRound, splitVars
<1>4. CASE EndMerge
  BY <1>2, <1>4 DEF EndMerge
<1>5. CASE WildGraph
  BY <1>2, <1>5 DEF WildGraph
<1>6. CASE WriteLine
  BY <1>2, <1>6 DEF WriteLine, splitVars
<1>7. CASE EndWrite
  BY <1>2, <1>7 DEF EndWrite
<1>8. CASE UNCHANGED vars
  <2>1. Still /\ pc' = pc /\ subGraph' = subGraph
    BY <1>8 DEF vars, splitVars
  <2>2. pc # "split" => Numbered'
    <3> SUFFICES ASSUME pc # "split" PROVE Numbered'
      OBVIOUS
    <3>1. Numbered
      BY DEF SplitInv
    <3> QED
      BY <2>1, <3>1 DEF Numbered
  <2> QED
    BY <2>1, <2>2 DEF SplitInv
<1>9. CASE Closed
  BY <1>8, <1>9 DEF Closed
<1> QED
  BY <1>1, <1>3, <1>4, <1>5, <1>6, <1>7, <1>8, <1>9 DEF Next

\* The invariant holds throughout.
LEMMA SplitHolds == Spec => []SplitInv
<1> QED
  BY InitSplit, NextSplit, PTL DEF Spec

\* Vertices of pHyper have the same part if and only if one leaf has both of them.
LEMMA SamePart ==
  ASSUME NEW t, Shaped(t), NEW u \in 0 .. t[1].n - 1, NEW v \in 0 .. t[1].n - 1
  PROVE  /\ PartOf(t, u) = PartOf(t, v)
              <=> \A i \in 1 .. Len(t) : t[i].leftSon = 0 => (u \in Under(t, i) <=> v \in Under(t, i))
         /\ (\E i \in Range(LeafSeq(t)[1]) : {u, v} \subseteq Under(t, i)) => PartOf(t, u) = PartOf(t, v)
<1> DEFINE s == LeafSeq(t)[1]
           j == PartOf(t, u)
           k == PartOf(t, v)
<1>1. s \in Seq(1 .. Len(t)) /\ DOMAIN s = 1 .. Len(s) /\ Tiles(t, s, 0 .. t[1].n - 1)
  BY LeavesAre
<1>2. /\ j + 1 \in DOMAIN s /\ j \in 0 .. Len(s) - 1 /\ u \in Under(t, s[j + 1])
      /\ \A m \in DOMAIN s : u \in Under(t, s[m]) => m = j + 1
  BY PartOfIs
<1>3. /\ k + 1 \in DOMAIN s /\ k \in 0 .. Len(s) - 1 /\ v \in Under(t, s[k + 1])
      /\ \A m \in DOMAIN s : v \in Under(t, s[m]) => m = k + 1
  BY PartOfIs
<1>4. \A i \in 1 .. Len(t) : t[i].leftSon = 0 => \E m \in DOMAIN s : i = s[m]
  <2>1. \A i \in 1 .. Len(t) : t[i].leftSon = 0 => i \in Range(s)
    BY LeavesListed
  <2> HIDE DEF s
  <2> QED
    BY <2>1 DEF Range
<1>5. \A i \in Range(s) : \E m \in DOMAIN s : i = s[m]
  BY DEF Range
<1> HIDE DEF s, j, k
<1>6. ASSUME NEW m \in DOMAIN s PROVE s[m] \in 1 .. Len(t) /\ t[s[m]].leftSon = 0
  <2>1. Ends(t, s[m])
    BY <1>1 DEF Tiles
  <2>2. s[m] \in 1 .. Len(t)
    BY <1>1, ElementOfSeq
  <2> QED
    BY <2>1, <2>2 DEF Ends
<1>7. ASSUME j = k, NEW i \in 1 .. Len(t), t[i].leftSon = 0
      PROVE  u \in Under(t, i) <=> v \in Under(t, i)
  BY <1>2, <1>3, <1>4, <1>7
<1>8. ASSUME NEW m \in DOMAIN s, u \in Under(t, s[m]), v \in Under(t, s[m])
      PROVE  j = k
  <2>1. m = j + 1 /\ m = k + 1
    BY <1>2, <1>3, <1>8
  <2>2. j \in Int /\ k \in Int
    BY <1>2, <1>3
  <2> QED
    BY <2>1, <2>2
<1>9. ASSUME \A i \in 1 .. Len(t) : t[i].leftSon = 0 => (u \in Under(t, i) <=> v \in Under(t, i))
      PROVE  j = k
  <2>1. v \in Under(t, s[j + 1])
    BY <1>2, <1>6, <1>9
  <2> QED
    BY <1>2, <1>8, <2>1
<1>10. ASSUME NEW i \in Range(s), {u, v} \subseteq Under(t, i)
       PROVE  j = k
  BY <1>5, <1>8, <1>10
<1> QED
  BY <1>7, <1>9, <1>10 DEF s, j, k

\* The parts dfsForWriteParts hands over.
LEMMA SplitNumbers ==
  ASSUME SplitInv, pc # "split"
  PROVE  /\ partnum \in Nat /\ part \in [0 .. tree[1].n - 1 -> 0 .. partnum - 1]
         /\ \A v \in 0 .. tree[1].n - 1 : part[v] = PartOf(tree, v)
         /\ Len(tree) = 1 => partnum = 1
<1>1. Shaped(tree) /\ Numbered
  BY DEF SplitInv
<1> DEFINE s == LeafSeq(tree)[1]
<1>2. Len(s) \in Nat
  BY <1>1, LeavesAre
<1>3. \A v \in 0 .. tree[1].n - 1 : PartOf(tree, v) \in 0 .. Len(s) - 1
  BY <1>1, PartOfIs
<1>4. partnum = Len(s) /\ part = [v \in 0 .. tree[1].n - 1 |-> PartOf(tree, v)]
  BY <1>1 DEF Numbered
<1>5. Len(tree) = 1 => Len(s) = 1
  <2> SUFFICES ASSUME Len(tree) = 1 PROVE Len(s) = 1
    OBVIOUS
  <2>1. 1 \in 1 .. Len(tree)
    OBVIOUS
  <2>2. s = Below(tree, LeafSeq(tree), 1)
    BY <1>1, <2>1, LeafSeqIs
  <2>3. Ends(tree, 1)
    <3>1. CASE Forks(tree, 1)
      <4> DEFINE l == tree[1].leftSon
      <4>1. l \in 1 + 1 .. Len(tree)
        BY <3>1 DEF Forks
      <4> HIDE DEF l
      <4> QED
        BY <4>1
    <3> QED
      BY <1>1, <2>1, <3>1 DEF Shaped
  <2>4. s = <<1>>
    BY <2>2, <2>3 DEF Below, Ends
  <2> QED
    BY <2>4
<1> HIDE DEF s
<1> QED
  BY <1>2, <1>3, <1>4, <1>5

\* The invariant is about the parts as mergeParts reads them.
LEMMA SplitInvNumbers == SplitInv => PartsNumbered
<1> SUFFICES ASSUME SplitInv, pc # "split"
             PROVE  /\ DOMAIN part = 0 .. tree[1].n - 1
                    /\ \A v \in DOMAIN part : part[v] \in 0 .. partnum - 1
                    /\ \A u, v \in DOMAIN part :
                         part[u] = part[v]
                           <=> \A i \in DOMAIN tree :
                                 tree[i].leftSon = 0 => (u \in Under(tree, i) <=> v \in Under(tree, i))
  BY DEF PartsNumbered
<1> DEFINE V == 0 .. tree[1].n - 1
<1>1. part \in [V -> 0 .. partnum - 1] /\ \A v \in V : part[v] = PartOf(tree, v)
  BY SplitNumbers
<1>2. Shaped(tree) /\ DOMAIN tree = 1 .. Len(tree)
  BY LenProperties DEF SplitInv, Shaped
<1>3. ASSUME NEW u \in V, NEW v \in V
      PROVE  part[u] = part[v]
               <=> \A i \in DOMAIN tree :
                     tree[i].leftSon = 0 => (u \in Under(tree, i) <=> v \in Under(tree, i))
  <2>1. PartOf(tree, u) = PartOf(tree, v)
          <=> \A i \in 1 .. Len(tree) :
                tree[i].leftSon = 0 => (u \in Under(tree, i) <=> v \in Under(tree, i))
    BY <1>2, SamePart
  <2>2. part[u] = PartOf(tree, u) /\ part[v] = PartOf(tree, v)
    BY <1>1
  <2> QED
    BY <1>2, <2>1, <2>2
<1>4. DOMAIN part = V /\ \A v \in V : part[v] \in 0 .. partnum - 1
  BY <1>1
<1> HIDE DEF V
<1>5. \A u, v \in V : part[u] = part[v]
               <=> \A i \in DOMAIN tree :
                     tree[i].leftSon = 0 => (u \in Under(tree, i) <=> v \in Under(tree, i))
  BY <1>3
<1> QED
  BY <1>4, <1>5 DEF V

\* For every hypergraph createHypergraph can hand over and whatever myPartition
\* answers: at any time the leaves divide the vertices of pHyper, and no graph has two
\* vertices for one.
THEOREM SplitLeavesPartition == Spec => []LeavesPartition
<1>1. SplitInv => LeavesPartition
  BY ShapedPartition DEF SplitInv
<1> QED
  BY <1>1, SplitHolds, PTL

\* Across any number of splits, createSubGraph keeps what is left of pHyper's edges, in
\* their order, none of them empty, and with their weight only while no split cuts them.
THEOREM SplitEdgesProject == Spec => []EdgesProject
<1>1. SplitInv => EdgesProject
  BY ShapedProjects DEF SplitInv
<1> QED
  BY <1>1, SplitHolds, PTL

\* Whatever the splits were, dfsForWriteParts gives every vertex a part below partnum, and
\* two vertices the same part exactly when no split has parted them.
THEOREM SplitPartsNumbered == Spec => []PartsNumbered
<1> QED
  BY SplitInvNumbers, SplitHolds, PTL

-----------------------------------------------------------------------------
(***************************************************************************)
(* doHmetis comes to an end.                                               *)
(***************************************************************************)

\* The courses of Total's loop over s.
Sums(s) ==
  {f \in [0 .. Len(s) -> Nat] :
     /\ f[0] = 0
     /\ \A i \in 1 .. Len(s) : f[i] = f[i - 1] + s[i]
     /\ Total(s) = f[Len(s)]}

\* Total is a loop over s that adds.
LEMMA TotalCourse ==
  ASSUME NEW s \in Seq(Nat)
  PROVE  Sums(s) # {}
<1> DEFINE n == Len(s)
           zero == 0
           Sum == CHOOSE F : F = [k \in 0 .. n |-> IF k = 0 THEN 0 ELSE F[k - 1] + s[k]]
           d == [t \in Nat \X (1 .. n) |-> t[1] + s[t[2]]]
<1>1. Total(s) = Sum[n]
  BY DEF Total
<1>2. n \in Nat /\ s \in [1 .. n -> Nat] /\ DOMAIN s = 1 .. n
  BY LenProperties
<1>3. zero \in Nat
  OBVIOUS
<1>4. d \in Bodies(Nat, n)
  <2>1. ASSUME NEW l \in Nat, NEW i \in 1 .. n
        PROVE  l + s[i] \in Nat
    BY <1>2
  <2> QED
    BY <2>1 DEF Bodies
<1>5. PICK h : h \in Courses(Nat, zero, n, d)
  <2> HIDE DEF d, n, zero, Sum
  <2> QED
    BY <1>2, <1>3, <1>4, LoopExists
<1>6. h \in [0 .. n -> Nat] /\ h[0] = 0 /\ \A i \in 1 .. n : h[i] = d[<<h[i - 1], i>>]
  BY <1>5 DEF Courses
<1>7. ASSUME NEW i \in 1 .. n
      PROVE  h[i] = h[i - 1] + s[i]
  <2> HIDE DEF n, d
  <2>0. h[i - 1] \in Nat
    BY <1>2, <1>6
  <2>1. <<h[i - 1], i>> \in Nat \X (1 .. n)
    BY <2>0
  <2> USE DEF d
  <2> QED
    BY <1>6, <2>1
<1>8. h = [k \in 0 .. n |-> IF k = 0 THEN 0 ELSE h[k - 1] + s[k]]
  <2> HIDE DEF d, n, Sum
  <2>1. h = [k \in 0 .. n |-> h[k]] /\ h[0] = 0
    BY <1>6
  <2>2. \A k \in 0 .. n : k # 0 => k \in 1 .. n
    BY <1>2
  <2>3. \A k \in 0 .. n : h[k] = IF k = 0 THEN 0 ELSE h[k - 1] + s[k]
    BY <1>7, <2>1, <2>2
  <2> QED
    BY <2>1, <2>3
<1>9. Sum = [k \in 0 .. n |-> IF k = 0 THEN 0 ELSE Sum[k - 1] + s[k]]
  <2> HIDE DEF n
  <2> QED
    BY <1>8, Zenon
<1> HIDE DEF Sum, d
<1>10. /\ Sum[0] = 0 /\ Sum = [k \in 0 .. n |-> Sum[k]]
       /\ \A i \in 1 .. n : Sum[i] = Sum[i - 1] + s[i]
  <2>2. 0 \in 0 .. n /\ \A i \in 1 .. n : i \in 0 .. n /\ i # 0
    BY <1>2
  <2> QED
    BY <1>9, <2>2
<1>11. Sum \in [0 .. n -> Nat]
  <2>1. ASSUME NEW k \in 1 .. n, Sum[k - 1] \in Nat
        PROVE  Sum[k] = d[<<Sum[k - 1], k>>]
    <3>1. <<Sum[k - 1], k>> \in Nat \X (1 .. n)
      BY <2>1
    <3> HIDE DEF n
    <3> QED
      BY <1>10, <3>1 DEF d
  <2>3. Sum[0] = zero /\ Sum = [k \in 0 .. n |-> Sum[k]]
    BY <1>10
  <2> HIDE DEF n, zero
  <2>4. Follows(Nat, zero, n, d, Sum)
    BY <2>1, <2>3 DEF Follows
  <2>5. Sum \in Courses(Nat, zero, n, d)
    BY <1>2, <1>3, <1>4, <2>4, LoopFollows
  <2> QED
    BY <2>5 DEF Courses
<1>12. Sum \in Sums(s)
  BY <1>1, <1>10, <1>11 DEF Sums
<1> QED
  BY <1>12

\* A sum is a number, and that of nothing is 0.
LEMMA TotalType ==
  ASSUME NEW s \in Seq(Nat)
  PROVE  Total(s) \in Nat /\ (s = <<>> => Total(s) = 0)
<1>1. PICK f : f \in Sums(s)
  BY TotalCourse
<1>2. Len(s) \in Nat /\ (s = <<>> => Len(s) = 0)
  BY LenProperties, EmptySeq
<1> QED
  BY <1>1, <1>2 DEF Sums

\* The sum of a sequence with one more number.
LEMMA TotalAppend ==
  ASSUME NEW r \in Seq(Nat), NEW x \in Nat
  PROVE  Append(r, x) \in Seq(Nat) /\ Total(Append(r, x)) = Total(r) + x
<1> DEFINE n == Len(r)
           s == Append(r, x)
<1>1. s \in Seq(Nat) /\ n \in Nat /\ Len(s) = n + 1 /\ s[n + 1] = x /\ \A i \in 1 .. n : s[i] = r[i]
  BY AppendProperties, LenProperties
<1> HIDE DEF s
<1>2. PICK f : f \in Sums(r)
  BY TotalCourse
<1>3. PICK h : h \in Sums(s)
  BY <1>1, TotalCourse
<1>4. /\ f[0] = 0 /\ Total(r) = f[n]
      /\ \A i \in 1 .. n : f[i] = f[i - 1] + r[i]
  BY <1>2 DEF Sums
<1>5. /\ h[0] = 0 /\ Total(s) = h[n + 1]
      /\ \A i \in 1 .. n + 1 : h[i] = h[i - 1] + s[i]
  BY <1>1, <1>3 DEF Sums
<1> HIDE DEF n
<1> DEFINE T == {m \in Nat : m <= n => h[m] = f[m]}
<1>6. 0 \in T
  BY <1>4, <1>5
<1>7. ASSUME NEW m \in Nat, m \in T
      PROVE  m + 1 \in T
  <2> SUFFICES ASSUME m + 1 <= n PROVE h[m + 1] = f[m + 1]
    OBVIOUS
  <2>1. m + 1 \in 1 .. n /\ m + 1 \in 1 .. n + 1 /\ (m + 1) - 1 = m /\ m <= n
    BY <1>1
  <2>2. f[m + 1] = f[(m + 1) - 1] + r[m + 1]
    BY <1>4, <2>1
  <2>3. h[m + 1] = h[(m + 1) - 1] + s[m + 1]
    BY <1>5, <2>1
  <2>4. s[m + 1] = r[m + 1] /\ h[m] = f[m]
    BY <1>1, <1>7, <2>1
  <2> QED
    BY <2>1, <2>2, <2>3, <2>4
<1>8. \A m \in Nat : m \in T
  <2> HIDE DEF T
  <2> QED
    BY <1>6, <1>7, NatSetInduction
<1>9. h[n] = f[n]
  BY <1>1, <1>8
<1>10. n + 1 \in 1 .. n + 1 /\ (n + 1) - 1 = n
  BY <1>1
<1>11. h[n + 1] = h[(n + 1) - 1] + s[n + 1]
  BY <1>5, <1>10
<1> QED
  BY <1>1, <1>4, <1>5, <1>9, <1>10, <1>11 DEF s

\* The sum of a sequence without its first number.
LEMMA TotalTail ==
  ASSUME NEW s \in Seq(Nat), s # <<>>
  PROVE  /\ Head(s) \in Nat /\ Tail(s) \in Seq(Nat)
         /\ Total(s) = Head(s) + Total(Tail(s))
<1> DEFINE P == {t \in Seq(Nat) : t # <<>> => Total(t) = Head(t) + Total(Tail(t))}
<1>1. <<>> \in P
  BY EmptySeq
<1>2. ASSUME NEW t \in Seq(Nat), NEW x \in Nat, t \in P
      PROVE  Append(t, x) \in P
  <2> DEFINE a == Append(t, x)
  <2>1. a \in Seq(Nat) /\ Total(a) = Total(t) + x
    BY TotalAppend
  <2>2. CASE t = <<>>
    <3>1. Head(a) = x /\ Tail(a) = <<>>
      BY <2>2
    <3>2. Total(t) = 0 /\ Total(Tail(a)) = 0
      BY <2>2, <3>1, TotalType
    <3> QED
      BY <2>1, <3>1, <3>2
  <2>3. CASE t # <<>>
    <3>1. Head(a) = Head(t) /\ Tail(a) = Append(Tail(t), x)
      BY <2>3, HeadTailAppend
    <3>2. Head(t) \in Nat /\ Tail(t) \in Seq(Nat)
      BY <2>3, HeadTailProperties
    <3>3. Total(Append(Tail(t), x)) = Total(Tail(t)) + x /\ Total(Tail(t)) \in Nat
      BY <3>2, TotalAppend, TotalType
    <3>4. Total(t) = Head(t) + Total(Tail(t))
      BY <1>2, <2>3
    <3>5. Total(a) = Head(a) + Total(Tail(a))
      <4> DEFINE hd == Head(t)
                 tl == Total(Tail(t))
      <4>1. hd \in Nat /\ tl \in Nat /\ Total(t) = hd + tl
        BY <3>2, <3>3, <3>4
      <4>2. Total(a) = (hd + tl) + x
        BY <2>1, <4>1
      <4>3. Total(Tail(a)) = tl + x
        BY <3>1, <3>3
      <4>4. Head(a) = hd
        BY <3>1
      <4> HIDE DEF a, hd, tl
      <4> QED
        BY <4>1, <4>2, <4>3, <4>4
    <3> QED
      BY <2>1, <3>5
  <2> QED
    BY <2>2, <2>3
<1>3. \A t \in Seq(Nat) : t \in P
  <2> HIDE DEF P
  <2> QED
    BY <1>1, <1>2, SeqSetInduction
<1>4. Head(s) \in Nat /\ Tail(s) \in Seq(Nat)
  BY HeadTailProperties
<1> QED
  BY <1>3, <1>4

\* What the graphs of a queue can still cost.
Costs(t, q) == [k \in DOMAIN q |-> Takes(t[q[k]].n)]

\* Every graph in the queue is taken from it at least once.
LEMMA TakesIs ==
  ASSUME NEW n \in Nat
  PROVE  Takes(n) \in Nat /\ Takes(n) > 0
BY DEF Takes

\* Two sons that are not empty cost less than their father.
LEMMA TakesLess ==
  ASSUME NEW a \in Nat, NEW b \in Nat, a # 0, b # 0
  PROVE  Takes(a) + Takes(b) < Takes(a + b)
BY DEF Takes

\* The costs of a queue are numbers.
LEMMA CostsType ==
  ASSUME NEW t, Shaped(t), NEW q \in Seq(1 .. Len(t))
  PROVE  /\ Costs(t, q) \in Seq(Nat) /\ Len(Costs(t, q)) = Len(q)
         /\ \A k \in 1 .. Len(q) : Costs(t, q)[k] = Takes(t[q[k]].n)
<1> DEFINE n == Len(q)
<1>1. n \in Nat /\ DOMAIN q = 1 .. n /\ q \in [1 .. n -> 1 .. Len(t)]
  BY LenProperties
<1> HIDE DEF n
<1>2. ASSUME NEW k \in 1 .. n PROVE Takes(t[q[k]].n) \in Nat
  <2> DEFINE i == q[k]
  <2>1. i \in 1 .. Len(t)
    BY <1>1
  <2> HIDE DEF i
  <2>2. t[i].n \in Nat
    BY <2>1 DEF Shaped, Spanned, Core
  <2>3. Takes(t[i].n) \in Nat
    BY <2>2, TakesIs
  <2> QED
    BY <2>3 DEF i
<1>3. Costs(t, q) = [k \in 1 .. n |-> Takes(t[q[k]].n)]
  BY <1>1 DEF Costs
<1>4. Costs(t, q) \in [1 .. n -> Nat]
  BY <1>2, <1>3
<1>5. Costs(t, q) \in Seq(Nat) /\ Len(Costs(t, q)) = n
  BY <1>1, <1>4, LenIs
<1>6. \A k \in 1 .. n : Costs(t, q)[k] = Takes(t[q[k]].n)
  BY <1>3
<1> QED
  BY <1>5, <1>6 DEF n

\* A queue with one graph more costs what the graph costs.
LEMMA CostsAppend ==
  ASSUME NEW t, Shaped(t), NEW q \in Seq(1 .. Len(t)), NEW i \in 1 .. Len(t)
  PROVE  Total(Costs(t, Append(q, i))) = Total(Costs(t, q)) + Takes(t[i].n)
<1> DEFINE X == 1 .. Len(t)
           n == Len(q)
           r == Append(q, i)
           c == Costs(t, q)
           x == Takes(t[i].n)
           e == Costs(t, r)
           s == Append(c, x)
<1>1. n \in Nat /\ r \in Seq(X) /\ Len(r) = n + 1 /\ (\A k \in 1 .. n : r[k] = q[k]) /\ r[n + 1] = i
  BY AppendProperties, LenProperties
<1>2. x \in Nat
  <2>1. t[i].n \in Nat
    BY DEF Shaped, Spanned, Core
  <2> QED
    BY <2>1, TakesIs
<1>3. c \in Seq(Nat) /\ Len(c) = n /\ \A k \in 1 .. n : c[k] = Takes(t[q[k]].n)
  BY CostsType
<1> HIDE DEF r
<1>4. e \in Seq(Nat) /\ Len(e) = n + 1 /\ \A k \in 1 .. n + 1 : e[k] = Takes(t[r[k]].n)
  BY <1>1, CostsType
<1> HIDE DEF n, c, x, e
<1>5. s \in Seq(Nat) /\ Len(s) = n + 1 /\ (\A k \in 1 .. n : s[k] = c[k]) /\ s[n + 1] = x
  <2>1. c \in Seq(Nat) /\ Len(c) = n
    BY <1>3
  <2>2. /\ s \in Seq(Nat) /\ Len(s) = Len(c) + 1
        /\ (\A k \in 1 .. Len(c) : s[k] = c[k]) /\ s[Len(c) + 1] = x
    BY <1>2, <2>1, AppendProperties
  <2> HIDE DEF s
  <2> QED
    BY <2>1, <2>2
<1>6. Total(s) = Total(c) + x
  BY <1>2, <1>3, TotalAppend
<1> HIDE DEF s
<1>7. ASSUME NEW k \in 1 .. n + 1 PROVE e[k] = s[k]
  <2>1. CASE k \in 1 .. n
    BY <1>1, <1>3, <1>4, <1>5, <2>1
  <2>2. CASE k = n + 1
    BY <1>1, <1>4, <1>5, <2>2 DEF x
  <2> QED
    BY <1>1, <2>1, <2>2
<1>8. e = s
  BY <1>4, <1>5, <1>7, SeqEqual
<1> QED
  BY <1>6, <1>8 DEF c, x, e, r

\* A queue costs less without the graph at its front.
LEMMA CostsTail ==
  ASSUME NEW t, Shaped(t), NEW q \in Seq(1 .. Len(t)), q # <<>>
  PROVE  /\ Total(Costs(t, Tail(q))) \in Nat
         /\ Total(Costs(t, q)) = Takes(t[Head(q)].n) + Total(Costs(t, Tail(q)))
<1> DEFINE X == 1 .. Len(t)
           n == Len(q)
           r == Tail(q)
           c == Costs(t, q)
           e == Costs(t, r)
<1>1. /\ n \in Nat \ {0} /\ Head(q) = q[1] /\ r \in Seq(X) /\ Len(r) = n - 1
      /\ \A k \in 1 .. n - 1 : r[k] = q[k + 1]
  BY HeadTailProperties, LenProperties, EmptySeq
<1>2. c \in Seq(Nat) /\ Len(c) = n /\ \A k \in 1 .. n : c[k] = Takes(t[q[k]].n)
  BY CostsType
<1> HIDE DEF r, n
<1>3. e \in Seq(Nat) /\ Len(e) = n - 1 /\ \A k \in 1 .. n - 1 : e[k] = Takes(t[r[k]].n)
  BY <1>1, CostsType
<1> HIDE DEF c, e
<1>4. c # <<>>
  BY <1>1, <1>2, EmptySeq
<1>5. /\ Head(c) = c[1] /\ Tail(c) \in Seq(Nat) /\ Len(Tail(c)) = n - 1
      /\ \A k \in 1 .. n - 1 : Tail(c)[k] = c[k + 1]
  BY <1>2, <1>4, HeadTailProperties
<1>6. Total(c) = Head(c) + Total(Tail(c))
  BY <1>2, <1>4, TotalTail
<1>7. ASSUME NEW k \in 1 .. n - 1 PROVE e[k] = Tail(c)[k]
  <2>1. k + 1 \in 1 .. n
    BY <1>1
  <2>2. c[k + 1] = Takes(t[q[k + 1]].n)
    BY <1>2, <2>1
  <2> QED
    BY <1>1, <1>3, <1>5, <2>2
<1>8. e = Tail(c)
  BY <1>3, <1>5, <1>7, SeqEqual
<1>9. Head(c) = Takes(t[Head(q)].n)
  <2>1. 1 \in 1 .. n
    BY <1>1
  <2> QED
    BY <1>1, <1>2, <1>5, <2>1
<1>10. Total(e) \in Nat
  BY <1>3, TotalType
<1> QED
  BY <1>6, <1>8, <1>9, <1>10 DEF c, e, r

\* Graphs that keep their vertices keep their costs.
LEMMA CostsKept ==
  ASSUME NEW t, NEW u, NEW q \in Seq(1 .. Len(t)), \A i \in 1 .. Len(t) : Core(u[i]) = Core(t[i])
  PROVE  Costs(u, q) = Costs(t, q)
<1>1. DOMAIN q = 1 .. Len(q) /\ \A k \in 1 .. Len(q) : q[k] \in 1 .. Len(t)
  BY LenProperties, ElementOfSeq
<1>2. \A i \in 1 .. Len(t) : u[i].n = t[i].n
  BY DEF Core
<1>3. \A k \in DOMAIN q : Takes(u[q[k]].n) = Takes(t[q[k]].n)
  BY <1>1, <1>2
<1> QED
  BY <1>3 DEF Costs

\* The queue after a split costs less than before it.
LEMMA PartedDrains ==
  ASSUME SplitInv, NEW p \in [0 .. Current.n - 1 -> {0, 1}], Parted(p)
  PROVE  Total(Costs(tree', subGraph')) < Total(Costs(tree, subGraph))
<1> DEFINE gi == Head(subGraph)
           left == createSubGraph(tree[gi], gi, p, 0)
           right == createSubGraph(tree[gi], gi, p, 1)
           q == Tail(subGraph)
           a == Len(tree) + 1
           b == Len(tree) + 2
           u == tree'
           c == Total(Costs(tree, q))
           x == left.n
           y == right.n
<1>1. gi \in 1 .. Len(tree) /\ Branches(tree, gi, p, u) /\ subGraph' = QueueSons(left, right)
  BY PartedIs
<1>2. Shaped(tree) /\ Waits(tree, subGraph) /\ subGraph # <<>>
  BY DEF SplitInv, Parted
<1>3. Waits(tree, q) /\ Taken(q, gi)
  BY <1>2, WaitsTail
<1>4. subGraph \in Seq(1 .. Len(tree)) /\ q \in Seq(1 .. Len(tree))
  BY <1>2, <1>3 DEF Waits
<1>5. c \in Nat /\ Total(Costs(tree, subGraph)) = Takes(tree[gi].n) + c
  BY <1>2, <1>4, CostsTail
<1>6. /\ Shaped(u) /\ Grown(tree, u, gi, left, right)
      /\ a \in 1 .. Len(u) /\ b \in 1 .. Len(u)
      /\ u[a].n = x /\ u[b].n = y /\ x \in Nat /\ y \in Nat /\ x + y = tree[gi].n
  BY <1>1 DEF Branches
<1>7. /\ x # 0 /\ y # 0 => subGraph' = q \o <<a, b>>
      /\ ~(x # 0 /\ y # 0) => subGraph' = q
  BY <1>1 DEF QueueSons
<1> HIDE DEF gi, left, right, q, u, a, b
<1>8. Costs(u, q) = Costs(tree, q)
  <2>1. \A i \in 1 .. Len(tree) : Core(u[i]) = Core(tree[i])
    BY <1>6 DEF Grown
  <2> QED
    BY <1>4, <2>1, CostsKept
<1>9. q \in Seq(1 .. Len(u))
  <2>1. Waits(u, q)
    BY <1>1, <1>2, <1>3, <1>6, WaitsGrows
  <2> QED
    BY <2>1 DEF Waits
<1>10. Takes(tree[gi].n) \in Nat /\ Takes(tree[gi].n) > 0
  <2>1. tree[gi].n \in Nat
    BY <1>6
  <2> QED
    BY <2>1, TakesIs
<1>11. CASE ~(x # 0 /\ y # 0)
  <2>1. Total(Costs(u, subGraph')) = c
    BY <1>7, <1>8, <1>11
  <2> HIDE DEF c
  <2> QED
    BY <1>5, <1>10, <2>1 DEF u
<1>12. CASE x # 0 /\ y # 0
  <2> DEFINE X == 1 .. Len(u)
             ra == Append(q, a)
             rb == Append(ra, b)
  <2>1. q \in Seq(X) /\ a \in X /\ b \in X
    BY <1>6, <1>9
  <2>2. ra \in Seq(X) /\ Total(Costs(u, ra)) = Total(Costs(u, q)) + Takes(u[a].n)
    BY <1>6, <2>1, CostsAppend, AppendProperties
  <2> HIDE DEF ra
  <2>3. Total(Costs(u, rb)) = Total(Costs(u, ra)) + Takes(u[b].n)
    BY <1>6, <2>1, <2>2, CostsAppend
  <2> HIDE DEF X
  <2>4. subGraph' = rb
    <3>1. q \o <<a, b>> = Append(Append(q, a), b)
      BY <2>1, PairAppended
    <3> QED
      BY <1>7, <1>12, <3>1 DEF ra
  <2> HIDE DEF rb
  <2>5. Total(Costs(u, subGraph')) = (c + Takes(x)) + Takes(y)
    BY <1>6, <1>8, <2>2, <2>3, <2>4
  <2> HIDE DEF c, x, y
  <2>6. Takes(x) + Takes(y) < Takes(x + y)
    BY <1>6, <1>12, TakesLess
  <2>7. Takes(x) \in Nat /\ Takes(y) \in Nat /\ Takes(x + y) = Takes(tree[gi].n)
    BY <1>6, TakesIs
  <2> DEFINE f == Takes(tree[gi].n)
             g == Takes(x)
             h == Takes(y)
  <2>8. g + h < f /\ g \in Nat /\ h \in Nat /\ f \in Nat /\ c \in Nat
    BY <1>5, <1>10, <2>6, <2>7
  <2>9. Total(Costs(u, subGraph')) = (c + g) + h /\ Total(Costs(tree, subGraph)) = f + c
    BY <1>5, <2>5
  <2> HIDE DEF f, g, h
  <2>10. (c + g) + h < f + c
    BY <2>8
  <2> QED
    BY <2>9, <2>10 DEF u
<1> QED
  BY <1>11, <1>12

\* A graph is taken from the queue, and none added.
LEMMA TailDrains ==
  ASSUME SplitInv, pc = "split", subGraph # <<>>, tree' = tree, subGraph' = Tail(subGraph)
  PROVE  Total(Costs(tree', subGraph')) < Total(Costs(tree, subGraph))
<1>1. Shaped(tree) /\ Waits(tree, subGraph)
  BY DEF SplitInv
<1>2. subGraph \in Seq(1 .. Len(tree)) /\ Head(subGraph) \in 1 .. Len(tree)
  BY <1>1, WaitsTail DEF Waits
<1> DEFINE c == Total(Costs(tree, Tail(subGraph)))
           f == Takes(tree[Head(subGraph)].n)
<1>3. c \in Nat /\ Total(Costs(tree, subGraph)) = f + c
  BY <1>1, <1>2, CostsTail
<1>4. f \in Nat /\ f > 0
  <2>1. tree[Head(subGraph)].n \in Nat
    BY <1>1, <1>2 DEF Shaped, Spanned, Core
  <2> QED
    BY <2>1, TakesIs
<1>5. Total(Costs(tree', subGraph')) = c
  OBVIOUS
<1> HIDE DEF c, f
<1> QED
  BY <1>3, <1>4, <1>5

\* A step of doHmetis that does not end it.
LEMMA StepDrains ==
  SplitInv /\ [Next]_vars => [pc = "split" /\ pc' = pc => SplitsLeft' < SplitsLeft]_splitVars
<1> SUFFICES ASSUME SplitInv, [Next]_vars, splitVars' # splitVars, pc = "split", pc' = pc
             PROVE  SplitsLeft' < SplitsLeft
  OBVIOUS
<1>1. SplitsLeft = Total(Costs(tree, subGraph)) /\ SplitsLeft' = Total(Costs(tree', subGraph'))
  BY DEF SplitsLeft, Costs
<1>2. SplitStep /\ ~dfsForWriteParts
  BY DEF Next, MergeRound, EndMerge, WildGraph, WriteLine, EndWrite, Closed, dfsForWriteParts, vars
<1>3. CASE TooSmall
  <2>1. subGraph # <<>> /\ tree' = tree /\ subGraph' = Tail(subGraph)
    BY <1>3 DEF TooSmall
  <2> QED
    BY <1>1, <2>1, TailDrains
<1>4. CASE NotParted
  <2>1. subGraph # <<>> /\ tree' = tree /\ subGraph' = Tail(subGraph)
    BY <1>4 DEF NotParted
  <2> QED
    BY <1>1, <2>1, TailDrains
<1>5. CASE \E p \in [0 .. Current.n - 1 -> {0, 1}] : Parted(p)
  BY <1>1, <1>5, PartedDrains
<1> QED
  BY <1>2, <1>3, <1>4, <1>5 DEF SplitStep

\* Whatever myPartition answers, every graph doHmetis takes from the queue leaves fewer
\* that can still come: the loop cannot go on for ever.
THEOREM SplitQueueDrains == Spec => QueueDrains
<1> QED
  BY SplitHolds, StepDrains, PTL DEF Spec, QueueDrains

-----------------------------------------------------------------------------
(***************************************************************************)
(* mergeParts: the chains.                                                 *)
(***************************************************************************)

\* An insert by mergeParts keeps every chain going down.
LEMMA MergedDescends ==
  ASSUME NEW map, Descends(map), NEW p \in Pairs
  PROVE  Descends(Merged(map, p))
<1>1. p[1] \in Parts /\ p[2] \in Parts /\ p[1] < p[2]
  BY DEF Pairs
<1>2. p[2] \in Nat /\ p[1] \in 0 .. p[2] - 1
  BY <1>1 DEF Parts
<1> SUFFICES ASSUME NEW k \in DOMAIN Merged(map, p)
             PROVE  k \in Nat /\ Merged(map, p)[k] \in 0 .. k - 1
  BY DEF Descends
<1>3. k \in DOMAIN map \cup {p[2]}
  BY DEF Merged
<1>4. Merged(map, p)[k] = IF k \in DOMAIN map THEN map[k] ELSE p[1]
  BY <1>3 DEF Merged
<1>5. CASE k \in DOMAIN map
  BY <1>4, <1>5 DEF Descends
<1>6. CASE k \notin DOMAIN map
  BY <1>1, <1>2, <1>3, <1>4, <1>6
<1> QED
  BY <1>5, <1>6

\* No step of mergeParts or doWriting makes a chain go up.
LEMMA NextDescends == ChainsDescend /\ [Next]_vars => ChainsDescend'
<1> SUFFICES ASSUME ChainsDescend, [Next]_vars
             PROVE  ChainsDescend'
  OBVIOUS
<1>1. CASE MergeRound
  <2>1. PICK p \in Pairs :
          \/ \E q \in Others(p) : mapForLastPart' = Merged(Merged(mapForLastPart, p), q)
          \/ mapForLastPart' = Merged(mapForLastPart, p)
    BY <1>1 DEF MergeRound
  <2>2. Descends(Merged(mapForLastPart, p))
    BY MergedDescends DEF ChainsDescend
  <2>3. \A q \in Others(p) : Descends(Merged(Merged(mapForLastPart, p), q))
    <3> SUFFICES ASSUME NEW q \in Others(p)
                 PROVE  Descends(Merged(Merged(mapForLastPart, p), q))
      OBVIOUS
    <3>1. q \in Pairs
      BY DEF Others
    <3> QED
      BY <2>2, <3>1, MergedDescends
  <2>4. Descends(mapForLastPart')
    BY <2>1, <2>2, <2>3
  <2> QED
    BY <2>4 DEF ChainsDescend, Descends
<1>2. CASE mapForLastPart' = mapForLastPart
  BY <1>2 DEF ChainsDescend, Descends
<1>3. CASE (SplitStep /\ UNCHANGED mergeVars) \/ UNCHANGED vars
  BY <1>2, <1>3 DEF vars, mergeVars
<1>4. CASE EndMerge \/ WildGraph \/ WriteLine \/ EndWrite \/ Closed
  BY <1>2, <1>4 DEF EndMerge, WildGraph, WriteLine, EndWrite, Closed, vars, mergeVars
<1> QED
  BY <1>1, <1>3, <1>4 DEF Next

\* For every hypergraph, every assignment to parts and every number of parts, the
\* loops that follow mapForLastPart meet smaller and smaller part numbers.
THEOREM MergeChainsDescend == Spec => []ChainsDescend
<1>1. Init => ChainsDescend
  BY DEF Init, ChainsDescend, Descends
<1> QED
  BY <1>1, NextDescends, PTL DEF Spec

-----------------------------------------------------------------------------
(***************************************************************************)
(* partition.txt.                                                          *)
(***************************************************************************)

\* The different values of f before m.
Seen(f, m) == {f[u] : u \in 0 .. m - 1}

\* The numbers written are 0, 1, 2, ... as they first occur.
Ordered(l) == \A v \in 1 .. Len(l) : \A c \in 0 .. l[v] - 1 : \E u \in 1 .. v - 1 : l[u] = c

\* Lines have the same number if and only if f has the same value.
Agrees(l, f) == \A u, v \in 1 .. Len(l) : l[u] = l[v] <=> f[u - 1] = f[v - 1]

\* l numbers the first of the n values of f.
Labelled(l, f, n) ==
  /\ l \in Seq(Nat) /\ Len(l) <= n
  /\ Range(l) = 0 .. Cardinality(Seen(f, Len(l))) - 1
  /\ Ordered(l) /\ Agrees(l, f)

\* The values seen are finitely many, and a value more is one more or none.
LEMMA SeenIs ==
  ASSUME NEW f, NEW m \in Nat
  PROVE  /\ IsFiniteSet(Seen(f, m)) /\ Cardinality(Seen(f, m)) \in Nat
         /\ Seen(f, m + 1) = Seen(f, m) \cup {f[m]}
<1> DEFINE D == 0 .. m - 1
           g == [u \in D |-> f[u]]
           S == Seen(f, m)
<1>1. IsFiniteSet(D)
  BY FS_Interval
<1>2. S = {f[u] : u \in D}
  BY DEF Seen
<1>3. g \in Surjection(D, S)
  BY <1>2 DEF Surjection
<1> HIDE DEF D, g, S
<1>4. IsFiniteSet(S)
  BY <1>1, <1>3, FS_Surjection
<1>5. Cardinality(S) \in Nat
  BY <1>4, FS_CardinalityType
<1>6. Seen(f, m + 1) = Seen(f, m) \cup {f[m]}
  <2>1. 0 .. (m + 1) - 1 = (0 .. m - 1) \cup {m}
    OBVIOUS
  <2> QED
    BY <2>1 DEF Seen
<1> QED
  BY <1>4, <1>5, <1>6 DEF S

\* Nothing is written yet.
LEMMA LabelledEmpty ==
  ASSUME NEW f, NEW n \in Nat
  PROVE  Labelled(<<>>, f, n)
<1>1. <<>> \in Seq(Nat) /\ Len(<<>>) = 0
  BY EmptySeq
<1>2. Seen(f, 0) = {}
  BY DEF Seen
<1>3. Cardinality(Seen(f, Len(<<>>))) = 0
  BY <1>1, <1>2, FS_EmptySet
<1>4. Range(<<>>) = 0 .. 0 - 1
  BY DEF Range
<1>5. Ordered(<<>>) /\ Agrees(<<>>, f)
  BY <1>1 DEF Ordered, Agrees
<1>6. Range(<<>>) = 0 .. Cardinality(Seen(f, Len(<<>>))) - 1
  <2> DEFINE c == Cardinality(Seen(f, Len(<<>>)))
             R == Range(<<>>)
  <2>1. c = 0 /\ R = 0 .. 0 - 1
    BY <1>3, <1>4
  <2> HIDE DEF c, R
  <2>2. R = 0 .. c - 1
    BY <2>1
  <2> QED
    BY <2>2 DEF c, R
<1>7. Len(<<>>) <= n
  BY <1>1
<1> QED
  BY <1>1, <1>5, <1>6, <1>7, Zenon DEF Labelled

\* The next line: a value met before keeps its number.
LEMMA LabelledAgain ==
  ASSUME NEW f, NEW n \in Nat, NEW l, Labelled(l, f, n), Len(l) < n,
         NEW u \in 0 .. Len(l) - 1, f[u] = f[Len(l)]
  PROVE  Labelled(Append(l, l[u + 1]), f, n)
<1> DEFINE m == Len(l)
           x == l[u + 1]
           r == Append(l, x)
           K == Cardinality(Seen(f, m))
<1>1. l \in Seq(Nat) /\ m \in Nat /\ DOMAIN l = 1 .. m /\ u + 1 \in 1 .. m
  BY LenProperties DEF Labelled
<1>2. x \in Nat
  BY <1>1, ElementOfSeq
<1>3. Range(l) = 0 .. K - 1 /\ Ordered(l) /\ Agrees(l, f)
  BY DEF Labelled
<1>4. r \in Seq(Nat) /\ Len(r) = m + 1 /\ (\A k \in 1 .. m : r[k] = l[k]) /\ r[m + 1] = x
  BY <1>1, <1>2, AppendProperties
<1>5. Range(r) = Range(l)
  <2>1. Range(r) = Range(l) \cup {x}
    BY <1>1, <1>2, AppendRange
  <2>2. x \in Range(l)
    BY <1>1 DEF Range
  <2> QED
    BY <2>1, <2>2
<1>6. Seen(f, m + 1) = Seen(f, m)
  <2>1. Seen(f, m + 1) = Seen(f, m) \cup {f[m]}
    BY <1>1, SeenIs
  <2>2. f[m] \in Seen(f, m)
    BY DEF Seen
  <2> QED
    BY <2>1, <2>2
<1>7. f[(u + 1) - 1] = f[m] /\ (m + 1) - 1 = m /\ u + 1 \in Nat
  BY <1>1
<1>8. x = l[u + 1] /\ m + 1 <= n
  BY <1>1
<1> DEFINE w == u + 1
<1> HIDE DEF m, x, r, K, w
<1>9. \A k \in 1 .. m + 1 : k \in 1 .. m \/ k = m + 1
  BY <1>1
<1>10. x = l[w] /\ w \in 1 .. m /\ f[w - 1] = f[m]
  BY <1>1, <1>7, <1>8 DEF w
<1>11. Ordered(r)
  <2> SUFFICES ASSUME NEW v \in 1 .. m + 1, NEW c \in 0 .. r[v] - 1
               PROVE  \E k \in 1 .. v - 1 : r[k] = c
    BY <1>4 DEF Ordered
  <2>1. CASE v \in 1 .. m
    <3>1. c \in 0 .. l[v] - 1
      BY <1>4, <2>1
    <3>2. PICK k \in 1 .. v - 1 : l[k] = c
      BY <1>3, <2>1, <3>1 DEF Ordered, m
    <3>3. k \in 1 .. m
      BY <1>1, <2>1
    <3> QED
      BY <1>4, <3>2, <3>3
  <2>2. CASE v = m + 1
    <3>1. c \in 0 .. l[w] - 1
      BY <1>4, <1>10, <2>2
    <3>2. PICK k \in 1 .. w - 1 : l[k] = c
      BY <1>3, <1>10, <3>1 DEF Ordered, m
    <3>3. k \in 1 .. m /\ k \in 1 .. v - 1
      BY <1>1, <1>10, <2>2
    <3> QED
      BY <1>4, <3>2, <3>3
  <2> QED
    BY <1>9, <2>1, <2>2
<1>12. Agrees(r, f)
  <2> SUFFICES ASSUME NEW a \in 1 .. m + 1, NEW b \in 1 .. m + 1
               PROVE  r[a] = r[b] <=> f[a - 1] = f[b - 1]
    BY <1>4 DEF Agrees
  <2>0. \A i, j \in 1 .. m : l[i] = l[j] <=> f[i - 1] = f[j - 1]
    BY <1>3 DEF Agrees, m
  <2>1. CASE a \in 1 .. m /\ b \in 1 .. m
    BY <1>4, <2>0, <2>1
  <2>2. CASE a \in 1 .. m /\ b = m + 1
    <3>1. r[a] = l[a] /\ r[b] = l[w] /\ f[b - 1] = f[w - 1]
      BY <1>4, <1>7, <1>10, <2>2
    <3> QED
      BY <1>10, <2>0, <2>2, <3>1
  <2>3. CASE a = m + 1 /\ b \in 1 .. m
    <3>1. r[b] = l[b] /\ r[a] = l[w] /\ f[a - 1] = f[w - 1]
      BY <1>4, <1>7, <1>10, <2>3
    <3> QED
      BY <1>10, <2>0, <2>3, <3>1
  <2> QED
    BY <1>9, <2>1, <2>2, <2>3
<1>13. Labelled(r, f, n)
  BY <1>3, <1>4, <1>5, <1>6, <1>8, <1>11, <1>12 DEF Labelled, K
<1> QED
  BY <1>13 DEF r, x

\* The next line: a new value gets the next number.
LEMMA LabelledNew ==
  ASSUME NEW f, NEW n \in Nat, NEW l, Labelled(l, f, n), Len(l) < n,
         \A u \in 0 .. Len(l) - 1 : f[u] # f[Len(l)]
  PROVE  Labelled(Append(l, Cardinality(Seen(f, Len(l)))), f, n)
<1> DEFINE m == Len(l)
           S == Seen(f, m)
           x == Cardinality(S)
           r == Append(l, x)
<1>1. l \in Seq(Nat) /\ m \in Nat /\ DOMAIN l = 1 .. m
  BY LenProperties DEF Labelled
<1>2. IsFiniteSet(S) /\ x \in Nat /\ Seen(f, m + 1) = S \cup {f[m]}
  BY <1>1, SeenIs
<1>3. Range(l) = 0 .. x - 1 /\ Ordered(l) /\ Agrees(l, f)
  BY DEF Labelled
<1>4. r \in Seq(Nat) /\ Len(r) = m + 1 /\ (\A k \in 1 .. m : r[k] = l[k]) /\ r[m + 1] = x
  BY <1>1, <1>2, AppendProperties
<1>5. Range(r) = Range(l) \cup {x}
  BY <1>1, <1>2, AppendRange
<1>6. Cardinality(Seen(f, m + 1)) = x + 1
  <2>1. f[m] \notin S
    BY DEF Seen
  <2> HIDE DEF S, x
  <2>2. Cardinality(S \cup {f[m]}) = Cardinality(S) + 1
    BY <1>2, <2>1, FS_AddElement
  <2> QED
    BY <1>2, <2>2 DEF x
<1>7. \A k \in 1 .. m : l[k] \in 0 .. x - 1 /\ l[k] # x
  <2>1. \A k \in 1 .. m : l[k] \in Range(l)
    BY <1>1 DEF Range
  <2> HIDE DEF x
  <2> QED
    BY <1>2, <1>3, <2>1
<1>8. \A c \in 0 .. x - 1 : \E k \in 1 .. m : l[k] = c
  <2>1. \A c \in Range(l) : \E k \in 1 .. m : l[k] = c
    BY <1>1 DEF Range
  <2> QED
    BY <1>3, <2>1
<1>9. \A k \in 1 .. m : f[k - 1] # f[m]
  <2>1. \A k \in 1 .. m : k - 1 \in 0 .. m - 1
    BY <1>1
  <2> QED
    BY <2>1
<1>10. m + 1 <= n /\ (m + 1) - 1 = m
  BY <1>1
<1> HIDE DEF m, S, x, r
<1>11. \A k \in 1 .. m + 1 : k \in 1 .. m \/ k = m + 1
  BY <1>1
<1>12. Ordered(r)
  <2> SUFFICES ASSUME NEW v \in 1 .. m + 1, NEW c \in 0 .. r[v] - 1
               PROVE  \E k \in 1 .. v - 1 : r[k] = c
    BY <1>4 DEF Ordered
  <2>1. CASE v \in 1 .. m
    <3>1. c \in 0 .. l[v] - 1
      BY <1>4, <2>1
    <3>2. PICK k \in 1 .. v - 1 : l[k] = c
      BY <1>3, <2>1, <3>1 DEF Ordered, m
    <3>3. k \in 1 .. m
      BY <1>1, <2>1
    <3> QED
      BY <1>4, <3>2, <3>3
  <2>2. CASE v = m + 1
    <3>1. c \in 0 .. x - 1
      BY <1>4, <2>2
    <3>2. PICK k \in 1 .. m : l[k] = c
      BY <1>8, <3>1
    <3>3. k \in 1 .. v - 1
      BY <1>1, <2>2
    <3> QED
      BY <1>4, <3>2, <3>3
  <2> QED
    BY <1>11, <2>1, <2>2
<1>13. Agrees(r, f)
  <2> SUFFICES ASSUME NEW a \in 1 .. m + 1, NEW b \in 1 .. m + 1
               PROVE  r[a] = r[b] <=> f[a - 1] = f[b - 1]
    BY <1>4 DEF Agrees
  <2>0. \A i, j \in 1 .. m : l[i] = l[j] <=> f[i - 1] = f[j - 1]
    BY <1>3 DEF Agrees, m
  <2>1. CASE a \in 1 .. m /\ b \in 1 .. m
    BY <1>4, <2>0, <2>1
  <2>2. CASE a \in 1 .. m /\ b = m + 1
    BY <1>4, <1>7, <1>9, <1>10, <2>2
  <2>3. CASE a = m + 1 /\ b \in 1 .. m
    BY <1>4, <1>7, <1>9, <1>10, <2>3
  <2>4. CASE a = m + 1 /\ b = m + 1
    BY <2>4
  <2> QED
    BY <1>11, <2>1, <2>2, <2>3, <2>4
<1>14. Range(r) = 0 .. Cardinality(Seen(f, Len(r))) - 1
  <2>1. (0 .. x - 1) \cup {x} = 0 .. (x + 1) - 1
    BY <1>2
  <2>2. Cardinality(Seen(f, Len(r))) = x + 1
    BY <1>4, <1>6
  <2> QED
    BY <1>3, <1>5, <2>1, <2>2
<1>15. Labelled(r, f, n)
  BY <1>4, <1>10, <1>12, <1>13, <1>14 DEF Labelled
<1> QED
  BY <1>15 DEF r, x, S, m

\* One step along a chain.
Onward(map, F, k) == IF k \in DOMAIN map THEN F[map[k]] ELSE k

\* The chains of the first n parts end among them, with a part that was not merged.
LEMMA ChainEndsType ==
  ASSUME NEW map, Descends(map), NEW n \in Nat
  PROVE  \A k \in 0 .. n - 1 : ChainEnds(map, n)[k] \in (0 .. n - 1) \ DOMAIN map
<1> DEFINE D == 0 .. n - 1
           r == [k \in D |-> k + 1]
           Q == [k \in D |-> D]
           d == [s \in Picks(D, Q) \X D |-> Onward(map, s[1], s[2])]
<1>2. r \in [D -> 1 .. n] /\ \A k \in D : r[k] = k + 1
  OBVIOUS
<1>3. \A f \in Picks(D, Q), k \in D : d[<<f, k>>] = Onward(map, f, k)
  <2> HIDE DEF Q, D
  <2> QED
    OBVIOUS
<1>4. \A k \in D : Q[k] = D /\ Q[k] # {}
  OBVIOUS
<1>5. \A k \in D : k \in DOMAIN map => map[k] \in D /\ map[k] + 1 < k + 1
  BY DEF Descends
<1> HIDE DEF Q, r, d
<1>6. ASSUME NEW f, NEW k \in D, \A j \in D : j < k => f[j] \in D
      PROVE  Onward(map, f, k) \in D
  <2>1. \A j \in D : j \in Int
    OBVIOUS
  <2>2. CASE k \in DOMAIN map
    <3> DEFINE j == map[k]
    <3>1. j \in D /\ j + 1 < k + 1 /\ k \in Int /\ j \in Int
      BY <1>5, <2>1, <2>2
    <3> HIDE DEF j
    <3>2. j < k
      BY <3>1
    <3>3. f[j] \in D
      BY <1>6, <3>1, <3>2
    <3> QED
      BY <2>2, <3>3 DEF Onward, j
  <2>3. CASE k \notin DOMAIN map
    BY <2>3 DEF Onward
  <2> QED
    BY <2>2, <2>3
<1>7. ASSUME NEW f \in Picks(D, Q), NEW k \in D
      PROVE  d[<<f, k>>] \in Q[k]
  <2>1. \A j \in D : f[j] \in D
    BY <1>4 DEF Picks
  <2> HIDE DEF D
  <2> QED
    BY <1>3, <1>4, <1>6, <2>1
<1>8. ASSUME NEW f \in Picks(D, Q), NEW h \in Picks(D, Q), NEW k \in D,
             \A j \in D : r[j] < r[k] => f[j] = h[j]
      PROVE  d[<<f, k>>] = d[<<h, k>>]
  <2>1. CASE k \in DOMAIN map
    <3> DEFINE j == map[k]
    <3>1. j \in D /\ j + 1 < k + 1
      BY <1>5, <2>1
    <3> HIDE DEF j, D
    <3>2. r[j] < r[k]
      BY <1>2, <3>1
    <3>3. f[j] = h[j]
      BY <1>8, <3>1, <3>2
    <3>4. Onward(map, f, k) = Onward(map, h, k)
      BY <2>1, <3>3 DEF Onward, j
    <3> QED
      BY <1>3, <3>4
  <2>2. CASE k \notin DOMAIN map
    <3>1. Onward(map, f, k) = Onward(map, h, k)
      BY <2>2 DEF Onward
    <3> HIDE DEF D
    <3> QED
      BY <1>3, <3>1
  <2> QED
    BY <2>1, <2>2
<1>9. PICK f \in Picks(D, Q) : \A k \in D : f[k] = d[<<f, k>>]
  <2>1. Recurses(D, r, Q, d)
    BY <1>4, <1>7, <1>8 DEF Recurses
  <2> HIDE DEF D
  <2>3. \E f \in Picks(D, Q) : \A x \in D : f[x] = d[<<f, x>>]
    BY <1>2, <2>1, RecursionExists
  <2> QED
    BY <2>3
<1>10. f = [k \in D |-> Onward(map, f, k)]
  <2> HIDE DEF D
  <2>1. f = [k \in D |-> f[k]]
    BY DEF Picks
  <2>2. \A k \in D : f[k] = Onward(map, f, k)
    BY <1>3, <1>9
  <2> QED
    BY <2>1, <2>2
<1> DEFINE F == ChainEnds(map, n)
<1>11. F = [k \in D |-> Onward(map, F, k)]
  <2>1. F = CHOOSE u : u = [k \in D |-> Onward(map, u, k)]
    BY DEF ChainEnds, Onward
  <2> HIDE DEF F, D
  <2> QED
    BY <1>10, <2>1, Zenon
<1> HIDE DEF F
<1>12. \A k \in D : F[k] = Onward(map, F, k)
  BY <1>11
<1> DEFINE E == D \ DOMAIN map
           P == {k \in D : F[k] \in E}
<1>13. ASSUME NEW k \in D, \A j \in D : r[j] < r[k] => j \in P
       PROVE  k \in P
  <2>1. \A j \in D : j < k => r[j] < r[k]
    BY <1>2
  <2>2. \A j \in D : j < k => F[j] \in E
    BY <1>13, <2>1
  <2>3. CASE k \in DOMAIN map
    <3> DEFINE j == map[k]
    <3>1. j \in D /\ j < k
      BY <1>5, <2>3
    <3> HIDE DEF j, D, E
    <3>2. F[j] \in E
      BY <2>2, <3>1
    <3> QED
      BY <1>12, <2>3, <3>2 DEF Onward, j
  <2>4. CASE k \notin DOMAIN map
    BY <1>12, <2>4 DEF Onward
  <2> QED
    BY <2>3, <2>4
<1>14. \A k \in D : k \in P
  <2> HIDE DEF P, D
  <2> QED
    BY <1>2, <1>13, RankInduction
<1>15. \A k \in D : F[k] \in E
  BY <1>14
<1> QED
  BY <1>15 DEF F, D

\* The part every vertex of pHyper is in after the merges.
Finals == [v \in 0 .. nvtxs - 1 |-> LastPart[part[v]]]

\* The inductive invariant of mergeParts and doWriting: the merging ends with no pair
\* left, and the lines written so far number the parts.
WriteInv ==
  /\ pc \notin {"write", "done"} => label = <<>>
  /\ pc \in {"write", "done"} => NoneLeft /\ Labelled(label, Finals, nvtxs)
  /\ pc = "done" => Len(label) = nvtxs

\* The next line of partition.txt.
LEMMA LineLabelled ==
  ASSUME SplitInv, WriteInv, WriteLine
  PROVE  Labelled(label', Finals, nvtxs)
<1> DEFINE v == Len(label)
           f == Finals
           n == nvtxs
           known == {u \in 0 .. v - 1 : LastPart[part[u]] = LastPart[part[v]]}
<1>1. Labelled(label, f, n) /\ v < n /\ n \in Nat /\ v \in Nat
  <2>1. Labelled(label, f, n) /\ v < n
    BY DEF WriteInv, WriteLine
  <2>2. n \in Nat
    BY UnderRoot DEF SplitInv, Shaped, Spanned, Core, nvtxs
  <2>3. v \in Nat
    BY <2>1, LenProperties DEF Labelled
  <2> QED
    BY <2>1, <2>2, <2>3
<1>2. label' = Append(label, IF known # {} THEN label[(CHOOSE u \in known : TRUE) + 1]
                             ELSE Cardinality({LastPart[part[u]] : u \in 0 .. v - 1}))
  BY DEF WriteLine
<1>3. \A u \in 0 .. n - 1 : f[u] = LastPart[part[u]]
  BY DEF Finals
<1> HIDE DEF v, f, n
<1>4. v \in 0 .. n - 1 /\ \A u \in 0 .. v - 1 : u \in 0 .. n - 1
  BY <1>1
<1>5. known = {u \in 0 .. v - 1 : f[u] = f[v]}
  BY <1>3, <1>4
<1>6. {LastPart[part[u]] : u \in 0 .. v - 1} = Seen(f, v)
  BY <1>3, <1>4 DEF Seen
<1> HIDE DEF known
<1>7. CASE known # {}
  <2> DEFINE u == CHOOSE u \in known : TRUE
  <2>1. u \in known
    BY <1>7
  <2> HIDE DEF u
  <2>2. u \in 0 .. v - 1 /\ f[u] = f[v]
    BY <1>5, <2>1
  <2>3. label' = Append(label, label[u + 1])
    BY <1>2, <1>7 DEF u
  <2>4. Labelled(Append(label, label[u + 1]), f, n)
    BY <1>1, <2>2, LabelledAgain DEF v
  <2> QED
    BY <2>3, <2>4 DEF f, n
<1>8. CASE known = {}
  <2>1. \A u \in 0 .. v - 1 : f[u] # f[v]
    BY <1>5, <1>8
  <2>2. label' = Append(label, Cardinality(Seen(f, v)))
    BY <1>2, <1>6, <1>8
  <2>3. Labelled(Append(label, Cardinality(Seen(f, v))), f, n)
    BY <1>1, <2>1, LabelledNew DEF v
  <2> QED
    BY <2>2, <2>3 DEF f, n
<1> QED
  BY <1>7, <1>8

\* mergeParts and doWriting keep the invariant.
LEMMA NextWrites == SplitInv /\ WriteInv /\ [Next]_vars => WriteInv'
<1> SUFFICES ASSUME SplitInv, WriteInv, [Next]_vars
             PROVE  WriteInv'
  OBVIOUS
<1> DEFINE Still == tree' = tree /\ part' = part /\ partnum' = partnum /\ mapForLastPart' = mapForLastPart
<1>1. ASSUME Still
      PROVE  Finals' = Finals /\ nvtxs' = nvtxs /\ NoneLeft' = NoneLeft
  <2>1. LastPart' = LastPart
    BY <1>1 DEF LastPart
  <2>2. nvtxs' = nvtxs /\ Finals' = Finals
    BY <1>1, <2>1 DEF Finals, nvtxs
  <2>3. Pairs' = Pairs
    BY <1>1 DEF Pairs, Parts
  <2>4. ASSUME NEW p PROVE Count(p)' = Count(p)
    BY <1>1, <2>1 DEF Count, EdgesBetweenParts, Edges, PartsOf
  <2>5. NoneLeft' = NoneLeft
    BY <2>3, <2>4 DEF NoneLeft
  <2> QED
    BY <2>2, <2>5
<1>0. nvtxs \in Nat
  BY UnderRoot DEF SplitInv, Shaped, Spanned, Core, nvtxs
<1>2. CASE SplitStep /\ UNCHANGED mergeVars
  <2>1. pc = "split" /\ pc' \in {"split", "merge"} /\ label' = label
    BY <1>2 DEF SplitStep, TooSmall, NotParted, Parted, dfsForWriteParts, mergeVars
  <2> QED
    BY <2>1 DEF WriteInv
<1>3. CASE MergeRound
  <2>1. pc = "merge" /\ pc' = pc /\ label' = label
    BY <1>3 DEF MergeRound, splitVars
  <2> QED
    BY <2>1 DEF WriteInv
<1>4. ASSUME pc = "merge", NoneLeft, Still, label' = label, pc' \in {"write", "crash", "hang"}
      PROVE  WriteInv'
  <2>1. label' = <<>>
    BY <1>4 DEF WriteInv
  <2>2. Finals' = Finals /\ nvtxs' = nvtxs /\ NoneLeft'
    BY <1>1, <1>4
  <2>3. Labelled(label, Finals, nvtxs)
    <3>1. label = <<>>
      BY <1>4, <2>1
    <3> QED
      BY <1>0, <3>1, LabelledEmpty
  <2>4. Labelled(label', Finals', nvtxs')
    BY <1>4, <2>2, <2>3
  <2> QED
    BY <1>4, <2>1, <2>2, <2>4 DEF WriteInv
<1>5. CASE EndMerge
  BY <1>4, <1>5 DEF EndMerge, mergeVars
<1>6. CASE WildGraph
  <2>1. pc = "merge" /\ pMyGraph = 0 /\ Still /\ label' = label /\ pc' \in {"write", "crash", "hang"}
    BY <1>6 DEF WildGraph, mergeVars
  <2>2. partnum = 1
    <3>1. Len(tree) = 1
      BY <2>1 DEF SplitInv
    <3>2. pc # "split"
      BY <2>1
    <3> QED
      BY <3>1, <3>2, SplitNumbers
  <2>3. Pairs = {}
    BY <2>2 DEF Pairs, Parts
  <2>4. NoneLeft
    BY <2>3 DEF NoneLeft
  <2> QED
    BY <1>4, <2>1, <2>4
<1>7. CASE WriteLine
  <2>1. pc = "write" /\ pc' = pc /\ Still
    BY <1>7 DEF WriteLine, splitVars
  <2>2. Finals' = Finals /\ nvtxs' = nvtxs /\ NoneLeft'
    BY <1>1, <2>1 DEF WriteInv
  <2>3. Labelled(label', Finals, nvtxs)
    BY <1>7, LineLabelled
  <2>4. Labelled(label', Finals', nvtxs')
    BY <2>2, <2>3
  <2> QED
    BY <2>1, <2>2, <2>4 DEF WriteInv
<1>8. ASSUME Still, label' = label,
             \/ pc' = pc
             \/ pc = "write" /\ pc' = "done" /\ Len(label) = nvtxs
      PROVE  WriteInv'
  <2>1. Finals' = Finals /\ nvtxs' = nvtxs /\ NoneLeft' = NoneLeft
    BY <1>1, <1>8
  <2>2. pc' \notin {"write", "done"} => label' = <<>>
    BY <1>8 DEF WriteInv
  <2>3. ASSUME pc' \in {"write", "done"} PROVE NoneLeft' /\ Labelled(label', Finals', nvtxs')
    <3>1. NoneLeft /\ Labelled(label, Finals, nvtxs)
      BY <1>8, <2>3 DEF WriteInv
    <3> QED
      BY <1>8, <2>1, <3>1
  <2>4. ASSUME pc' = "done" PROVE Len(label') = nvtxs'
    <3>1. Len(label) = nvtxs
      BY <1>8, <2>4 DEF WriteInv
    <3> QED
      BY <1>8, <2>1, <3>1
  <2> QED
    BY <2>2, <2>3, <2>4 DEF WriteInv
<1>9. CASE EndWrite
  BY <1>8, <1>9 DEF EndWrite, mergeVars
<1>10. CASE UNCHANGED vars
  BY <1>8, <1>10 DEF vars, splitVars, mergeVars
<1>11. CASE Closed
  BY <1>10, <1>11 DEF Closed
<1> QED
  BY <1>2, <1>3, <1>5, <1>6, <1>7, <1>9, <1>10, <1>11 DEF Next

\* The parts that are written have no more than one edge in common.
LEMMA WrittenApart == SplitInv /\ ChainsDescend /\ WriteInv => PartsApart
<1> SUFFICES ASSUME SplitInv, ChainsDescend, WriteInv, pc = "done",
                    NEW a \in Range(label), NEW b \in Range(label), a # b
             PROVE  Cardinality({e \in Edges : {a, b} \subseteq {label[v + 1] : v \in Range(tree[1].eind[e])}}) <= 1
  BY DEF PartsApart
<1> DEFINE n == nvtxs
           f == Finals
           V == 0 .. n - 1
           eind == tree[1].eind
<1>1. /\ partnum \in Nat /\ part \in [V -> 0 .. partnum - 1]
  BY SplitNumbers DEF nvtxs
<1>2. NoneLeft /\ Labelled(label, f, n) /\ Len(label) = n
  BY DEF WriteInv
<1>3. n \in Nat /\ eind \in Seq(Seq(V)) /\ Edges = 1 .. Len(eind)
  <2>1. Spanned(Core(tree[1]))
    BY UnderRoot DEF SplitInv, Shaped
  <2>2. n \in Nat /\ eind \in Seq(Seq(V))
    BY <2>1 DEF Spanned, Core, nvtxs
  <2> QED
    BY <2>2, LenProperties DEF Edges
<1>4. \A v \in V : f[v] = LastPart[part[v]]
  BY DEF Finals
<1>5. \A v \in V : f[v] \in Parts
  <2>1. \A k \in 0 .. partnum - 1 : LastPart[k] \in 0 .. partnum - 1
    BY <1>1, ChainEndsType DEF ChainsDescend, LastPart
  <2> QED
    BY <1>1, <1>4, <2>1 DEF Parts
<1>6. DOMAIN label = 1 .. n /\ Agrees(label, f)
  BY <1>2, LenProperties DEF Labelled
<1>7. PICK x \in 1 .. n, y \in 1 .. n : a = label[x] /\ b = label[y]
  BY <1>6 DEF Range
<1> DEFINE u == x - 1
           w == y - 1
           i == f[u]
           j == f[w]
<1>8. u \in V /\ w \in V /\ x = u + 1 /\ y = w + 1
  BY <1>3
<1>9. \A v \in V : /\ label[v + 1] = a <=> f[v] = i
                   /\ label[v + 1] = b <=> f[v] = j
  <2> SUFFICES ASSUME NEW v \in V
               PROVE  /\ label[v + 1] = label[x] <=> f[v] = f[x - 1]
                      /\ label[v + 1] = label[y] <=> f[v] = f[y - 1]
    BY <1>7
  <2>1. v + 1 \in 1 .. n /\ (v + 1) - 1 = v
    BY <1>3
  <2>2. \A k, m \in 1 .. n : label[k] = label[m] <=> f[k - 1] = f[m - 1]
    BY <1>2, <1>6 DEF Agrees
  <2>3. /\ label[v + 1] = label[x] <=> f[(v + 1) - 1] = f[x - 1]
        /\ label[v + 1] = label[y] <=> f[(v + 1) - 1] = f[y - 1]
    BY <2>1, <2>2
  <2> QED
    BY <2>1, <2>3
<1>10. i # j
  <2>1. label[u + 1] = a /\ label[w + 1] = b
    BY <1>7, <1>8
  <2> HIDE DEF u, w, i, j
  <2>2. f[u] = i /\ f[w] = j
    BY DEF i, j
  <2> QED
    BY <1>8, <1>9, <2>1, <2>2
<1>11. i \in Parts /\ j \in Parts
  BY <1>5, <1>8
<1> HIDE DEF u, w, i, j, f
<1>12. ASSUME NEW e \in Edges
       PROVE  {a, b} \subseteq {label[v + 1] : v \in Range(eind[e])} <=> {i, j} \subseteq PartsOf(e)
  <2> DEFINE R == Range(eind[e])
  <2>1. R \subseteq V
    <3>1. eind[e] \in Seq(V)
      BY <1>3, ElementOfSeq
    <3> HIDE DEF V, eind
    <3> QED
      BY <3>1, LenProperties, ElementOfSeq DEF Range
  <2>2. PartsOf(e) = {LastPart[part[v]] : v \in R}
    BY DEF PartsOf
  <2> HIDE DEF R, V
  <2>3. PartsOf(e) = {f[v] : v \in R}
    BY <1>4, <2>1, <2>2
  <2>4. (a \in {label[v + 1] : v \in R} <=> i \in {f[v] : v \in R})
        /\ (b \in {label[v + 1] : v \in R} <=> j \in {f[v] : v \in R})
    BY <1>9, <2>1
  <2>5. {a, b} \subseteq {label[v + 1] : v \in R} <=> {i, j} \subseteq PartsOf(e)
    BY <2>3, <2>4
  <2> QED
    BY <2>5 DEF R
<1>13. {e \in Edges : {a, b} \subseteq {label[v + 1] : v \in Range(eind[e])}}
         = {e \in Edges : {i, j} \subseteq PartsOf(e)}
  BY <1>12
<1>14. EdgesBetweenParts(i, j) <= 1
  <2>1. i \in Int /\ j \in Int
    BY <1>1, <1>11 DEF Parts
  <2>2. CASE i < j
    <3>1. <<i, j>> \in Pairs
      BY <1>11, <2>2 DEF Pairs
    <3>2. Count(<<i, j>>) = EdgesBetweenParts(i, j)
      BY DEF Count
    <3> QED
      BY <1>2, <3>1, <3>2 DEF NoneLeft
  <2>3. CASE j < i
    <3>1. <<j, i>> \in Pairs
      BY <1>11, <2>3 DEF Pairs
    <3>2. Count(<<j, i>>) = EdgesBetweenParts(j, i)
      BY DEF Count
    <3>3. {i, j} = {j, i}
      OBVIOUS
    <3>4. EdgesBetweenParts(i, j) = EdgesBetweenParts(j, i)
      BY <3>3, Zenon DEF EdgesBetweenParts
    <3> QED
      BY <1>2, <3>1, <3>2, <3>4 DEF NoneLeft
  <2> QED
    BY <1>10, <2>1, <2>2, <2>3
<1> QED
  BY <1>13, <1>14 DEF EdgesBetweenParts, eind

\* The numbers that are written.
LEMMA WrittenInOrder == SplitInv /\ WriteInv => LabelsInOrder
<1> SUFFICES ASSUME SplitInv, WriteInv PROVE LabelsInOrder
  OBVIOUS
<1>1. CASE label = <<>>
  <2>1. Len(label) = 0
    BY <1>1
  <2>2. 1 .. Len(label) = {}
    BY <2>1
  <2> QED
    BY <2>2 DEF LabelsInOrder
<1>2. CASE label # <<>>
  <2> DEFINE n == nvtxs
             f == Finals
             V == 0 .. n - 1
             m == Len(label)
             L == LeafSeq(tree)[1]
  <2>1. pc \in {"write", "done"} /\ Labelled(label, f, n)
    BY <1>2 DEF WriteInv
  <2>2. \A v \in V : part[v] = PartOf(tree, v)
    BY <2>1, SplitNumbers DEF nvtxs
  <2>3. n \in Nat /\ m \in Nat /\ m <= n
    <3>1. Spanned(Core(tree[1]))
      BY UnderRoot DEF SplitInv, Shaped
    <3>2. n \in Nat
      BY <3>1 DEF Spanned, Core, nvtxs
    <3> QED
      BY <2>1, <3>2, LenProperties DEF Labelled
  <2>4. \A v \in V : f[v] = LastPart[part[v]]
    BY DEF Finals
  <2>5. Ordered(label) /\ \A u, v \in 1 .. m : label[u] = label[v] <=> f[u - 1] = f[v - 1]
    BY <2>1 DEF Labelled, Agrees
  <2>6. \A u \in 1 .. m : u - 1 \in V
    BY <2>3
  <2>7. \A u, v \in V : (\E i \in Range(L) : {u, v} \subseteq Under(tree, i))
                          => PartOf(tree, u) = PartOf(tree, v)
    BY SamePart DEF SplitInv, nvtxs
  <2> HIDE DEF f, n, V, m, L
  <2>8. ASSUME NEW u \in 1 .. m, NEW v \in 1 .. m
        PROVE  /\ label[u] = label[v] <=> LastPart[part[u - 1]] = LastPart[part[v - 1]]
               /\ (\E i \in Range(L) : {u - 1, v - 1} \subseteq Under(tree, i)) => label[u] = label[v]
    <3>1. u - 1 \in V /\ v - 1 \in V
      BY <2>6
    <3>2. label[u] = label[v] <=> LastPart[part[u - 1]] = LastPart[part[v - 1]]
      BY <2>4, <2>5, <3>1
    <3>3. ASSUME \E i \in Range(L) : {u - 1, v - 1} \subseteq Under(tree, i)
          PROVE  label[u] = label[v]
      <4>1. PartOf(tree, u - 1) = PartOf(tree, v - 1)
        BY <2>7, <3>1, <3>3
      <4>2. part[u - 1] = part[v - 1]
        BY <2>2, <3>1, <4>1
      <4> QED
        BY <3>2, <4>2
    <3> QED
      BY <3>2, <3>3
  <2>9. \A v \in 1 .. m : \A c \in 0 .. label[v] - 1 : \E u \in 1 .. v - 1 : label[u] = c
    BY <2>5 DEF Ordered, m
  <2> QED
    BY <2>8, <2>9 DEF LabelsInOrder, m, L
<1> QED
  BY <1>1, <1>2

\* The invariant holds throughout.
LEMMA WriteHolds == Spec => []WriteInv
<1>1. Init => WriteInv
  BY DEF Init, SplitInit, WriteInv
<1> QED
  BY <1>1, SplitHolds, NextWrites, PTL DEF Spec

\* For every hypergraph and every sequence of splits and merges: the parts written to
\* partition.txt have at most one edge in common, two by two, also where pMyGraph was
\* never set and there was nothing to merge.
THEOREM MergePartsApart == Spec => []PartsApart
<1> QED
  BY SplitHolds, MergeChainsDescend, WriteHolds, WrittenApart, PTL

\* The numbers in partition.txt are 0, 1, 2, ... as the parts first occur, and two
\* classes have the same number exactly when their parts were merged.
THEOREM MergeLabelsInOrder == Spec => []LabelsInOrder
<1> QED
  BY SplitHolds, WriteHolds, WrittenInOrder, PTL

-----------------------------------------------------------------------------
(***************************************************************************)
(* mergeParts ends.                                                        *)
(***************************************************************************)

\* The parts an edge touches were not merged into others.
LEMMA TouchedAreEnds ==
  ASSUME SplitInv, ChainsDescend, pc # "split", NEW e \in Edges
  PROVE  PartsOf(e) \subseteq Parts \ DOMAIN mapForLastPart
<1> DEFINE V == 0 .. tree[1].n - 1
           eind == tree[1].eind
           s == eind[e]
<1>1. partnum \in Nat /\ part \in [V -> 0 .. partnum - 1]
  BY SplitNumbers
<1>2. s \in Seq(V)
  <2>1. Spanned(Core(tree[1]))
    BY UnderRoot DEF SplitInv, Shaped
  <2>2. eind \in Seq(Seq(V))
    BY <2>1 DEF Spanned, Core
  <2>3. e \in 1 .. Len(eind)
    BY <2>2, LenProperties DEF Edges
  <2> HIDE DEF V, eind
  <2> QED
    BY <2>2, <2>3, ElementOfSeq
<1>3. \A k \in 0 .. partnum - 1 : LastPart[k] \in (0 .. partnum - 1) \ DOMAIN mapForLastPart
  BY <1>1, ChainEndsType DEF ChainsDescend, LastPart
<1>4. PartsOf(e) = {LastPart[part[v]] : v \in Range(s)}
  BY DEF PartsOf
<1> HIDE DEF V, s
<1>5. \A v \in Range(s) : v \in V
  BY <1>2, LenProperties, ElementOfSeq DEF Range
<1> QED
  BY <1>1, <1>3, <1>4, <1>5 DEF Parts

\* A pair with an edge in common consists of such parts.
LEMMA CountedAreEnds ==
  ASSUME SplitInv, ChainsDescend, pc # "split", NEW p \in Pairs, Count(p) > 1
  PROVE  {p[1], p[2]} \subseteq Parts \ DOMAIN mapForLastPart
<1> DEFINE S == {e \in Edges : {p[1], p[2]} \subseteq PartsOf(e)}
<1>1. Count(p) = Cardinality(S)
  BY DEF Count, EdgesBetweenParts
<1>2. S # {}
  <2>1. Cardinality({}) = 0
    BY FS_EmptySet
  <2> HIDE DEF S
  <2> QED
    BY <1>1, <2>1
<1>3. PICK e \in Edges : {p[1], p[2]} \subseteq PartsOf(e)
  BY <1>2
<1>4. PartsOf(e) \subseteq Parts \ DOMAIN mapForLastPart
  BY TouchedAreEnds
<1> QED
  BY <1>3, <1>4

\* How many parts have not been merged into another one.
MergesLeft == Cardinality(Parts \ DOMAIN mapForLastPart)

\* A round of mergeParts.
LEMMA RoundNarrows ==
  ASSUME SplitInv, ChainsDescend, MergeRound
  PROVE  MergesLeft' < MergesLeft
<1>1. MergeRound /\ pc # "split"
  BY DEF MergeRound
<1> DEFINE map == mapForLastPart
           S == Parts \ DOMAIN map
<1>2. PICK p \in Pairs :
        /\ Count(p) > 1
        /\ \/ \E q \in Others(p) : map' = Merged(Merged(map, p), q)
           \/ map' = Merged(map, p)
  BY <1>1 DEF MergeRound
<1>3. DOMAIN map \cup {p[2]} \subseteq DOMAIN map'
  <2>1. \A m, q : DOMAIN Merged(m, q) = DOMAIN m \cup {q[2]}
    BY DEF Merged
  <2>2. DOMAIN map \cup {p[2]} \subseteq DOMAIN Merged(map, p)
    BY <2>1
  <2>3. \A q : DOMAIN Merged(map, p) \subseteq DOMAIN Merged(Merged(map, p), q)
    BY <2>1
  <2> QED
    BY <1>2, <2>2, <2>3
<1>4. p[2] \in S
  BY <1>1, <1>2, CountedAreEnds
<1>5. Parts' = Parts /\ partnum \in Nat
  <2>1. partnum' = partnum
    BY <1>1 DEF MergeRound, splitVars
  <2> QED
    BY <1>1, <2>1, SplitNumbers DEF Parts
<1> DEFINE R == Parts \ DOMAIN map'
<1>6. MergesLeft = Cardinality(S) /\ MergesLeft' = Cardinality(R)
  BY <1>5 DEF MergesLeft
<1>7. IsFiniteSet(S)
  <2>1. IsFiniteSet(Parts)
    BY <1>5, FS_Interval DEF Parts
  <2> QED
    BY <2>1, FS_Subset
<1>8. R \subseteq S /\ R # S
  BY <1>3, <1>4
<1> HIDE DEF S, R
<1>9. Cardinality(R) < Cardinality(S)
  <2>1. /\ IsFiniteSet(R) /\ Cardinality(R) <= Cardinality(S)
        /\ Cardinality(R) = Cardinality(S) => R = S
    BY <1>7, <1>8, FS_Subset
  <2>2. Cardinality(R) \in Nat /\ Cardinality(S) \in Nat
    BY <1>7, <2>1, FS_CardinalityType
  <2> QED
    BY <1>8, <2>1, <2>2
<1> QED
  BY <1>6, <1>9

\* For every hypergraph and any splits of it, a pair mergeParts would merge is of parts
\* that were not merged before.
THEOREM MergeNoRoundInVain == Spec => []NoRoundInVain
<1>1. SplitInv /\ ChainsDescend => NoRoundInVain
  <2> SUFFICES ASSUME SplitInv, ChainsDescend, pc = "merge", NEW p \in Pairs, Count(p) > 1
               PROVE  {p[1], p[2]} \cap DOMAIN mapForLastPart = {}
    BY DEF NoRoundInVain
  <2>1. {p[1], p[2]} \subseteq Parts \ DOMAIN mapForLastPart
    BY CountedAreEnds
  <2> QED
    BY <2>1
<1> QED
  BY <1>1, SplitHolds, MergeChainsDescend, PTL

\* So mergeParts ends: with every round fewer parts are left to be merged.
THEOREM MergeRoundsNarrow == Spec => [][MergeRound => MergesLeft' < MergesLeft]_vars
<1>1. SplitInv /\ ChainsDescend /\ [Next]_vars => [MergeRound => MergesLeft' < MergesLeft]_vars
  BY RoundNarrows
<1> QED
  BY <1>1, SplitHolds, MergeChainsDescend, PTL DEF Spec

=============================================================================
