----------------------------- MODULE Hypergraph -----------------------------
(***************************************************************************)
(* The adjacency lists of CMygraph and the measures CMultilevel takes of a *)
(* two-way partition.                                                      *)
(*                                                                         *)
(* A graph g has the vertices 0 .. g.n - 1 and a sequence of edges:        *)
(* g.eind[i] lists the vertices of edge i in the order of eptr/eind, each  *)
(* once, and g.w[i] is its weight.  Vertices weigh 1 (createHypergraph and *)
(* createSubGraph give them no other weight), so an edge's nodeNum is the  *)
(* number of its vertices.                                                 *)
(***************************************************************************)
EXTENDS Integers, SequencesExt, FirstSeen

\* A multiple of every count a graph can have: modularities are multiples of
\* 1 / (Unit * Unit), so they are kept as integers, scaled by Unit * Unit.
CONSTANT Unit

ASSUME UnitAssumption == Unit \in Nat \ {0}

Vertices(g) == 0 .. g.n - 1
Edges(g)    == 1 .. Len(g.eind)

\* A graph as CMygraph keeps it: every edge lists some vertices, each once.
IsGraph(g) ==
  /\ g.n \in Nat
  /\ g.eind \in Seq(Seq(Vertices(g)))
  /\ \A i \in Edges(g) : g.eind[i] # <<>> /\ IsInjective(g.eind[i])
  /\ g.w \in [Edges(g) -> Nat]

\* pAllEdges[i].firstarc: CMygraph(CHypergraph*) pushes every vertex in front.
Arcs(g, i) == Reverse(g.eind[i])

\* The entries of s with key b: each is pushed in front of the chain.
Chain(s, key, b) ==
  LET Pushed[k \in 0 .. Len(s)] ==
        IF k = 0 THEN <<>>
        ELSE LET chain == Pushed[k - 1]
             IN  IF key[s[k]] = b THEN <<s[k]>> \o chain ELSE chain
  IN  Pushed[Len(s)]

\* pAllVertices[v].firstarc: every edge of v is pushed in front.
EdgesOf(g, v) ==
  Chain([i \in Edges(g) |-> i], [i \in Edges(g) |-> v \in ToSet(g.eind[i])], TRUE)

\* An edge with vertices in both parts.
IsCut(g, part, i) == \E v \in ToSet(g.eind[i]) : part[v] # part[g.eind[i][1]]

\* The cut edges, the first one first.
FindCutEdges(g, part) ==
  LET Found[k \in 0 .. Len(g.eind)] ==
        IF k = 0 THEN <<>>
        ELSE LET found == Found[k - 1]
             IN  IF IsCut(g, part, k) THEN Append(found, k) ELSE found
  IN  Found[Len(g.eind)]

\* The vertices of the cut edges, each once.
FindCutNodes(g, cutEdges) ==
  FirstSeen(FlattenSeq([k \in 1 .. Len(cutEdges) |-> Arcs(g, cutEdges[k])]))

\* How NodeRank and coarseningGraph sort: one chain for every key, read from the
\* largest key down.
LargestFirst(s, key) ==
  LET max == Max({0} \cup {key[s[k]] : k \in 1 .. Len(s)})
  IN  FlattenSeq([b \in 1 .. max + 1 |-> Chain(s, key, max + 1 - b)])

\* Node_Rank of the cut nodes: the vertices of the larger cut edges rank first,
\* among edges of one size those of the later edge.
NodeRank(g, cutEdges) ==
  LET picked == LargestFirst(cutEdges, [i \in Edges(g) |-> Len(g.eind[i])])
      ranked == FirstSeen(FlattenSeq([k \in 1 .. Len(picked) |-> Arcs(g, picked[k])]))
  IN  [v \in ToSet(ranked) |-> (CHOOSE r \in 1 .. Len(ranked) : ranked[r] = v) - 1]

\* innerEdgeValue of the edges S, all within one part, scaled by Unit.
innerEdgeValue(g, S) == MapThenSumSet(LAMBDA i : g.w[i] * (Unit - Unit \div Len(g.eind[i])), S)

\* cutEdgeValue of the edges S.
cutEdgeValue(g, S) == MapThenSumSet(LAMBDA i : g.w[i], S)

\* innerVertCount: the vertices the edges S have.
innerVertCount(g, S) == Cardinality(UNION {ToSet(g.eind[i]) : i \in S})

\* ComputeModularity: the cohesion of the two parts minus their coupling, or
\* -1000 when a part has no edge of its own.
ComputeModularity(g, part) ==
  LET cut      == {i \in Edges(g) : IsCut(g, part, i)}
      inner(k) == {i \in Edges(g) \ cut : part[g.eind[i][1]] = k}
      share(k) == (2 * innerEdgeValue(g, inner(k)) - cutEdgeValue(g, cut) * Unit)
                    * (Unit \div innerVertCount(g, inner(k)))
  IN  IF inner(0) # {} /\ inner(1) # {} THEN share(0) + share(1) ELSE -1000 * Unit * Unit

\* Faulty: the vertex is put into part 0 whatever part it was in.
FaultyFlip(part, v) == [part EXCEPT ![v] = 0]

\* A vertex changes parts.
Flip(part, v) == [part EXCEPT ![v] = 1 - @]

=============================================================================
