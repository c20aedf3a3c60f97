--------------------------- MODULE MCMyPartition ----------------------------
(***************************************************************************)
(* Seeding and climbing on a family of graphs, whose edges are intervals   *)
(* of 0 .. NumVertices - 1: connected or not, overlapping or not, with     *)
(* every vertex in some edge and numbered as createHypergraph does.        *)
(***************************************************************************)
EXTENDS MyPartition, RootGraph
CONSTANTS NumVertices, NumEdges, MinSize, MaxSize, Weights

\* The vertices of an edge from a to b.
Interval(a, b) == [k \in 1 .. b - a + 1 |-> a + k - 1]

EdgeLists == {Interval(a, b) : a, b \in 0 .. NumVertices - 1}

AllGraphs ==
  {[n |-> NumVertices, eind |-> e, w |-> w] :
     e \in {f \in [1 .. NumEdges -> EdgeLists] :
              /\ \A i \in 1 .. NumEdges : Len(f[i]) \in MinSize .. MaxSize
              /\ UNION {ToSet(f[i]) : i \in 1 .. NumEdges} = 0 .. NumVertices - 1},
     w \in [1 .. NumEdges -> Weights]}

MCGraphs == {h \in AllGraphs : IsRoot(h) /\ InOrder(h) /\ OneEdgePerClass(h)}

\* A hypergraph createHypergraph can make on which a climb empties a part.
EmptiedGraph ==
  [n |-> 8, eind |-> << <<0, 1>>, <<2, 3, 4, 1, 5, 6, 7>>, <<3, 2, 7>> >>, w |-> <<1, 1, 1>>]

ASSUME EmptiedAssumption == IsRoot(EmptiedGraph) /\ InOrder(EmptiedGraph) /\ OneEdgePerClass(EmptiedGraph)

EmptiedGraphs == {EmptiedGraph}

=============================================================================
