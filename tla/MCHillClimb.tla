---------------------------- MODULE MCHillClimb -----------------------------
(***************************************************************************)
(* Hill climbing on every small graph of a family: NumVertices vertices,   *)
(* NumEdges edges, every vertex in some edge and numbered as               *)
(* createHypergraph and createSubGraph do.                                 *)
(***************************************************************************)
EXTENDS HillClimb, RootGraph
CONSTANTS NumVertices, NumEdges, MinSize, MaxSize, Weights

\* The vertex sets an edge can have, each as an increasing sequence.
EdgeLists == {SetToSortSeq(S, <) : S \in {T \in SUBSET (0 .. NumVertices - 1) :
                                            Cardinality(T) \in MinSize .. MaxSize}}

AllGraphs ==
  {[n |-> NumVertices, eind |-> e, w |-> w] :
     e \in {f \in [1 .. NumEdges -> EdgeLists] :
              /\ UNION {ToSet(f[i]) : i \in 1 .. NumEdges} = 0 .. NumVertices - 1},
     w \in [1 .. NumEdges -> Weights]}

\* Edges of weight 0 are those an earlier split has cut; only they can have one
\* vertex.
MCGraphs == {h \in AllGraphs : /\ InOrder(h) /\ OneEdgePerClass(h)
                               /\ \A i \in Edges(h) : Len(h.eind[i]) = 1 => h.w[i] = 0}
=============================================================================
