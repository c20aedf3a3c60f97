----------------------------- MODULE RootGraph ------------------------------
(***************************************************************************)
(* What createHypergraph makes of pHyper: IsRoot is what the cutting code  *)
(* takes for granted, the rest only says which graphs it can meet.         *)
(***************************************************************************)
EXTENDS Integers, Sequences, FiniteSets

\* g has the vertices 0 .. g.n - 1, each of them in an edge (createSubGraph and
\* CMygraph reach vertices only through edges); an edge lists at least two
\* vertices, none of them twice, and weighs 1.
IsRoot(g) ==
  LET On(e) == {g.eind[e][j] : j \in DOMAIN g.eind[e]}
  IN  /\ g.n \in Nat /\ g.eind \in Seq(Seq(0 .. g.n - 1))
      /\ UNION {On(e) : e \in DOMAIN g.eind} = 0 .. g.n - 1
      /\ \A e \in DOMAIN g.eind : Len(g.eind[e]) > 1 /\ Cardinality(On(e)) = Len(g.eind[e])
      /\ g.w = [e \in DOMAIN g.eind |-> 1]

\* The vertices are numbered as they first occur in the edges (classtonum in
\* createHypergraph, mapForG1 and mapForG2 in createSubGraph).
InOrder(g) ==
  \A e \in DOMAIN g.eind : \A j \in DOMAIN g.eind[e] : \A v \in 0 .. g.eind[e][j] - 1 :
    \/ \E i \in 1 .. j - 1 : g.eind[e][i] = v
    \/ \E d \in 1 .. e - 1 : \E i \in DOMAIN g.eind[d] : g.eind[d][i] = v

\* No two edges that are whole (a cut one has weight 0) begin with the same class:
\* createHypergraph makes one edge for each class that is called, and lists it first.
OneEdgePerClass(g) ==
  \A d, e \in DOMAIN g.eind : g.w[d] # 0 /\ g.w[e] # 0 /\ g.eind[d][1] = g.eind[e][1] => d = e

=============================================================================
