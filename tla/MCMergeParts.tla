---------------------------- MODULE MCMergeParts ----------------------------
(***************************************************************************)
(* Hypergraphs as createHypergraph makes them, with every answer of        *)
(* myPartition.                                                            *)
(***************************************************************************)
EXTENDS MergeParts

Root(n, eind) == [n |-> n, eind |-> eind, w |-> [e \in DOMAIN eind |-> 1]]

\* An edge of two vertices, too small to split, and a testcase without calls.
Pair  == Root(2, <<<<0, 1>>>>)
Empty == Root(0, <<>>)

\* Five classes: overlapping edges of several sizes, one of them twice.
Mesh == Root(5, <<<<0, 1, 2>>, <<3, 1>>, <<4, 3, 0>>, <<1, 3>>>>)

\* One edge over all classes and an edge inside it.
Star == Root(4, <<<<0, 1, 2, 3>>, <<3, 2>>>>)

\* Two components.
Islands == Root(5, <<<<0, 1>>, <<2, 3, 4>>>>)

\* A chain of doubled edges: many merges, in several rounds.
Chain == Root(5, <<<<0, 1>>, <<1, 0>>, <<2, 1, 3>>, <<3, 2>>, <<4, 3, 2>>>>)

MCRoots == {Empty, Pair, Mesh, Star, Islands, Chain}

\* Testcases in which some class calls another one.
CallingRoots == MCRoots \ {Empty}

\* createHypergraph can make them.
ASSUME MadeAssumption == \A r \in MCRoots : InOrder(r) /\ OneEdgePerClass(r)

=============================================================================
