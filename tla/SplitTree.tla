----------------------------- MODULE SplitTree ------------------------------
(***************************************************************************)
(* CTestCaseCpp::doHmetis with createSubGraph and dfsForWriteParts: a      *)
(* testcase's hypergraph is split in two again and again, breadth first,   *)
(* and the leaves of the tree of graphs become the parts of the testcase.  *)
(*                                                                         *)
(* myPartition is module MyPartition.  Here it may refuse to split a graph *)
(* or return any partition at all, one with an empty part included, so the *)
(* properties do not depend on the quality of its answers.                 *)
(***************************************************************************)
EXTENDS Integers, SequencesExt, FirstSeen, RootGraph

CONSTANTS
  Roots,      \* pHyper: the hypergraphs createHypergraph can hand over
  END_NUM     \* graphs with fewer vertices are not split (3 in the code)

ASSUME EndAssumption == END_NUM \in Nat

\* What module Parsing shows of createHypergraph.
ASSUME RootsAssumption == \A r \in Roots : IsRoot(r)

VARIABLES
  pc,         \* "split", then "merge" (and what module MergeParts adds)
  tree,       \* the graphs made so far, pHyper first
  subGraph,   \* the queue of graphs to look at, as positions in tree
  pMyGraph,   \* the root position once the member has been set, 0 before
  part,       \* pHyper->part as dfsForWriteParts fills it
  partnum     \* what dfsForWriteParts returns

splitVars == <<pc, tree, subGraph, pMyGraph, part, partnum>>

\* A CHypergraph: n vertices 0 .. n - 1, the vertices of every edge and its
\* weight, fatherGraph with mapForFather and the sons (0 is NULL).  floor is 1 in
\* pHyper alone, which has no father.
Node(n, eind, w, fatherGraph, mapForFather) ==
  [n |-> n, eind |-> eind, w |-> w, fatherGraph |-> fatherGraph,
   mapForFather |-> mapForFather, leftSon |-> 0, rightSon |-> 0]

SplitInit ==
  /\ pc = "split"
  /\ \E r \in Roots : tree = <<Node(r.n, r.eind, r.w, 0, <<>>)>>
  /\ subGraph = <<1>>
  /\ pMyGraph = 0
  /\ part = <<>> /\ partnum = 0

\* Faulty: an edge that is cut is dropped from both sons.
FaultySonEdges(eind, p, k) ==
  Among([i \in DOMAIN eind |-> i], {i \in DOMAIN eind : \A v \in Range(eind[i]) : p[v] = k})

\* The edges that have a vertex in part k of partition p.
SonEdges(eind, p, k) ==
  Among([i \in DOMAIN eind |-> i], {i \in DOMAIN eind : \E v \in Range(eind[i]) : p[v] = k})

\* What is left of each of them in part k.
SonLists(eind, p, k) ==
  LET edges == SonEdges(eind, p, k)
  IN  [e \in DOMAIN edges |-> Among(eind[edges[e]], {v \in DOMAIN p : p[v] = k})]

\* The vertices of part k, as they come up in the edges.
SonVertices(eind, p, k) == FirstSeen(FlattenSeq(SonLists(eind, p, k)))

\* Faulty: an edge keeps its weight when it is cut.
FaultySonWeight(G, p, k, i) == G.w[i]

\* A cut edge goes on with weight 0.
SonWeight(G, p, k, i) == IF \A v \in Range(G.eind[i]) : p[v] = k THEN G.w[i] ELSE 0

\* createSubGraph for part k of G, which is graph number gi: its vertices are
\* numbered as they come up in the edges, mapForFather leads back.
createSubGraph(G, gi, p, k) ==
  LET edges == SonEdges(G.eind, p, k)
      mine  == SonLists(G.eind, p, k)
      verts == SonVertices(G.eind, p, k)
      Number(v) == (CHOOSE j \in DOMAIN verts : verts[j] = v) - 1
  IN  Node(Len(verts),
           [e \in DOMAIN edges |-> [j \in DOMAIN mine[e] |-> Number(mine[e][j])]],
           [e \in DOMAIN edges |-> SonWeight(G, p, k, edges[e])],
           gi, [x \in 0 .. Len(verts) - 1 |-> verts[x + 1]])

\* p, the graph at the front of the queue.
Current == tree[Head(subGraph)]

\* doHmetis tells small graphs from graphs worth splitting.
Splittable == Current.n > END_NUM - 1

\* After myPartition on the root, its adjacency lists are kept for mergeParts.
KeepGraph == pMyGraph' = IF Current.fatherGraph = 0 THEN Head(subGraph) ELSE pMyGraph

\* A small graph becomes an end part.
TooSmall ==
  /\ pc = "split" /\ subGraph # <<>> /\ ~Splittable
  /\ subGraph' = Tail(subGraph)
  /\ UNCHANGED <<pc, tree, pMyGraph, part, partnum>>

\* myPartition finds no split: the graph becomes an end part.
NotParted ==
  /\ pc = "split" /\ subGraph # <<>> /\ Splittable
  /\ KeepGraph
  /\ subGraph' = Tail(subGraph)
  /\ UNCHANGED <<pc, tree, part, partnum>>

\* Faulty: sons are queued without a look at their size.
FaultyQueueSons(left, right) == Tail(subGraph) \o <<Len(tree) + 1, Len(tree) + 2>>

\* The sons are looked at later, unless one of them is empty.
QueueSons(left, right) ==
  IF left.n # 0 /\ right.n # 0 THEN Tail(subGraph) \o <<Len(tree) + 1, Len(tree) + 2>>
                               ELSE Tail(subGraph)

\* myPartition returns the split p.
Parted(p) ==
  /\ pc = "split" /\ subGraph # <<>> /\ Splittable
  /\ KeepGraph
  /\ LET gi    == Head(subGraph)
         left  == createSubGraph(Current, gi, p, 0)
         right == createSubGraph(Current, gi, p, 1)
     IN  /\ tree' = [tree EXCEPT ![gi].leftSon = Len(tree) + 1, ![gi].rightSon = Len(tree) + 2]
                      \o <<left, right>>
         /\ subGraph' = QueueSons(left, right)
  /\ UNCHANGED <<pc, part, partnum>>

\* The leaves below each graph of a tree, the left ones first.
LeafSeq(t) ==
  LET Leaves[i \in 1 .. Len(t)] ==
        IF t[i].leftSon = 0 THEN <<i>> ELSE Leaves[t[i].leftSon] \o Leaves[t[i].rightSon]
  IN  Leaves

\* The vertices of pHyper that the vertices of each graph of a tree stand for.
Lift(t) ==
  LET Up[i \in 1 .. Len(t)] ==
        [x \in 0 .. t[i].n - 1 |->
           IF t[i].fatherGraph = 0 THEN x ELSE Up[t[i].fatherGraph][t[i].mapForFather[x]]]
  IN  Up

\* The vertices of pHyper in graph i.
Under(t, i) == Range(Lift(t)[i])

\* Faulty: a right subtree is numbered from count, without the parts before it.
FaultyPartsBefore(t) ==
  LET Before[i \in 1 .. Len(t)] ==
        LET father == t[i].fatherGraph
        IN  IF father = 0 THEN 0
            ELSE IF i = t[father].rightSon THEN Len(LeafSeq(t)[t[father].leftSon])
            ELSE Before[father]
  IN  Before

\* parts, with which dfsForWriteParts is called for each graph of a tree: the right
\* son comes after the count of leaves below the left one.
PartsBefore(t) ==
  LET Before[i \in 1 .. Len(t)] ==
        LET father == t[i].fatherGraph
        IN  IF father = 0 THEN 0
            ELSE IF i = t[father].rightSon THEN Before[father] + Len(LeafSeq(t)[t[father].leftSon])
            ELSE Before[father]
  IN  Before

\* What dfsForWriteParts writes for a vertex of pHyper when it is at its leaf.
PartOf(t, v) == PartsBefore(t)[CHOOSE i \in Range(LeafSeq(t)[1]) : v \in Under(t, i)]

\* The queue is empty: mergeParts begins with dfsForWriteParts.
dfsForWriteParts ==
  /\ pc = "split" /\ subGraph = <<>>
  /\ part' = [v \in UNION {Under(tree, i) : i \in Range(LeafSeq(tree)[1])} |-> PartOf(tree, v)]
  /\ partnum' = Len(LeafSeq(tree)[1])
  /\ pc' = "merge"
  /\ UNCHANGED <<tree, subGraph, pMyGraph>>

SplitStep ==
  \/ TooSmall \/ NotParted
  \/ subGraph # <<>> /\ \E p \in [0 .. Current.n - 1 -> {0, 1}] : Parted(p)
  \/ dfsForWriteParts

-----------------------------------------------------------------------------
(***************************************************************************)
(* Properties.                                                             *)
(***************************************************************************)

\* createSubGraph reaches vertices only through edges, yet none is lost or
\* doubled: at any time the leaves divide the vertices of pHyper, and no graph
\* has two vertices for one.
LeavesPartition ==
  /\ \A v \in 0 .. tree[1].n - 1 :
       Cardinality({i \in Range(LeafSeq(tree)[1]) : v \in Under(tree, i)}) = 1
  /\ \A i \in DOMAIN tree : Cardinality(Under(tree, i)) = tree[i].n

\* The edges of pHyper that have vertices in graph i.
Met(t, i) ==
  LET eind == t[1].eind
  IN  Among([e \in DOMAIN eind |-> e], {e \in DOMAIN eind : Range(eind[e]) \cap Under(t, i) # {}})

\* Across any number of splits, the edges of a graph are what is left of pHyper's
\* edges: every edge that has vertices in the graph, in the same order, cut down
\* to them and never empty (CMygraph's loops take the first vertex unchecked),
\* and with its weight only if no split has cut it.
EdgesProject ==
  \A i \in DOMAIN tree :
    LET met == Met(tree, i)
    IN  /\ Len(tree[i].eind) = Len(met) /\ Len(tree[i].w) = Len(met)
        /\ \A e \in DOMAIN met :
             LET whole == tree[1].eind[met[e]]
             IN  /\ [j \in DOMAIN tree[i].eind[e] |-> Lift(tree)[i][tree[i].eind[e][j]]]
                      = Among(whole, Under(tree, i))
                 /\ tree[i].eind[e] # <<>>
                 /\ tree[i].w[e] = IF Range(whole) \subseteq Under(tree, i)
                                     THEN tree[1].w[met[e]] ELSE 0

\* What mergeParts and doWriting rely on: every vertex has a part, parts are
\* numbered below partnum (the size of EdgesBetweenParts), and two vertices have
\* the same part exactly when no split on the way down has parted them.
PartsNumbered ==
  pc # "split" =>
    /\ DOMAIN part = 0 .. tree[1].n - 1
    /\ \A v \in DOMAIN part : part[v] \in 0 .. partnum - 1
    /\ \A u, v \in DOMAIN part :
         part[u] = part[v]
           <=> \A i \in DOMAIN tree : tree[i].leftSon = 0 => (u \in Under(tree, i) <=> v \in Under(tree, i))

\* The sum of a list of numbers.
Total(s) ==
  LET Sum[k \in 0 .. Len(s)] == IF k = 0 THEN 0 ELSE Sum[k - 1] + s[k]
  IN  Sum[Len(s)]

\* The most graphs doHmetis can take from the queue on account of a graph of n
\* vertices.
Takes(n) == IF n = 0 THEN 1 ELSE 2 * n - 1

\* The most graphs doHmetis can still take from the queue.
SplitsLeft == Total([k \in DOMAIN subGraph |-> Takes(tree[subGraph[k]].n)])

\* doHmetis ends whatever myPartition answers: with every graph taken from the
\* queue, the graphs that can still come get fewer.
QueueDrains == [][pc = "split" /\ pc' = pc => SplitsLeft' < SplitsLeft]_splitVars

-----------------------------------------------------------------------------
(***************************************************************************)
(* What developLog.txt says and the code does not do.                      *)
(***************************************************************************)

\* "every testcase goes through the stages reading, parsing, modeling, writing":
\* mergeParts, which ends the modeling stage, finds pMyGraph set.
MergeHasGraph == pc = "merge" => pMyGraph # 0

=============================================================================
