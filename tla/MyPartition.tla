---------------------------- MODULE MyPartition -----------------------------
(***************************************************************************)
(* CMultilevel::myPartition: one two-way split of a graph.  Seeds are      *)
(* drawn at random among the vertices of the coarsened graph, a partition  *)
(* is grown from each and climbed from (module HillClimb), and the best    *)
(* result with a modularity above CRITICAL is kept.                        *)
(***************************************************************************)
EXTENDS HillClimb

CONSTANTS
  MaxRounds,  \* rounds of the seed loop (10 in the code)
  CRITICAL    \* the modularity a split has to exceed (0.0 in the code)

ASSUME RoundsAssumption == MaxRounds \in Nat \ {0}

\* No split worth keeping is below the value modularity starts with.
ASSUME CriticalAssumption == CRITICAL \in Int /\ CRITICAL >= -10000 * Unit * Unit

\* createHypergraph and createSubGraph number only the vertices of edges.
ASSUME CoverAssumption ==
  \A h \in Graphs : \A v \in Vertices(h) : \E e \in Edges(h) : v \in ToSet(h.eind[e])

\* doHmetis divides only graphs of END_NUM = 3 and more vertices.
ASSUME SizeAssumption == \A h \in Graphs : h.n > 2

VARIABLES
  coarse,     \* pCoarsenGraph: the vertices of every coarse vertex
  round,      \* i, the loop counter
  seedexit,   \* the seeds drawn so far
  seedmap,    \* the seeds whose entry of the uninitialised array is 1
  modularity, \* the best modularity kept, scaled
  Modu,       \* p->Modu
  is_parted,  \* p->is_parted
  kept,       \* p->part, <<>> as long as it has not been written
  tried       \* history: the result of every climb

seeding == <<coarse, round, seedexit, seedmap, modularity, Modu, is_parted, kept, tried>>
pvars   == <<vars, seeding>>

\* doHmetis has set p->Modu to 0; seedmap is not initialised.
PInit ==
  /\ pc = "seed"
  /\ g \in Graphs
  /\ coarse = Clusters(g)
  /\ part = <<>> /\ start = <<>>
  /\ cutEdges = <<>> /\ cutNodes = <<>> /\ Node_Rank = <<>>
  /\ list = <<>> /\ heapLen = 0 /\ fixnum = 0 /\ renew = TRUE
  /\ zero = [e \in {} |-> 0]
  /\ hill = <<>> /\ maxModu = 0 /\ trail = <<>>
  /\ round = 0 /\ seedexit = {} /\ seedmap \in SUBSET (DOMAIN coarse)
  /\ modularity = -10000 * Unit * Unit /\ Modu = 0 /\ is_parted = FALSE
  /\ kept = <<>> /\ tried = <<>>

\* rand() % nvetes, while rounds are left.
Draws(seed) ==
  /\ pc = "seed" /\ round < MaxRounds /\ round < Len(coarse)
  /\ seed \in DOMAIN coarse

\* A seed drawn before costs a round.
DrawAgain(seed) ==
  /\ Draws(seed) /\ seed \in seedexit
  /\ round' = round + 1
  /\ UNCHANGED <<vars, coarse, seedexit, seedmap, modularity, Modu, is_parted, kept, tried>>

\* Faulty: the entry is cleared and the seed not remembered.
FaultyDrawMarked(seed) ==
  /\ Draws(seed) /\ seed \notin seedexit /\ seed \in seedmap
  /\ seedmap' = seedmap \ {seed}
  /\ UNCHANGED <<vars, coarse, round, seedexit, modularity, Modu, is_parted, kept, tried>>

\* A new seed whose seedmap entry is 1 by chance is passed over, and the round
\* is given back (i--).
DrawMarked(seed) ==
  /\ Draws(seed) /\ seed \notin seedexit /\ seed \in seedmap
  /\ seedexit' = seedexit \cup {seed}
  /\ UNCHANGED <<vars, coarse, round, seedmap, modularity, Modu, is_parted, kept, tried>>

\* Any other new seed: subpartition from the first vertex of its chain (the graph
\* is coarsened once, so the chain holds vertices of p), and myFM is entered.
TrySeed(seed) ==
  /\ Draws(seed) /\ seed \notin seedexit /\ seed \notin seedmap
  /\ seedexit' = seedexit \cup {seed}
  /\ seedmap' = seedmap \cup {seed}
  /\ part' \in Subpartition(g, coarse[seed][1])
  /\ start' = part'
  /\ pc' = "start"
  /\ UNCHANGED <<g, cuts, list, heapLen, fixnum, renew, zero, hill, maxModu, trail>>
  /\ UNCHANGED <<coarse, round, modularity, Modu, is_parted, kept, tried>>

\* One step of myFM and HillClimbing.
Refine == (Start \/ Climb \/ LastAlone \/ EndClimb \/ Undo) /\ UNCHANGED seeding

\* The locals of myFM and HillClimbing are gone, part_res is not used again.
LeaveClimb ==
  /\ part' = <<>> /\ start' = <<>>
  /\ cutEdges' = <<>> /\ cutNodes' = <<>> /\ Node_Rank' = <<>>
  /\ list' = <<>> /\ heapLen' = 0 /\ fixnum' = 0 /\ renew' = TRUE
  /\ zero' = [e \in {} |-> 0]
  /\ hill' = <<>> /\ maxModu' = 0 /\ trail' = <<>>

BetterSplit == maxModu > modularity /\ maxModu > CRITICAL

\* Faulty: the last split above CRITICAL is kept.
FaultyKeep ==
  /\ pc = "done"
  /\ is_parted' = (is_parted \/ maxModu > CRITICAL)
  /\ Modu' = IF maxModu > CRITICAL THEN maxModu ELSE Modu
  /\ modularity' = IF maxModu > CRITICAL THEN maxModu ELSE modularity
  /\ kept' = IF maxModu > CRITICAL THEN part ELSE kept
  /\ tried' = Append(tried, [modu |-> maxModu, part |-> part])
  /\ round' = round + 1
  /\ pc' = "seed"
  /\ LeaveClimb
  /\ UNCHANGED <<g, coarse, seedexit, seedmap>>

\* myFM has returned maxModu: the split is kept when it is the best so far.
Keep ==
  /\ pc = "done"
  /\ IF BetterSplit
       THEN Modu' = maxModu /\ is_parted' = TRUE /\ modularity' = maxModu /\ kept' = part
       ELSE UNCHANGED <<Modu, is_parted, modularity, kept>>
  /\ tried' = Append(tried, [modu |-> maxModu, part |-> part])
  /\ round' = round + 1
  /\ pc' = "seed"
  /\ LeaveClimb
  /\ UNCHANGED <<g, coarse, seedexit, seedmap>>

\* The rounds are used up.
Finish ==
  /\ pc = "seed" /\ (round >= MaxRounds \/ round >= Len(coarse))
  /\ pc' = "end"
  /\ UNCHANGED <<g, part, cuts, list, heapLen, fixnum, renew, zero, hill, maxModu, start, trail>>
  /\ UNCHANGED seeding

\* myPartition has returned.
End == pc = "end" /\ UNCHANGED pvars

PNext ==
  \/ \E seed \in DOMAIN coarse : DrawAgain(seed) \/ DrawMarked(seed) \/ TrySeed(seed)
  \/ Refine \/ Keep \/ Finish \/ End

PSpec == PInit /\ [][PNext]_pvars

-----------------------------------------------------------------------------
(***************************************************************************)
(* Properties.                                                             *)
(***************************************************************************)

\* coarseningGraph: every vertex is in exactly one cluster, no cluster is empty
\* (myPartition follows the first entry of a seed's chain unchecked), and the
\* vertices of a cluster share an edge.
ClustersPartition ==
  pc = "seed" =>
    LET cs == coarse
    IN  /\ \A v \in Vertices(g) : Cardinality({c \in DOMAIN cs : v \in ToSet(cs[c])}) = 1
        /\ \A c \in DOMAIN cs : /\ cs[c] # <<>>
                                /\ Len(cs[c]) = Cardinality(ToSet(cs[c]))
                                /\ \E e \in Edges(g) : ToSet(cs[c]) \subseteq ToSet(g.eind[e])

\* subpartition: from every seed, and in a graph of several components too, the
\* search stops with exactly half of the vertices, rounded down, the seed among
\* them, whatever the array held.
GrowsToHalf ==
  pc = "start" =>
    \E seed \in seedexit :
      LET grown == Grow(g, coarse[seed][1])
      IN  /\ Cardinality(ToSet(grown)) = Len(grown) /\ 2 * Len(grown) \in {g.n - 1, g.n}
          /\ part[coarse[seed][1]] = 0
          /\ \A v \in ToSet(grown) : part[v] = 0

\* Between climbs, p->Modu and p->part are those of the best climb so far, the
\* first of them among equals, and the graph counts as parted exactly when some
\* climb ended above CRITICAL.
BestKept ==
  pc \in {"seed", "end"} =>
    LET good == {k \in DOMAIN tried : tried[k].modu > CRITICAL}
    IN  /\ is_parted <=> good # {}
        /\ is_parted =>
             \E k \in good : /\ Modu = tried[k].modu /\ kept = tried[k].part
                             /\ \A m \in good : /\ tried[m].modu <= Modu
                                                /\ tried[m].modu = Modu => k <= m

\* What is left of a climb.
ClimbLeft ==
  CASE pc = "start" -> 2 * iDistance + 5
    [] pc = "climb" -> 2 * iDistance + 4 - fixnum
    [] pc \in {"undo", "done"} -> Len(hill) + 1
    [] pc = "seed" -> 1
    [] pc = "end" -> 0

\* What is left of myPartition: a climb is worth less than a round or a new seed.
Variant ==
  ((MaxRounds - round) + (Len(coarse) - Cardinality(seedexit))) * (2 * iDistance + 6)
    + ClimbLeft

\* myPartition ends, although passing over a seed gives the round back and the
\* loops of HillClimbing are left in several ways: every step makes a natural
\* number smaller.
VariantDecreases == [][0 <= Variant' /\ Variant' < Variant]_pvars

-----------------------------------------------------------------------------
(***************************************************************************)
(* What developLog.txt says and the code does not do.                      *)
(***************************************************************************)

\* "... until the rest is not more than half of all vertices ... this divides
\* the hypergraph into two halves with about the same number of vertices": the
\* partition handed to myFM has as many vertices in part 0 as in part 1, give or
\* take one.
HalvesBalanced ==
  pc = "start" => Cardinality({v \in Vertices(g) : part[v] = 0}) <= (g.n + 1) \div 2

\* "with every bisection the hypergraph is divided into two sub-hypergraphs": each
\* part of a split that is accepted has a vertex.  It need not: the modularity that
\* is compared with CRITICAL can be a gain from before the last moves.
SplitsInTwo == is_parted => \A k \in {0, 1} : \E v \in Vertices(g) : kept[v] = k

=============================================================================
