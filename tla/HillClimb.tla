----------------------------- MODULE HillClimb ------------------------------
(***************************************************************************)
(* CMultilevel::myFM and HillClimbing: the refinement of one two-way       *)
(* partition.  Cut vertices move to the other part one after the other,    *)
(* every move leaves a stone, and at the end the moves are taken back to   *)
(* the stone with the largest modularity.                                  *)
(***************************************************************************)
EXTENDS Seeding, HeapSort

CONSTANTS
  Graphs,     \* the graphs to climb on
  iDistance   \* the number of moves tried (20 in the code)

ASSUME DistanceAssumption == iDistance \in Nat \ {0}

ASSUME GraphsAssumption == \A h \in Graphs : IsGraph(h)

VARIABLES
  pc,         \* "start", "climb", "undo" or "done"
  g,          \* pInitGraph
  part,       \* part_res
  cutEdges, cutNodes, Node_Rank,   \* what myFM passes to HillClimbing
  list,       \* pModularityList
  heapLen,    \* HeapLen
  fixnum,     \* iterations so far
  renew,      \* mySort->renew
  zero,       \* PartZeroNodeCount of the edges cut at the start
  hill,       \* Hill, its top last
  maxModu,    \* maxModu
  start,      \* the partition myFM was called with
  trail       \* history: every stone pushed, with the partition of that moment

cuts == <<cutEdges, cutNodes, Node_Rank>>
vars == <<pc, g, part, cuts, list, heapLen, fixnum, renew, zero, hill, maxModu, start, trail>>

Init ==
  /\ pc = "start"
  /\ g \in Graphs
  /\ \E seed \in Range(Clusters(g)) : part \in Subpartition(g, seed[1])
  /\ cutEdges = <<>> /\ cutNodes = <<>> /\ Node_Rank = <<>>
  /\ list = <<>> /\ heapLen = 0 /\ fixnum = 0 /\ renew = TRUE
  /\ zero = [i \in {} |-> 0]
  /\ hill = <<>> /\ maxModu = 0
  /\ start = part
  /\ trail = <<>>

\* The number of vertices edge i has in part 0.
ZeroCount(p, i) == Cardinality({v \in ToSet(g.eind[i]) : p[v] = 0})

\* The modularity after moving v.
Gain(p, v) == ComputeModularity(g, Flip(p, v))

\* myFM up to the loop of HillClimbing: the first stone and all gains.
Start ==
  /\ pc = "start"
  /\ LET modu == ComputeModularity(g, part)
     IN  /\ hill' = <<[curModu |-> modu, node |-> -1]>>
         /\ maxModu' = modu
         /\ trail' = <<[modu |-> modu, part |-> part]>>
  /\ cutEdges' = FindCutEdges(g, part)
  /\ cutNodes' = FindCutNodes(g, cutEdges')
  /\ Node_Rank' = NodeRank(g, cutEdges')
  /\ list' = [k \in 1 .. Len(cutNodes') |->
               [node |-> cutNodes'[k], dMod |-> Gain(part, cutNodes'[k])]]
  /\ heapLen' = Len(cutNodes')
  /\ zero' = [i \in ToSet(cutEdges') |-> ZeroCount(part, i)]
  /\ pc' = "climb"
  /\ UNCHANGED <<g, part, fixnum, renew, start>>

\* Whether moving v makes the code compute the gains anew.  The second branch
\* compares part_res[v] with 0 where part_res[v] is 1, so a vertex that comes
\* back to part 0 is noticed only when it completes an edge there.
Renews(v) ==
  LET mine == {i \in ToSet(cutEdges) : v \in ToSet(g.eind[i])}
  IN  IF part[v] = 0
        THEN \E i \in mine : zero[i] = Len(g.eind[i]) \/ zero[i] - 1 = 0
        ELSE \E i \in mine : zero[i] + 1 = Len(g.eind[i])

\* Faulty: a vertex that comes to part 0 is counted as leaving it.
FaultyRecount(v) ==
  [i \in DOMAIN zero |-> IF v \in ToSet(g.eind[i]) THEN zero[i] - 1 ELSE zero[i]]

\* PartZeroNodeCount after v has moved.
Recount(v) ==
  [i \in DOMAIN zero |->
     IF v \notin ToSet(g.eind[i]) THEN zero[i]
     ELSE IF part[v] = 0 THEN zero[i] - 1 ELSE zero[i] + 1]

\* Faulty: the heap keeps the gains it has.
FaultyRegain(entries, p) == entries

\* The entries left in the heap get the gains they have from partition p.
Regain(entries, p) ==
  [k \in DOMAIN entries |->
     IF k < heapLen THEN [entries[k] EXCEPT !.dMod = Gain(p, entries[k].node)] ELSE entries[k]]

\* One iteration of the loop: getMax brings a move to the end of the heap, and
\* the vertex changes parts.
Climb ==
  /\ pc = "climb" /\ fixnum < Len(cutNodes) /\ fixnum < iDistance /\ heapLen > 1
  /\ LET picked == getMax(list, heapLen, renew, Node_Rank)
         move   == picked[heapLen]
         moved  == Flip(part, move.node)
     IN  /\ part' = moved
         /\ list' = IF Renews(move.node) THEN Regain(picked, moved) ELSE picked
         /\ renew' = Renews(move.node)
         /\ zero' = Recount(move.node)
         /\ hill' = Append(hill, [curModu |-> move.dMod, node |-> move.node])
         /\ maxModu' = IF move.dMod > maxModu THEN move.dMod ELSE maxModu
         /\ trail' = Append(trail, [modu |-> move.dMod, part |-> moved])
  /\ heapLen' = heapLen - 1
  /\ fixnum' = fixnum + 1
  /\ UNCHANGED <<pc, g, cuts, start>>

\* The vertex that is alone in the heap is not moved: the loop breaks after
\* getMax.
LastAlone ==
  /\ pc = "climb" /\ fixnum < Len(cutNodes) /\ fixnum < iDistance /\ heapLen = 1
  /\ list' = getMax(list, heapLen, renew, Node_Rank)
  /\ renew' = FALSE
  /\ fixnum' = fixnum + 1
  /\ heapLen' = 0
  /\ pc' = "undo"
  /\ UNCHANGED <<g, part, cuts, zero, hill, maxModu, start, trail>>

\* The loop ends: nothing is cut, or iDistance vertices have moved.
EndClimb ==
  /\ pc = "climb" /\ (fixnum >= Len(cutNodes) \/ fixnum >= iDistance)
  /\ pc' = "undo"
  /\ UNCHANGED <<g, part, cuts, list, heapLen, fixnum, renew, zero, hill, maxModu, start, trail>>

\* Faulty: the move is taken back before its modularity is looked at.
FaultyUndo ==
  /\ pc = "undo"
  /\ LET stone == Last(hill)
     IN  /\ part' = IF stone.node # -1 THEN Flip(part, stone.node) ELSE part
         /\ pc' = IF stone.curModu = maxModu THEN "done" ELSE "undo"
  /\ hill' = Front(hill)
  /\ UNCHANGED <<g, cuts, list, heapLen, fixnum, renew, zero, maxModu, start, trail>>

\* One iteration of the loop that takes moves back.
Undo ==
  /\ pc = "undo"
  /\ LET stone == Last(hill)
     IN  IF stone.curModu = maxModu
           THEN pc' = "done" /\ UNCHANGED part
           ELSE /\ part' = IF stone.node # -1 THEN Flip(part, stone.node) ELSE part
                /\ pc' = "undo"
  /\ hill' = Front(hill)
  /\ UNCHANGED <<g, cuts, list, heapLen, fixnum, renew, zero, maxModu, start, trail>>

\* HillClimbing has returned maxModu.
Returned == pc = "done" /\ UNCHANGED vars

Next == Start \/ Climb \/ LastAlone \/ EndClimb \/ Undo \/ Returned

Spec == Init /\ [][Next]_vars

-----------------------------------------------------------------------------
(***************************************************************************)
(* Properties.                                                             *)
(***************************************************************************)

\* Type invariant.
TypeOK ==
  /\ pc \in {"start", "climb", "undo", "done"}
  /\ part \in [Vertices(g) -> {0, 1}]
  /\ list \in Seq([node : Vertices(g), dMod : Int])
  /\ heapLen \in 0 .. Len(list)
  /\ fixnum \in 0 .. iDistance
  /\ renew \in BOOLEAN
  /\ zero \in [DOMAIN zero -> Nat]
  /\ hill \in Seq([curModu : Int, node : Vertices(g) \cup {-1}])
  /\ maxModu \in Int
  /\ start \in [Vertices(g) -> {0, 1}]
  /\ trail \in Seq([modu : Int, part : [Vertices(g) -> {0, 1}]])

\* The stack undoes: whatever was moved, and in whatever order, the partition is
\* always the one that was there when the stone now on top was pushed.
StackUndoes ==
  pc \in {"climb", "undo"} => hill # <<>> /\ part = trail[Len(hill)].part

\* The climb returns to a summit: the partition handed back is the one at which
\* the largest modularity ever recorded was recorded last.
ReturnsSummit ==
  pc = "done" =>
    LET summits == {k \in 1 .. Len(trail) : trail[k].modu = maxModu}
    IN  /\ \A k \in 1 .. Len(trail) : trail[k].modu <= maxModu
        /\ summits # {} /\ part = trail[Max(summits)].part

\* A vertex moves at most once: the entries behind the heap are the vertices that
\* have changed parts, and with the heap they are the cut vertices, each once.
MovesOnce ==
  pc = "climb" =>
    /\ Len(list) = Len(cutNodes) /\ {list[k].node : k \in DOMAIN list} = ToSet(cutNodes)
    /\ {v \in Vertices(g) : part[v] # start[v]} = {list[k].node : k \in heapLen + 1 .. Len(list)}

\* PartZeroNodeCount, kept by increments over the cut edges of each moved vertex,
\* stays the number of vertices in part 0.
ZeroCountsTrue == pc = "climb" => \A i \in DOMAIN zero : zero[i] = ZeroCount(part, i)

\* When the heap is about to be built, every gain in it is the modularity the
\* move would really give.
RenewedGainsTrue ==
  pc = "climb" /\ renew =>
    \A k \in 1 .. heapLen : list[k].dMod = Gain(part, list[k].node)

\* A move made from a heap just built is the best of all moves left: none has a
\* larger gain, and among equal gains it has the smallest rank.
BestMoveAfterRenew ==
  [][pc = "climb" /\ renew /\ Len(hill') > Len(hill) =>
       LET move == [node |-> Last(hill').node, dMod |-> Last(hill').curModu]
       IN  \A k \in 1 .. heapLen :
             list[k].node # move.node => Better(move, list[k], Node_Rank)]_vars

-----------------------------------------------------------------------------
(***************************************************************************)
(* What developLog.txt says of the algorithm and the code does not do.     *)
(***************************************************************************)

\* "always the vertex with the largest gain in the heap is moved".
AlwaysBestMove ==
  [][pc = "climb" /\ Len(hill') > Len(hill) =>
       \A k \in 1 .. heapLen : list[k].dMod <= Last(hill').curModu]_vars

=============================================================================
