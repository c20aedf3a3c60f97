--------------------------- MODULE HillClimbProof ---------------------------
(***************************************************************************)
(* The theorems about HillClimbing, for every family of graphs and every   *)
(* number of moves tried.                                                  *)
(***************************************************************************)
EXTENDS HillClimb, GraphLemmas

\* The graph, and what myFM hands to HillClimbing, are what they should be.
Cuts ==
  /\ g \in Graphs
  /\ cutEdges \in Seq(Edges(g))
  /\ cutNodes \in Lists(Vertices(g))
  /\ DOMAIN zero \subseteq Edges(g)
  /\ pc = "start" => part = start

\* The entries of the list are moves of different vertices.
MovesApart ==
  pc = "climb" =>
    \A a, b \in DOMAIN list : list[a].node = list[b].node => a = b

\* The stones still on the hill are the first of the trail, and each one on top
\* of another is the move of its vertex.
StonesMatch ==
  pc # "start" =>
    /\ Len(hill) <= Len(trail)
    /\ \A k \in 1 .. Len(hill) : hill[k].curModu = trail[k].modu
    /\ \A k \in 2 .. Len(hill) :
         /\ hill[k].node \in Vertices(g)
         /\ trail[k].part = Flip(trail[k - 1].part, hill[k].node)

\* The largest modularity is recorded on the hill, and not above it.
SummitAhead ==
  /\ \A k \in 1 .. Len(trail) : trail[k].modu <= maxModu
  /\ pc = "climb" => Len(hill) = Len(trail)
  /\ pc \in {"climb", "undo"} =>
       /\ \E k \in 1 .. Len(hill) : trail[k].modu = maxModu
       /\ \A k \in Len(hill) + 1 .. Len(trail) : trail[k].modu # maxModu

\* The stone popped last is the last summit.
SummitReached ==
  pc = "done" =>
    /\ Len(hill) + 1 <= Len(trail)
    /\ trail[Len(hill) + 1].modu = maxModu
    /\ part = trail[Len(hill) + 1].part
    /\ \A k \in Len(hill) + 2 .. Len(trail) : trail[k].modu # maxModu

\* The inductive invariant of a climb.
ClimbInv ==
  /\ TypeOK /\ Cuts
  /\ MovesApart /\ MovesOnce /\ ZeroCountsTrue /\ RenewedGainsTrue
  /\ StonesMatch /\ SummitAhead /\ StackUndoes /\ SummitReached

-----------------------------------------------------------------------------
(***************************************************************************)
(* Partitions.                                                             *)
(***************************************************************************)

Partitions(h) == [Vertices(h) -> {0, 1}]

\* Popping the last entry of a sequence.
LEMMA FrontFacts ==
  ASSUME NEW H, NEW s \in Seq(H), s # <<>>
  PROVE  /\ Front(s) \in Seq(H) /\ Len(s) >= 1 /\ Len(Front(s)) = Len(s) - 1
         /\ \A k \in 1 .. Len(s) - 1 : Front(s)[k] = s[k]
<1> DEFINE l == Len(s)
           t == [k \in 1 .. l - 1 |-> s[k]]
<1>1. l \in Nat /\ l >= 1
  BY EmptySeq, LenProperties
<1>2. \A k \in 1 .. l : s[k] \in H
  BY LenProperties
<1>3. \A k \in 1 .. l - 1 : k \in 1 .. l /\ 1 + k - 1 = k
  BY <1>1
<1>4. t \in Seq(H) /\ Len(t) = l - 1
  <2>1. l - 1 \in Nat /\ \A k \in 1 .. l - 1 : s[k] \in H
    BY <1>1, <1>2, <1>3
  <2> HIDE DEF l
  <2> QED
    BY <2>1, IsASeq, LenProperties
<1>5. SubSeq(s, 1, l - 1) = t
  BY <1>1, <1>3
<1> QED
  BY <1>1, <1>4, <1>5 DEF Front

\* The entries of the list.
Moves(h) == [node : Vertices(h), dMod : Int]

\* Flip moves the vertex it is given to the other part, and no other.
LEMMA FlipType ==
  ASSUME NEW h, NEW p \in Partitions(h), NEW v \in Vertices(h)
  PROVE  /\ Flip(p, v) \in Partitions(h)
         /\ Flip(p, v)[v] = 1 - p[v] /\ Flip(p, v)[v] # p[v]
         /\ \A u \in Vertices(h) : u # v => Flip(p, v)[u] = p[u]
<1>1. p[v] \in {0, 1} /\ 1 - p[v] \in {0, 1} /\ 1 - p[v] # p[v]
  BY DEF Partitions
<1> QED
  BY <1>1 DEF Partitions, Flip

\* A vertex moved twice is where it was.
LEMMA FlipTwice ==
  ASSUME NEW h, NEW p \in Partitions(h), NEW v \in Vertices(h)
  PROVE  Flip(Flip(p, v), v) = p
<1>1. p[v] \in {0, 1} /\ 1 - (1 - p[v]) = p[v]
  BY DEF Partitions
<1> QED
  BY <1>1 DEF Partitions, Flip

\* ZeroCount in graph h.
Zeros(h, p, i) == Cardinality({v \in ToSet(h.eind[i]) : p[v] = 0})

\* Moving v changes the count of part 0 in the edges of v by one, in the
\* direction Recount takes.
LEMMA ZeroCountFlip ==
  ASSUME NEW h, IsGraph(h), NEW p \in Partitions(h), NEW v \in Vertices(h), NEW i \in Edges(h)
  PROVE  /\ Zeros(h, p, i) \in Nat /\ Zeros(h, Flip(p, v), i) \in Nat
         /\ Zeros(h, Flip(p, v), i) = IF v \notin ToSet(h.eind[i]) THEN Zeros(h, p, i)
                                      ELSE IF p[v] = 0 THEN Zeros(h, p, i) - 1
                                      ELSE Zeros(h, p, i) + 1
<1> DEFINE X == ToSet(h.eind[i])
           S(r) == {u \in X : r[u] = 0}
           f == Flip(p, v)
<1>1. X \subseteq Vertices(h)
  BY EdgeFacts
<1>2. IsFiniteSet(Vertices(h))
  <2>1. 0 \in Int /\ h.n - 1 \in Int
    BY DEF IsGraph
  <2> QED
    BY <2>1, FS_Interval DEF Vertices
<1>3. IsFiniteSet(S(p)) /\ IsFiniteSet(S(f))
  BY <1>1, <1>2, FS_Subset
<1>4. f[v] = 1 - p[v] /\ p[v] \in {0, 1} /\ \A u \in Vertices(h) : u # v => f[u] = p[u]
  BY FlipType DEF Partitions
<1>5. Cardinality(S(p)) \in Nat /\ Cardinality(S(f)) \in Nat
  BY <1>3, FS_CardinalityType
<1> HIDE DEF f
<1>6. CASE v \notin X
  <2>1. S(f) = S(p)
    BY <1>1, <1>4, <1>6
  <2> HIDE DEF S, X
  <2>2. Cardinality(S(f)) = Cardinality(S(p))
    BY <2>1
  <2> QED
    BY <1>5, <1>6, <2>2 DEF S, X, f, Zeros
<1>7. CASE v \in X /\ p[v] = 0
  <2>1. S(f) = S(p) \ {v} /\ v \in S(p)
    BY <1>1, <1>4, <1>7
  <2> HIDE DEF S, X
  <2>2. Cardinality(S(f)) = Cardinality(S(p)) - 1
    BY <1>3, <2>1, FS_RemoveElement
  <2> QED
    BY <1>5, <1>7, <2>2 DEF S, X, f, Zeros
<1>8. CASE v \in X /\ p[v] # 0
  <2>1. S(f) = S(p) \cup {v} /\ v \notin S(p)
    BY <1>1, <1>4, <1>8
  <2> HIDE DEF S, X
  <2>2. Cardinality(S(f)) = Cardinality(S(p)) + 1
    BY <1>3, <2>1, FS_AddElement
  <2> QED
    BY <1>5, <1>8, <2>2 DEF S, X, f, Zeros
<1> QED
  BY <1>6, <1>7, <1>8

-----------------------------------------------------------------------------
(***************************************************************************)
(* The invariant is inductive.                                             *)
(***************************************************************************)

\* The invariant holds when myFM is called.
LEMMA InitClimb == Init => ClimbInv
<1> SUFFICES ASSUME Init PROVE ClimbInv
  OBVIOUS
<1>1. part \in [Vertices(g) -> {0, 1}] /\ start = part
  BY DEF Init, Subpartition
<1>2. TypeOK
  BY <1>1, DistanceAssumption DEF Init, TypeOK
<1>3. Cuts
  BY EmptySeq DEF Init, Cuts, Lists, IsInjective
<1> QED
  BY <1>2, <1>3 DEF Init, ClimbInv, MovesApart, MovesOnce, ZeroCountsTrue, RenewedGainsTrue,
                    StonesMatch, SummitAhead, StackUndoes, SummitReached

\* The first stone, the cut vertices and all gains establish the climb.
LEMMA StartClimb ==
  ASSUME ClimbInv, Start
  PROVE  ClimbInv'
<1> DEFINE n == Len(cutNodes')
           modu == ComputeModularity(g, part)
<1>1. /\ pc = "start" /\ pc' = "climb" /\ g' = g /\ part' = part /\ start' = start
      /\ fixnum' = fixnum /\ renew' = renew
      /\ hill' = <<[curModu |-> modu, node |-> -1]>>
      /\ maxModu' = modu
      /\ trail' = <<[modu |-> modu, part |-> part]>>
      /\ cutEdges' = FindCutEdges(g, part)
      /\ cutNodes' = FindCutNodes(g, cutEdges')
      /\ heapLen' = n
      /\ zero' = [i \in ToSet(cutEdges') |-> ZeroCount(part, i)]
      /\ list' = [k \in 1 .. n |-> [node |-> cutNodes'[k], dMod |-> Gain(part, cutNodes'[k])]]
  BY DEF Start
<1>2. /\ IsGraph(g) /\ g \in Graphs /\ part = start
      /\ part \in Partitions(g) /\ part \in [Vertices(g) -> {0, 1}]
      /\ fixnum \in 0 .. iDistance /\ renew \in BOOLEAN
  BY <1>1, GraphsAssumption DEF ClimbInv, Cuts, TypeOK, Partitions
<1>3. cutEdges' \in Seq(Edges(g))
  BY <1>1, <1>2, CutEdgesType
<1>4. cutNodes' \in Lists(Vertices(g))
  BY <1>1, <1>2, <1>3, CutNodesLists
<1>5. /\ n \in Nat /\ cutNodes' \in [1 .. n -> Vertices(g)]
      /\ \A a, b \in 1 .. n : cutNodes'[a] = cutNodes'[b] => a = b
  BY <1>4, LenProperties DEF Lists, IsInjective
<1> HIDE DEF n
<1>6. modu \in Int
  BY <1>2, ModularityInt
<1> HIDE DEF modu
<1>7. \A v \in Vertices(g) : Gain(part, v) \in Int
  BY <1>2, ModularityInt DEF Gain
<1>8. list' \in [1 .. n -> Moves(g)]
  BY <1>1, <1>5, <1>7 DEF Moves
<1>9. list' \in Seq(Moves(g)) /\ Len(list') = n /\ DOMAIN list' = 1 .. n
  <2>1. list' \in Seq(Moves(g))
    BY <1>5, <1>8, SeqDef
  <2>2. DOMAIN list' = 1 .. Len(list') /\ Len(list') \in Nat
    BY <2>1, LenProperties
  <2> QED
    BY <1>5, <1>8, <2>1, <2>2
<1>10. \A k \in 1 .. n : list'[k].node = cutNodes'[k] /\ list'[k].dMod = Gain(part, cutNodes'[k])
  BY <1>1
<1>11. ToSet(cutEdges') \subseteq Edges(g)
  BY <1>3, LenProperties DEF ToSet
<1>12. \A i \in Edges(g) : ZeroCount(part, i) \in Nat
  <2> SUFFICES ASSUME NEW i \in Edges(g) PROVE ZeroCount(part, i) \in Nat
    OBVIOUS
  <2>1. ToSet(g.eind[i]) \subseteq Vertices(g)
    BY <1>2, EdgeFacts
  <2>2. 0 \in Int /\ g.n - 1 \in Int
    BY <1>2 DEF IsGraph
  <2>3. IsFiniteSet(Vertices(g))
    BY <2>2, FS_Interval DEF Vertices
  <2>4. IsFiniteSet({v \in ToSet(g.eind[i]) : part[v] = 0})
    BY <2>1, <2>3, FS_Subset
  <2> QED
    BY <2>4, FS_CardinalityType DEF ZeroCount
<1>13. TypeOK'
  <2>1. zero' \in [DOMAIN zero' -> Nat]
    BY <1>1, <1>11, <1>12
  <2>2. hill' \in Seq([curModu : Int, node : Vertices(g) \cup {-1}])
    BY <1>1, <1>6
  <2>3. trail' \in Seq([modu : Int, part : [Vertices(g) -> {0, 1}]])
    BY <1>1, <1>2, <1>6
  <2>4. heapLen' \in 0 .. Len(list')
    BY <1>1, <1>5, <1>9
  <2>5. list' \in Seq([node : Vertices(g), dMod : Int])
    BY <1>9 DEF Moves
  <2> QED
    BY <1>1, <1>2, <1>6, <2>1, <2>2, <2>3, <2>4, <2>5 DEF TypeOK
<1>14. Cuts'
  <2>1. DOMAIN zero' \subseteq Edges(g)
    BY <1>1, <1>11
  <2> QED
    BY <1>1, <1>2, <1>3, <1>4, <2>1 DEF Cuts
<1>15. MovesApart'
  BY <1>5, <1>9, <1>10 DEF MovesApart
<1>16. MovesOnce'
  <2>1. Len(list') = Len(cutNodes')
    BY <1>9 DEF n
  <2>2. {list'[k].node : k \in DOMAIN list'} = ToSet(cutNodes')
    <3>1. DOMAIN cutNodes' = 1 .. n
      BY <1>5
    <3> QED
      BY <1>9, <1>10, <3>1 DEF ToSet
  <2>3. {v \in Vertices(g') : part'[v] # start'[v]} = {}
    BY <1>1, <1>2
  <2>4. {list'[k].node : k \in heapLen' + 1 .. Len(list')} = {}
    <3>1. heapLen' + 1 .. Len(list') = {}
      BY <1>1, <1>5, <1>9
    <3> QED
      BY <3>1
  <2> QED
    BY <2>1, <2>2, <2>3, <2>4 DEF MovesOnce
<1>17. ZeroCountsTrue'
  BY <1>1 DEF ZeroCountsTrue, ZeroCount
<1>18. RenewedGainsTrue'
  <2>1. \A k \in 1 .. n : list'[k].dMod = ComputeModularity(g, Flip(part, list'[k].node))
    BY <1>10 DEF Gain
  <2> QED
    BY <1>1, <2>1 DEF RenewedGainsTrue, Gain
<1>19. Len(hill') = 1 /\ Len(trail') = 1 /\ hill'[1].curModu = modu
       /\ trail'[1].modu = modu /\ trail'[1].part = part
  BY <1>1
<1>20. StonesMatch' /\ SummitAhead' /\ StackUndoes' /\ SummitReached'
  <2>1. StonesMatch'
    BY <1>19 DEF StonesMatch
  <2>2. SummitAhead'
    BY <1>1, <1>6, <1>19 DEF SummitAhead
  <2>3. StackUndoes'
    BY <1>1, <1>19 DEF StackUndoes
  <2>4. SummitReached'
    BY <1>1 DEF SummitReached
  <2> QED
    BY <2>1, <2>2, <2>3, <2>4
<1> QED
  BY <1>13, <1>14, <1>15, <1>16, <1>17, <1>18, <1>20 DEF ClimbInv

\* One move of the loop keeps the invariant.
LEMMA ClimbClimbs ==
  ASSUME ClimbInv, Climb
  PROVE  ClimbInv'
<1> DEFINE picked == getMax(list, heapLen, renew, Node_Rank)
           move   == picked[heapLen]
           x      == move.node
           moved  == Flip(part, x)
           n      == Len(list)
<1>1. /\ pc = "climb" /\ fixnum < iDistance /\ heapLen > 1
      /\ part' = moved
      /\ list' = IF Renews(x) THEN Regain(picked, moved) ELSE picked
      /\ renew' = Renews(x)
      /\ zero' = Recount(x)
      /\ hill' = Append(hill, [curModu |-> move.dMod, node |-> x])
      /\ maxModu' = IF move.dMod > maxModu THEN move.dMod ELSE maxModu
      /\ trail' = Append(trail, [modu |-> move.dMod, part |-> moved])
      /\ heapLen' = heapLen - 1 /\ fixnum' = fixnum + 1
      /\ pc' = pc /\ g' = g /\ start' = start
      /\ cutEdges' = cutEdges /\ cutNodes' = cutNodes /\ Node_Rank' = Node_Rank
  BY DEF Climb, cuts
<1>2. /\ IsGraph(g) /\ g \in Graphs /\ cutEdges \in Seq(Edges(g))
      /\ cutNodes \in Lists(Vertices(g)) /\ DOMAIN zero \subseteq Edges(g)
      /\ part \in Partitions(g) /\ part \in [Vertices(g) -> {0, 1}]
      /\ start \in [Vertices(g) -> {0, 1}]
      /\ list \in Seq(Moves(g)) /\ heapLen \in 0 .. n
      /\ fixnum \in 0 .. iDistance /\ renew \in BOOLEAN /\ maxModu \in Int
      /\ zero \in [DOMAIN zero -> Nat]
      /\ hill \in Seq([curModu : Int, node : Vertices(g) \cup {-1}])
      /\ trail \in Seq([modu : Int, part : [Vertices(g) -> {0, 1}]])
  BY GraphsAssumption DEF ClimbInv, Cuts, TypeOK, Partitions, Moves
<1>3. /\ n \in Nat /\ list \in [1 .. n -> Moves(g)] /\ DOMAIN list = 1 .. n
      /\ heapLen \in 1 .. n /\ heapLen \in Nat
  BY <1>1, <1>2, LenProperties
<1>4. picked \in Arrays(Moves(g), list, heapLen)
  BY <1>2, <1>3, getMaxRearranges
<1>5. PICK q \in Perms(n, heapLen) : picked = [k \in 1 .. n |-> list[q[k]]]
  BY <1>4 DEF Arrays, Rearranged
<1>6. picked \in Seq(Moves(g))
  BY <1>4 DEF Arrays
<1> HIDE DEF picked, n
<1>7. /\ q \in [1 .. n -> 1 .. n]
      /\ \A a, b \in 1 .. n : q[a] = q[b] => a = b
      /\ \A a \in 1 .. n : \E b \in 1 .. n : q[b] = a
      /\ \A a \in 1 .. n : IF a <= heapLen THEN q[a] <= heapLen ELSE q[a] = a
  BY DEF Perms
<1>8. picked \in [1 .. n -> Moves(g)] /\ \A k \in 1 .. n : picked[k] = list[q[k]]
  BY <1>3, <1>5, <1>7
<1>9. move \in Moves(g) /\ x \in Vertices(g) /\ move.dMod \in Int
  <2>1. move \in Moves(g)
    BY <1>3, <1>8
  <2> QED
    BY <2>1 DEF Moves
<1>10. x = list[q[heapLen]].node
  BY <1>3, <1>8
<1> HIDE DEF move
<1> HIDE DEF x
<1>11. /\ moved \in Partitions(g) /\ moved[x] # part[x]
       /\ \A u \in Vertices(g) : u # x => moved[u] = part[u]
  BY <1>2, <1>9, FlipType
<1>12. \A v \in Vertices(g) : Gain(moved, v) \in Int
  BY <1>2, ModularityInt DEF Gain
<1>13. Renews(x) \in BOOLEAN
  BY DEF Renews
\* the list has the same vertices in another order
<1>14. /\ list' \in [1 .. n -> Moves(g)]
       /\ \A k \in 1 .. n : list'[k].node = list[q[k]].node
       /\ Renews(x) => \A k \in 1 .. n : k < heapLen => list'[k].dMod = Gain(moved, list'[k].node)
  <2>1. CASE ~ Renews(x)
    BY <1>1, <1>8, <2>1
  <2>2. CASE Renews(x)
    <3>1. list' = [k \in 1 .. n |->
                     IF k < heapLen THEN [picked[k] EXCEPT !.dMod = Gain(moved, picked[k].node)]
                     ELSE picked[k]]
      <4>1. DOMAIN picked = 1 .. n
        BY <1>8
      <4> QED
        BY <1>1, <2>2, <4>1 DEF Regain
    <3>2. ASSUME NEW k \in 1 .. n
          PROVE  LET e == [picked[k] EXCEPT !.dMod = Gain(moved, picked[k].node)]
                 IN  /\ e \in Moves(g) /\ e.node = picked[k].node
                     /\ e.dMod = Gain(moved, picked[k].node)
      <4>1. picked[k] \in Moves(g)
        BY <1>8
      <4>2. Gain(moved, picked[k].node) \in Int
        BY <1>12, <4>1 DEF Moves
      <4> QED
        BY <4>1, <4>2 DEF Moves
    <3> QED
      BY <1>8, <3>1, <3>2
  <2> QED
    BY <1>13, <2>1, <2>2
<1>15. list' \in Seq(Moves(g)) /\ Len(list') = n /\ DOMAIN list' = 1 .. n
  <2>1. list' \in Seq(Moves(g))
    BY <1>3, <1>14, SeqDef
  <2>2. DOMAIN list' = 1 .. Len(list') /\ Len(list') \in Nat
    BY <2>1, LenProperties
  <2> QED
    BY <1>3, <1>14, <2>1, <2>2
\* counts
<1>16. \A i \in DOMAIN zero : zero[i] = ZeroCount(part, i)
  BY <1>1 DEF ClimbInv, ZeroCountsTrue
<1>17. ASSUME NEW i \in DOMAIN zero
       PROVE  Recount(x)[i] = ZeroCount(moved, i) /\ ZeroCount(moved, i) \in Nat
  <2>1. i \in Edges(g)
    BY <1>2
  <2>2. /\ ZeroCount(part, i) \in Nat /\ ZeroCount(moved, i) \in Nat
        /\ ZeroCount(moved, i) = IF x \notin ToSet(g.eind[i]) THEN ZeroCount(part, i)
                                 ELSE IF part[x] = 0 THEN ZeroCount(part, i) - 1
                                 ELSE ZeroCount(part, i) + 1
    <3>1. \A r : ZeroCount(r, i) = Zeros(g, r, i)
      BY DEF ZeroCount, Zeros
    <3> QED
      BY <1>2, <1>9, <2>1, <3>1, ZeroCountFlip
  <2> QED
    BY <1>16, <2>2 DEF Recount
<1>18. zero' \in [DOMAIN zero -> Nat] /\ \A i \in DOMAIN zero : zero'[i] = ZeroCount(moved, i)
  <2>1. DOMAIN Recount(x) = DOMAIN zero /\ Recount(x) = [i \in DOMAIN zero |-> Recount(x)[i]]
    BY DEF Recount
  <2> QED
    BY <1>1, <1>17, <2>1
<1> DEFINE H == [curModu : Int, node : Vertices(g) \cup {-1}]
           R == [modu : Int, part : [Vertices(g) -> {0, 1}]]
           stone == [curModu |-> move.dMod, node |-> x]
           mark == [modu |-> move.dMod, part |-> moved]
<1>19. stone \in H /\ mark \in R
  BY <1>9, <1>11 DEF Partitions
<1>20. /\ Len(hill) \in Nat /\ hill' \in Seq(H) /\ Len(hill') = Len(hill) + 1
       /\ \A k \in 1 .. Len(hill) : hill'[k] = hill[k]
       /\ hill'[Len(hill) + 1] = stone
  <2> HIDE DEF H, stone
  <2> QED
    BY <1>1, <1>2, <1>19, AppendProperties, LenProperties DEF H, stone
<1>21. /\ Len(trail) \in Nat /\ trail' \in Seq(R) /\ Len(trail') = Len(trail) + 1
       /\ \A k \in 1 .. Len(trail) : trail'[k] = trail[k]
       /\ trail'[Len(trail) + 1] = mark
  BY <1>1, <1>2, <1>19, AppendProperties, LenProperties
<1>22. maxModu' \in Int /\ maxModu' >= maxModu /\ maxModu' >= move.dMod
       /\ (maxModu' = maxModu \/ maxModu' = move.dMod)
  BY <1>1, <1>2, <1>9
<1>23. TypeOK'
  <2>1. heapLen' \in 0 .. Len(list')
    BY <1>1, <1>3, <1>15
  <2>2. fixnum' \in 0 .. iDistance
    BY <1>1, <1>2, DistanceAssumption
  <2>3. zero' \in [DOMAIN zero' -> Nat]
    BY <1>18
  <2>4. list' \in Seq([node : Vertices(g), dMod : Int])
    BY <1>15 DEF Moves
  <2>5. part' \in [Vertices(g) -> {0, 1}]
    BY <1>1, <1>11 DEF Partitions
  <2> QED
    BY <1>1, <1>2, <1>13, <1>20, <1>21, <1>22, <2>1, <2>2, <2>3, <2>4, <2>5 DEF TypeOK
<1>24. Cuts'
  <2>1. DOMAIN zero' \subseteq Edges(g)
    BY <1>2, <1>18
  <2> QED
    BY <1>1, <1>2, <2>1 DEF Cuts
<1>25. \A a, b \in 1 .. n : list[a].node = list[b].node => a = b
  BY <1>1, <1>3 DEF ClimbInv, MovesApart
<1>26. MovesApart'
  <2>1. ASSUME NEW a \in 1 .. n, NEW b \in 1 .. n, list'[a].node = list'[b].node
        PROVE  a = b
    <3>1. q[a] \in 1 .. n /\ q[b] \in 1 .. n /\ list[q[a]].node = list[q[b]].node
      BY <1>7, <1>14, <2>1
    <3>2. q[a] = q[b]
      BY <1>25, <3>1
    <3> QED
      BY <1>7, <3>2
  <2> QED
    BY <1>15, <2>1 DEF MovesApart
<1>27. /\ n = Len(cutNodes) /\ {list[k].node : k \in 1 .. n} = ToSet(cutNodes)
       /\ {v \in Vertices(g) : part[v] # start[v]} = {list[k].node : k \in heapLen + 1 .. n}
  BY <1>1, <1>3 DEF ClimbInv, MovesOnce, n
<1>28. MovesOnce'
  <2>1. {list'[k].node : k \in 1 .. n} = {list[k].node : k \in 1 .. n}
    BY <1>7, <1>14
  <2>2. {list'[k].node : k \in heapLen .. n} = {list[k].node : k \in heapLen + 1 .. n} \cup {x}
    <3>1. ASSUME NEW k \in heapLen + 1 .. n
          PROVE  k \in 1 .. n /\ list'[k].node = list[k].node
      <4>1. k \in 1 .. n /\ ~ (k <= heapLen)
        BY <1>3
      <4>2. q[k] = k
        BY <1>7, <4>1
      <4> QED
        BY <1>14, <4>1, <4>2
    <3>2. list'[heapLen].node = x
      BY <1>3, <1>10, <1>14
    <3>3. heapLen .. n = (heapLen + 1 .. n) \cup {heapLen}
      BY <1>3
    <3> QED
      BY <3>1, <3>2, <3>3
  <2>3. x \notin {list[k].node : k \in heapLen + 1 .. n}
    <3>1. ASSUME NEW k \in heapLen + 1 .. n, x = list[k].node PROVE FALSE
      <4>1. k \in 1 .. n /\ q[heapLen] \in 1 .. n /\ q[heapLen] <= heapLen
        BY <1>3, <1>7
      <4>2. q[heapLen] = k
        BY <1>10, <1>25, <3>1, <4>1
      <4> QED
        BY <1>3, <4>1, <4>2
    <3> QED
      BY <3>1
  <2>4. part[x] = start[x]
    BY <1>9, <1>27, <2>3
  <2>5. {v \in Vertices(g) : moved[v] # start[v]}
          = {v \in Vertices(g) : part[v] # start[v]} \cup {x}
    BY <1>9, <1>11, <2>4
  <2>6. heapLen' + 1 = heapLen
    BY <1>1, <1>3
  <2> QED
    BY <1>1, <1>15, <1>27, <2>1, <2>2, <2>5, <2>6 DEF MovesOnce
<1>29. ZeroCountsTrue'
  BY <1>1, <1>18 DEF ZeroCountsTrue, ZeroCount
<1>30. RenewedGainsTrue'
  <2>1. Renews(x) => \A k \in 1 .. heapLen - 1 : list'[k].dMod = Gain(moved, list'[k].node)
    BY <1>3, <1>14
  <2> QED
    BY <1>1, <2>1 DEF RenewedGainsTrue, Gain
<1>31. /\ hill # <<>> /\ part = trail[Len(hill)].part /\ Len(hill) = Len(trail)
       /\ \A k \in 1 .. Len(hill) : hill[k].curModu = trail[k].modu
       /\ \A k \in 2 .. Len(hill) : hill[k].node \in Vertices(g)
                                    /\ trail[k].part = Flip(trail[k - 1].part, hill[k].node)
       /\ \A k \in 1 .. Len(trail) : trail[k].modu <= maxModu
       /\ \E k \in 1 .. Len(hill) : trail[k].modu = maxModu
  BY <1>1 DEF ClimbInv, StackUndoes, StonesMatch, SummitAhead
<1> HIDE DEF moved
<1> DEFINE l == Len(hill)
<1>32. /\ l \in Nat /\ l >= 1 /\ Len(trail) = l /\ Len(hill') = l + 1 /\ Len(trail') = l + 1
  BY <1>2, <1>20, <1>21, <1>31, EmptySeq
<1>33. \A k \in 1 .. l : hill'[k] = hill[k] /\ trail'[k] = trail[k]
  BY <1>20, <1>21, <1>32
<1>34. /\ hill'[l + 1].curModu = move.dMod /\ hill'[l + 1].node = x
       /\ trail'[l + 1].modu = move.dMod /\ trail'[l + 1].part = moved
  BY <1>20, <1>21, <1>32
<1> HIDE DEF l
<1>35. StonesMatch'
  <2>1. ASSUME NEW k \in 1 .. l + 1 PROVE hill'[k].curModu = trail'[k].modu
    <3>1. CASE k = l + 1
      BY <1>34, <3>1
    <3>2. CASE k # l + 1
      BY <1>31, <1>32, <1>33, <3>2 DEF l
    <3> QED
      BY <3>1, <3>2
  <2>2. ASSUME NEW k \in 2 .. l + 1
        PROVE  /\ hill'[k].node \in Vertices(g)
               /\ trail'[k].part = Flip(trail'[k - 1].part, hill'[k].node)
    <3>1. CASE k = l + 1
      <4>1. k - 1 = l /\ trail'[l].part = part
        BY <1>31, <1>32, <1>33, <3>1 DEF l
      <4> QED
        BY <1>9, <1>34, <3>1, <4>1 DEF moved
    <3>2. CASE k # l + 1
      <4>1. k \in 2 .. l /\ k \in 1 .. l /\ k - 1 \in 1 .. l
        BY <1>32, <3>2
      <4> QED
        BY <1>31, <1>33, <4>1 DEF l
    <3> QED
      BY <3>1, <3>2
  <2> QED
    BY <1>1, <1>32, <2>1, <2>2 DEF StonesMatch
<1>36. SummitAhead'
  <2>1. ASSUME NEW k \in 1 .. l + 1 PROVE trail'[k].modu <= maxModu'
    <3>1. CASE k = l + 1
      BY <1>9, <1>22, <1>34, <3>1
    <3>2. CASE k # l + 1
      <4>1. k \in 1 .. l /\ trail[k].modu \in Int /\ trail[k].modu <= maxModu
        <5>1. k \in 1 .. l /\ k \in 1 .. Len(trail)
          BY <1>32, <3>2
        <5>2. trail[k] \in R
          BY <1>2, <5>1, ElementOfSeq
        <5> QED
          BY <1>31, <5>1, <5>2
      <4> QED
        BY <1>2, <1>22, <1>33, <4>1
    <3> QED
      BY <3>1, <3>2
  <2>2. \E k \in 1 .. l + 1 : trail'[k].modu = maxModu'
    <3>1. CASE maxModu' = move.dMod
      BY <1>32, <1>34, <3>1
    <3>2. CASE maxModu' = maxModu
      <4>1. PICK k \in 1 .. l : trail[k].modu = maxModu
        BY <1>31 DEF l
      <4>2. k \in 1 .. l + 1
        BY <1>32
      <4> QED
        BY <1>33, <3>2, <4>1, <4>2
    <3> QED
      BY <1>22, <3>1, <3>2
  <2>3. Len(hill') + 1 .. Len(trail') = {}
    BY <1>32
  <2> QED
    BY <1>1, <1>32, <2>1, <2>2, <2>3 DEF SummitAhead
<1>37. StackUndoes'
  <2>1. hill' # <<>>
    BY <1>20, <1>32, EmptySeq
  <2> QED
    BY <1>1, <1>32, <1>34, <2>1 DEF StackUndoes
<1>38. SummitReached'
  BY <1>1 DEF SummitReached
<1> QED
  BY <1>23, <1>24, <1>26, <1>28, <1>29, <1>30, <1>35, <1>36, <1>37, <1>38 DEF ClimbInv

\* Leaving the loop with one vertex in the heap keeps the invariant.
LEMMA LastAloneClimb ==
  ASSUME ClimbInv, LastAlone
  PROVE  ClimbInv'
<1>1. /\ pc = "climb" /\ heapLen = 1 /\ fixnum < iDistance
      /\ list' = getMax(list, heapLen, renew, Node_Rank)
      /\ renew' = FALSE /\ fixnum' = fixnum + 1 /\ heapLen' = 0 /\ pc' = "undo"
      /\ g' = g /\ part' = part /\ zero' = zero /\ hill' = hill /\ maxModu' = maxModu
      /\ start' = start /\ trail' = trail /\ cutEdges' = cutEdges /\ cutNodes' = cutNodes
  BY DEF LastAlone, cuts
<1>2. list \in Seq(Moves(g)) /\ heapLen \in 1 .. Len(list) /\ renew \in BOOLEAN
      /\ fixnum \in 0 .. iDistance
  BY <1>1 DEF ClimbInv, TypeOK, Moves
<1>3. list' \in Arrays(Moves(g), list, heapLen)
  BY <1>1, <1>2, getMaxRearranges
<1>4. list' \in Seq(Moves(g)) /\ Len(list') \in Nat
  BY <1>3, LenProperties DEF Arrays
<1>5. TypeOK'
  <2>1. heapLen' \in 0 .. Len(list') /\ fixnum' \in 0 .. iDistance
    BY <1>1, <1>2, <1>4, DistanceAssumption
  <2>2. list' \in Seq([node : Vertices(g), dMod : Int])
    BY <1>4 DEF Moves
  <2> QED
    BY <1>1, <2>1, <2>2 DEF ClimbInv, TypeOK
<1>6. Cuts'
  BY <1>1 DEF ClimbInv, Cuts
<1>7. MovesApart' /\ MovesOnce' /\ ZeroCountsTrue' /\ RenewedGainsTrue' /\ SummitReached'
  BY <1>1 DEF MovesApart, MovesOnce, ZeroCountsTrue, RenewedGainsTrue, SummitReached
<1>8. StonesMatch' /\ SummitAhead' /\ StackUndoes'
  BY <1>1 DEF ClimbInv, StonesMatch, SummitAhead, StackUndoes
<1> QED
  BY <1>5, <1>6, <1>7, <1>8 DEF ClimbInv

\* The end of the loop keeps the invariant.
LEMMA EndClimbClimb ==
  ASSUME ClimbInv, EndClimb
  PROVE  ClimbInv'
<1>1. /\ pc = "climb" /\ pc' = "undo" /\ list' = list /\ heapLen' = heapLen
      /\ fixnum' = fixnum /\ renew' = renew
      /\ g' = g /\ part' = part /\ zero' = zero /\ hill' = hill /\ maxModu' = maxModu
      /\ start' = start /\ trail' = trail /\ cutEdges' = cutEdges /\ cutNodes' = cutNodes
  BY DEF EndClimb, cuts
<1>2. TypeOK' /\ Cuts'
  BY <1>1 DEF ClimbInv, TypeOK, Cuts
<1>3. MovesApart' /\ MovesOnce' /\ ZeroCountsTrue' /\ RenewedGainsTrue' /\ SummitReached'
  BY <1>1 DEF MovesApart, MovesOnce, ZeroCountsTrue, RenewedGainsTrue, SummitReached
<1>4. StonesMatch' /\ SummitAhead' /\ StackUndoes'
  BY <1>1 DEF ClimbInv, StonesMatch, SummitAhead, StackUndoes
<1> QED
  BY <1>2, <1>3, <1>4 DEF ClimbInv

\* Popping a stone keeps the invariant.
LEMMA UndoClimb ==
  ASSUME ClimbInv, Undo
  PROVE  ClimbInv'
<1> DEFINE l == Len(hill)
           stone == hill[l]
           H == [curModu : Int, node : Vertices(g) \cup {-1}]
           R == [modu : Int, part : [Vertices(g) -> {0, 1}]]
<1>1. /\ pc = "undo"
      /\ stone.curModu = maxModu => pc' = "done" /\ part' = part
      /\ stone.curModu # maxModu =>
           /\ part' = IF stone.node # -1 THEN Flip(part, stone.node) ELSE part
           /\ pc' = "undo"
      /\ hill' = SubSeq(hill, 1, l - 1)
      /\ list' = list /\ heapLen' = heapLen /\ fixnum' = fixnum /\ renew' = renew
      /\ g' = g /\ zero' = zero /\ maxModu' = maxModu
      /\ start' = start /\ trail' = trail /\ cutEdges' = cutEdges /\ cutNodes' = cutNodes
  BY DEF Undo, cuts, Last, Front
<1>2. /\ part \in Partitions(g) /\ hill \in Seq(H) /\ trail \in Seq(R) /\ hill # <<>>
      /\ g.n \in Nat
  BY <1>1, GraphsAssumption DEF ClimbInv, TypeOK, StackUndoes, Partitions, Cuts, IsGraph
<1>3. l \in Nat /\ l >= 1 /\ Len(trail) \in Nat
  BY <1>2, EmptySeq, LenProperties
<1>4. /\ part = trail[l].part /\ l <= Len(trail)
      /\ \A k \in 1 .. l : hill[k].curModu = trail[k].modu
      /\ \A k \in 2 .. l : hill[k].node \in Vertices(g)
                           /\ trail[k].part = Flip(trail[k - 1].part, hill[k].node)
      /\ \A k \in 1 .. Len(trail) : trail[k].modu <= maxModu
      /\ \E k \in 1 .. l : trail[k].modu = maxModu
      /\ \A k \in l + 1 .. Len(trail) : trail[k].modu # maxModu
  BY <1>1 DEF ClimbInv, StackUndoes, StonesMatch, SummitAhead
<1>5. /\ hill' \in Seq(H) /\ Len(hill') = l - 1
      /\ \A k \in 1 .. l - 1 : hill'[k] = hill[k]
  <2> HIDE DEF H
  <2> QED
    BY <1>1, <1>2, FrontFacts DEF Front
<1>6. stone.curModu = trail[l].modu
  BY <1>3, <1>4
<1> HIDE DEF l
<1>7. Cuts' /\ MovesApart' /\ MovesOnce' /\ ZeroCountsTrue' /\ RenewedGainsTrue'
  <2>1. Cuts'
    BY <1>1 DEF ClimbInv, Cuts
  <2>2. MovesApart' /\ MovesOnce' /\ ZeroCountsTrue' /\ RenewedGainsTrue'
    BY <1>1 DEF MovesApart, MovesOnce, ZeroCountsTrue, RenewedGainsTrue
  <2> QED
    BY <2>1, <2>2
<1>8. StonesMatch'
  <2>1. \A k \in 1 .. l - 1 : k \in 1 .. l
    BY <1>3
  <2>2. \A k \in 2 .. l - 1 : k \in 2 .. l /\ k \in 1 .. l - 1
    BY <1>3
  <2>3. l - 1 <= Len(trail)
    BY <1>3, <1>4
  <2> QED
    BY <1>1, <1>4, <1>5, <2>1, <2>2, <2>3 DEF StonesMatch
<1>9. CASE stone.curModu = maxModu
  <2>1. pc' = "done" /\ part' = part
    BY <1>1, <1>9
  <2>2. TypeOK'
    BY <1>1, <1>5, <2>1 DEF ClimbInv, TypeOK
  <2>3. SummitAhead' /\ StackUndoes'
    BY <1>1, <1>4, <2>1 DEF SummitAhead, StackUndoes
  <2>4. SummitReached'
    <3>1. Len(hill') + 1 = l /\ Len(hill') + 2 = l + 1
      BY <1>3, <1>5
    <3> QED
      BY <1>1, <1>4, <1>6, <1>9, <2>1, <3>1 DEF SummitReached
  <2> QED
    BY <1>7, <1>8, <2>2, <2>3, <2>4 DEF ClimbInv
<1>10. CASE stone.curModu # maxModu
  <2>1. pc' = "undo" /\ part' = IF stone.node # -1 THEN Flip(part, stone.node) ELSE part
    BY <1>1, <1>10
  <2>2. \E k \in 1 .. l - 1 : trail[k].modu = maxModu
    <3>1. PICK k \in 1 .. l : trail[k].modu = maxModu
      BY <1>4
    <3>2. k # l
      BY <1>6, <1>10, <3>1
    <3>3. k \in 1 .. l - 1
      BY <1>3, <3>2
    <3> QED
      BY <3>1, <3>3
  <2>3. l - 1 >= 1
    BY <1>3, <2>2
  <2>4. l \in 2 .. l
    BY <1>3, <2>3
  <2>5. stone.node \in Vertices(g) /\ part = Flip(trail[l - 1].part, stone.node)
    BY <1>4, <2>4
  <2>6. stone.node # -1
    BY <1>2, <2>5 DEF Vertices
  <2>7. trail[l - 1].part \in Partitions(g)
    <3>1. l - 1 \in 1 .. Len(trail)
      BY <1>3, <1>4, <2>3
    <3>2. trail[l - 1] \in R
      BY <1>2, <3>1, ElementOfSeq
    <3> QED
      BY <3>2 DEF Partitions
  <2>8. part' = trail[l - 1].part
    <3>1. part' = Flip(part, stone.node)
      BY <2>1, <2>6
    <3>2. Flip(Flip(trail[l - 1].part, stone.node), stone.node) = trail[l - 1].part
      BY <2>5, <2>7, FlipTwice
    <3> QED
      BY <2>5, <3>1, <3>2
  <2>9. TypeOK'
    <3>1. part' \in [Vertices(g) -> {0, 1}]
      BY <2>7, <2>8 DEF Partitions
    <3> QED
      BY <1>1, <1>5, <2>1, <3>1 DEF ClimbInv, TypeOK
  <2>10. SummitAhead'
    <3>1. ASSUME NEW k \in l .. Len(trail) PROVE trail[k].modu # maxModu
      <4>1. CASE k = l
        BY <1>6, <1>10, <4>1
      <4>2. CASE k # l
        <5>1. k \in l + 1 .. Len(trail)
          BY <1>3, <4>2
        <5> QED
          BY <1>4, <5>1
      <4> QED
        BY <4>1, <4>2
    <3>2. Len(hill') = l - 1 /\ Len(hill') + 1 = l
      BY <1>3, <1>5
    <3> QED
      BY <1>1, <1>4, <2>1, <2>2, <3>1, <3>2 DEF SummitAhead
  <2>11. StackUndoes'
    <3>1. hill' # <<>>
      BY <1>5, <2>3, EmptySeq
    <3> QED
      BY <1>1, <1>5, <2>8, <3>1 DEF StackUndoes
  <2>12. SummitReached'
    BY <2>1 DEF SummitReached
  <2> QED
    BY <1>7, <1>8, <2>9, <2>10, <2>11, <2>12 DEF ClimbInv
<1> QED
  BY <1>9, <1>10

\* A step that changes nothing keeps the invariant.
LEMMA StutterClimb ==
  ASSUME ClimbInv, UNCHANGED vars
  PROVE  ClimbInv'
<1>1. /\ pc' = pc /\ g' = g /\ part' = part /\ list' = list /\ heapLen' = heapLen
      /\ cutEdges' = cutEdges /\ cutNodes' = cutNodes /\ fixnum' = fixnum /\ renew' = renew
      /\ zero' = zero /\ hill' = hill /\ maxModu' = maxModu /\ start' = start /\ trail' = trail
  BY DEF vars, cuts
<1>2. TypeOK' /\ Cuts'
  BY <1>1 DEF ClimbInv, TypeOK, Cuts
<1>3. MovesApart' /\ MovesOnce'
  BY <1>1 DEF ClimbInv, MovesApart, MovesOnce
<1>4. ZeroCountsTrue'
  BY <1>1 DEF ClimbInv, ZeroCountsTrue, ZeroCount
<1>5. RenewedGainsTrue'
  BY <1>1 DEF ClimbInv, RenewedGainsTrue, Gain
<1>6. StonesMatch' /\ SummitAhead'
  BY <1>1 DEF ClimbInv, StonesMatch, SummitAhead
<1>7. StackUndoes' /\ SummitReached'
  BY <1>1 DEF ClimbInv, StackUndoes, SummitReached
<1> QED
  BY <1>2, <1>3, <1>4, <1>5, <1>6, <1>7 DEF ClimbInv

\* Every step keeps the invariant.
LEMMA NextClimb == ClimbInv /\ [Next]_vars => ClimbInv'
<1> SUFFICES ASSUME ClimbInv, [Next]_vars PROVE ClimbInv'
  OBVIOUS
<1>1. CASE Start
  BY <1>1, StartClimb
<1>2. CASE Climb
  BY <1>2, ClimbClimbs
<1>3. CASE LastAlone
  BY <1>3, LastAloneClimb
<1>4. CASE EndClimb
  BY <1>4, EndClimbClimb
<1>5. CASE Undo
  BY <1>5, UndoClimb
<1>6. CASE Returned \/ UNCHANGED vars
  BY <1>6, StutterClimb DEF Returned
<1> QED
  BY <1>1, <1>2, <1>3, <1>4, <1>5, <1>6 DEF Next

-----------------------------------------------------------------------------
(***************************************************************************)
(* Theorems.                                                               *)
(***************************************************************************)

\* The inductive invariant of myFM and HillClimbing holds in every state, for
\* any family of graphs and any number of moves.
THEOREM ClimbInvariance == Spec => []ClimbInv
<1>1. Init => ClimbInv
  BY InitClimb
<1>2. ClimbInv /\ [Next]_vars => ClimbInv'
  BY NextClimb
<1> QED
  BY <1>1, <1>2, PTL DEF Spec

\* Every variable of the climb keeps its type; in particular getMax never reads
\* an entry that is not there and the modularity is never a quotient by zero.
THEOREM ClimbTypeCorrect == Spec => []TypeOK
<1>1. ClimbInv => TypeOK
  BY DEF ClimbInv
<1> QED
  BY <1>1, ClimbInvariance, PTL

\* Popping the hill undoes the moves: the partition is always the one that was
\* there when the stone now on top was pushed.
THEOREM UndoCorrect == Spec => []StackUndoes
<1>1. ClimbInv => StackUndoes
  BY DEF ClimbInv
<1> QED
  BY <1>1, ClimbInvariance, PTL

\* No vertex moves twice, and the heap and the entries behind it are the cut
\* vertices, whatever getMax did with them.
THEOREM NoVertexTwice == Spec => []MovesOnce
<1>1. ClimbInv => MovesOnce
  BY DEF ClimbInv
<1> QED
  BY <1>1, ClimbInvariance, PTL

\* PartZeroNodeCount, kept by increments, is the count.
THEOREM CountsCorrect == Spec => []ZeroCountsTrue
<1>1. ClimbInv => ZeroCountsTrue
  BY DEF ClimbInv
<1> QED
  BY <1>1, ClimbInvariance, PTL

\* A heap about to be built has the gains of the partition as it is.
THEOREM GainsCorrect == Spec => []RenewedGainsTrue
<1>1. ClimbInv => RenewedGainsTrue
  BY DEF ClimbInv
<1> QED
  BY <1>1, ClimbInvariance, PTL

\* HillClimbing hands back the partition at which the largest modularity it ever
\* recorded was recorded last.
THEOREM SummitReturned == Spec => []ReturnsSummit
<1>1. ClimbInv => ReturnsSummit
  <2> SUFFICES ASSUME ClimbInv, pc = "done"
               PROVE  LET summits == {k \in 1 .. Len(trail) : trail[k].modu = maxModu}
                      IN  /\ \A k \in 1 .. Len(trail) : trail[k].modu <= maxModu
                          /\ summits # {} /\ part = trail[Max(summits)].part
    BY DEF ReturnsSummit
  <2> DEFINE summits == {k \in 1 .. Len(trail) : trail[k].modu = maxModu}
             l == Len(hill) + 1
  <2>1. l \in Nat /\ l >= 1 /\ Len(trail) \in Nat
    BY LenProperties DEF ClimbInv, TypeOK
  <2>2. /\ l <= Len(trail) /\ trail[l].modu = maxModu /\ part = trail[l].part
        /\ \A k \in Len(hill) + 2 .. Len(trail) : trail[k].modu # maxModu
    BY DEF ClimbInv, SummitReached
  <2>3. Len(hill) + 2 = l + 1
    BY LenProperties DEF ClimbInv, TypeOK
  <2> HIDE DEF l
  <2>4. l \in summits /\ \A k \in summits : l >= k
    BY <2>1, <2>2, <2>3
  <2>5. Max(summits) = l
    <3>1. summits \subseteq Nat
      BY <2>1
    <3> HIDE DEF summits
    <3>2. Max(summits) \in summits /\ \A k \in summits : Max(summits) >= k
      BY <2>4 DEF Max
    <3> DEFINE m == Max(summits)
    <3> HIDE DEF m
    <3>3. m >= l /\ l >= m /\ m \in Nat
      BY <2>4, <3>1, <3>2 DEF m
    <3>4. m = l
      BY <2>1, <3>3
    <3> QED
      BY <3>4 DEF m
  <2>6. \A k \in 1 .. Len(trail) : trail[k].modu <= maxModu
    BY DEF ClimbInv, SummitAhead
  <2> QED
    BY <2>2, <2>4, <2>5, <2>6
<1> QED
  BY <1>1, ClimbInvariance, PTL

-----------------------------------------------------------------------------
(***************************************************************************)
(* The best move.                                                          *)
(***************************************************************************)

\* No two cut vertices have the same rank.
RanksApart ==
  pc = "climb" =>
    \A u, v \in ToSet(cutNodes) :
      Node_Rank[u] \in Int /\ (Node_Rank[u] = Node_Rank[v] => u = v)

\* Every step keeps the ranks apart: they are given once, when a climb starts.
LEMMA RanksStay == ClimbInv /\ RanksApart /\ [Next]_vars => RanksApart'
<1> SUFFICES ASSUME ClimbInv, RanksApart, [Next]_vars, pc' = "climb"
             PROVE  \A u, v \in ToSet(cutNodes') :
                      Node_Rank'[u] \in Int /\ (Node_Rank'[u] = Node_Rank'[v] => u = v)
  BY DEF RanksApart
<1>1. CASE Start
  <2>1. IsGraph(g)
    BY GraphsAssumption DEF ClimbInv, Cuts
  <2>2. /\ cutEdges' = FindCutEdges(g, part)
        /\ cutNodes' = FindCutNodes(g, cutEdges')
        /\ Node_Rank' = NodeRank(g, cutEdges')
    BY <1>1 DEF Start
  <2>3. cutEdges' \in Seq(Edges(g))
    BY <2>1, <2>2, CutEdgesType
  <2> QED
    BY <2>1, <2>2, <2>3, NodeRankFacts
<1>2. CASE ~ Start
  <2>1. pc = "climb" /\ cutNodes' = cutNodes /\ Node_Rank' = Node_Rank
    BY <1>2 DEF Next, Climb, LastAlone, EndClimb, Undo, Returned, vars, cuts
  <2> QED
    BY <2>1 DEF RanksApart
<1> QED
  BY <1>1, <1>2

\* The moves of the vertices U.
MovesOf(U) == [node : U, dMod : Int]

\* Larger gains, then smaller ranks, order the moves of vertices with different
\* ranks: of two moves of different vertices one is better.
LEMMA BetterOrders ==
  ASSUME NEW U, NEW rank,
         \A u, v \in U : rank[u] \in Int /\ (rank[u] = rank[v] => u = v)
  PROVE  /\ Ranks(MovesOf(U), rank)
         /\ \A x, y \in MovesOf(U) :
              x.node # y.node /\ ~ Better(y, x, rank) => Better(x, y, rank)
<1>1. \A x \in MovesOf(U) : x.node \in U /\ x.dMod \in Int /\ rank[x.node] \in Int
  BY DEF MovesOf
<1>2. \A x, y \in MovesOf(U) : rank[x.node] = rank[y.node] => x.node = y.node
  BY <1>1
<1>3. ASSUME NEW x \in MovesOf(U), NEW y \in MovesOf(U), NEW z \in MovesOf(U)
      PROVE  /\ Better(x, y, rank) \in BOOLEAN
             /\ Better(x, y, rank) => ~ Better(y, x, rank)
             /\ ~ Better(x, y, rank) /\ ~ Better(y, z, rank) => ~ Better(x, z, rank)
             /\ x.node # y.node /\ ~ Better(y, x, rank) => Better(x, y, rank)
  BY <1>1, <1>2 DEF Better
<1> QED
  BY <1>3 DEF Ranks

\* On every hypergraph, a move made from a heap that getMax has just built is the
\* best of the moves left: CHeapSort::BuildHeap and AdjustHeap make a heap, and
\* NodeRank leaves no two moves equal.
THEOREM BestMoveFirst == Spec => BestMoveAfterRenew
<1>1. Init => RanksApart
  BY DEF Init, RanksApart
<1>2. ClimbInv /\ RanksApart /\ [Next]_vars =>
        [pc = "climb" /\ renew /\ Len(hill') > Len(hill) =>
           LET move == [node |-> Last(hill').node, dMod |-> Last(hill').curModu]
           IN  \A k \in 1 .. heapLen :
                 list[k].node # move.node => Better(move, list[k], Node_Rank)]_vars
  <2> DEFINE top == Last(hill')
             move == [node |-> top.node, dMod |-> top.curModu]
  <2> SUFFICES ASSUME ClimbInv, RanksApart, Next, pc = "climb", renew, Len(hill') > Len(hill),
                      NEW k \in 1 .. heapLen, list[k].node # move.node
               PROVE  Better(move, list[k], Node_Rank)
    BY DEF vars
  <2>1. Len(hill) \in Nat
    BY LenProperties DEF ClimbInv, TypeOK
  <2>2. Climb
    <3>1. hill' # hill
      BY <2>1
    <3>2. ~ Start /\ ~ Undo /\ ~ Returned
      BY DEF Start, Undo, Returned
    <3>3. ~ LastAlone /\ ~ EndClimb
      BY <3>1 DEF LastAlone, EndClimb
    <3> QED
      BY <3>2, <3>3 DEF Next
  <2> DEFINE picked == getMax(list, heapLen, TRUE, Node_Rank)
             best == picked[heapLen]
             U == ToSet(cutNodes)
             E == MovesOf(U)
  <2>3. renew = TRUE /\ heapLen \in 1 .. Len(list) /\ Len(list) \in Nat
    BY <2>2, LenProperties DEF Climb, ClimbInv, TypeOK
  <2>4. hill' = Append(hill, [curModu |-> best.dMod, node |-> best.node])
    BY <2>2, <2>3 DEF Climb
  <2>5. list \in Seq(E)
    <3>1. list \in Seq(Moves(g)) /\ {list[i].node : i \in DOMAIN list} = U
      BY DEF ClimbInv, TypeOK, MovesOnce, Moves
    <3>2. list \in [1 .. Len(list) -> Moves(g)] /\ DOMAIN list = 1 .. Len(list)
      BY <3>1, LenProperties
    <3>3. \A i \in 1 .. Len(list) : list[i] \in E
      <4> SUFFICES ASSUME NEW i \in 1 .. Len(list) PROVE list[i] \in E
        OBVIOUS
      <4>1. list[i] \in Moves(g) /\ list[i].node \in U
        BY <3>1, <3>2
      <4> HIDE DEF U
      <4> QED
        BY <4>1 DEF Moves, MovesOf
    <3>4. list \in [1 .. Len(list) -> E]
      BY <3>2, <3>3
    <3> QED
      BY <2>3, <3>4, SeqDef
  <2>6. /\ Ranks(E, Node_Rank)
        /\ \A x, y \in E :
             x.node # y.node /\ ~ Better(y, x, Node_Rank) => Better(x, y, Node_Rank)
    <3>1. \A u, v \in U : Node_Rank[u] \in Int /\ (Node_Rank[u] = Node_Rank[v] => u = v)
      BY DEF RanksApart
    <3> HIDE DEF U
    <3> QED
      BY <3>1, BetterOrders
  <2> HIDE DEF E
  <2>7. ~ Better(list[k], best, Node_Rank)
    BY <2>3, <2>5, <2>6, getMaxBest
  <2>8. best \in E
    <3>1. picked \in Arrays(E, list, heapLen)
      BY <2>3, <2>5, getMaxRearranges
    <3>2. picked \in Seq(E) /\ Len(picked) = Len(list)
      BY <2>5, <3>1, RearrangedFacts DEF Arrays
    <3> QED
      BY <2>3, <3>2, ElementOfSeq
  <2>9. list[k] \in E
    BY <2>3, <2>5, ElementOfSeq
  <2> HIDE DEF picked, best
  <2>10. top = [curModu |-> best.dMod, node |-> best.node]
    <3>1. hill \in Seq([curModu : Int, node : Vertices(g) \cup {-1}])
      BY DEF ClimbInv, TypeOK
    <3> QED
      BY <2>1, <2>4, <3>1, AppendProperties DEF Last
  <2>11. move = [node |-> best.node, dMod |-> best.dMod]
    BY <2>10
  <2> HIDE DEF top, move
  <2>12. move.node = best.node /\ move.dMod = best.dMod
    BY <2>11
  <2>13. Better(best, list[k], Node_Rank)
    BY <2>6, <2>7, <2>8, <2>9, <2>12
  <2> QED
    BY <2>12, <2>13 DEF Better
<1> QED
  BY <1>1, <1>2, ClimbInvariance, RanksStay, PTL DEF Spec, BestMoveAfterRenew

=============================================================================
