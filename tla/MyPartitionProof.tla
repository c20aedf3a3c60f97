-------------------------- MODULE MyPartitionProof --------------------------
(***************************************************************************)
(* The theorems about myPartition, for every family of graphs, every       *)
(* number of rounds and of moves tried, and every CRITICAL.                *)
(***************************************************************************)
EXTENDS MyPartition, HillClimbProof

-----------------------------------------------------------------------------
(***************************************************************************)
(* Clusters.                                                               *)
(***************************************************************************)

\* Lists of clusters that have no vertex in common, each within an edge.
Clusterings(h) ==
  {cs \in Seq(Seq(Vertices(h))) :
     /\ \A c \in 1 .. Len(cs) : /\ cs[c] # <<>> /\ IsInjective(cs[c])
                                /\ \E e \in Edges(h) : ToSet(cs[c]) \subseteq ToSet(h.eind[e])
     /\ \A c, d \in 1 .. Len(cs) : ToSet(cs[c]) \cap ToSet(cs[d]) # {} => c = d}

\* A new cluster of h beside the clusters cs: vertices of one edge, none taken.
NewCluster(h, cs, s) ==
  /\ s \in Seq(Vertices(h)) /\ s # <<>> /\ IsInjective(s)
  /\ \E e \in Edges(h) : ToSet(s) \subseteq ToSet(h.eind[e])
  /\ Taken(cs) \cap ToSet(s) = {}

\* A new cluster keeps the clusters apart.
LEMMA ClusterAppend ==
  ASSUME NEW h, NEW cs \in Clusterings(h), NEW s, NewCluster(h, cs, s)
  PROVE  /\ Append(cs, s) \in Clusterings(h)
         /\ Taken(Append(cs, s)) = Taken(cs) \cup ToSet(s)
<1> DEFINE n == Len(cs)
           new == Append(cs, s)
           S == Seq(Vertices(h))
<1>1. cs \in Seq(S) /\ s \in S
  BY DEF Clusterings, NewCluster
<1>2. n \in Nat /\ DOMAIN cs = 1 .. n
  BY <1>1, LenProperties
<1>3. new \in Seq(S) /\ Len(new) = n + 1
  BY <1>1, AppendProperties
<1>4. (\A c \in 1 .. n : new[c] = cs[c]) /\ new[n + 1] = s
  BY <1>1, AppendProperties
<1>5. DOMAIN new = 1 .. n + 1
  BY <1>3, LenProperties
<1>6. \A c \in 1 .. n : /\ cs[c] # <<>> /\ IsInjective(cs[c])
                        /\ \E e \in Edges(h) : ToSet(cs[c]) \subseteq ToSet(h.eind[e])
  BY DEF Clusterings
<1>7. \A c, d \in 1 .. n : ToSet(cs[c]) \cap ToSet(cs[d]) # {} => c = d
  BY DEF Clusterings
<1> HIDE DEF n, new, S
<1>8. \A c \in 1 .. n + 1 : c \in 1 .. n \/ c = n + 1
  BY <1>2
<1>9. \A c \in 1 .. n + 1 : /\ new[c] # <<>> /\ IsInjective(new[c])
                            /\ \E e \in Edges(h) : ToSet(new[c]) \subseteq ToSet(h.eind[e])
  BY <1>4, <1>6, <1>8 DEF NewCluster
<1>10. \A c \in 1 .. n : ToSet(cs[c]) \cap ToSet(s) = {}
  BY <1>2 DEF NewCluster, Taken
<1>11. \A c, d \in 1 .. n + 1 : ToSet(new[c]) \cap ToSet(new[d]) # {} => c = d
  <2> SUFFICES ASSUME NEW c \in 1 .. n + 1, NEW d \in 1 .. n + 1,
                      ToSet(new[c]) \cap ToSet(new[d]) # {}
               PROVE  c = d
    OBVIOUS
  <2>1. CASE c \in 1 .. n /\ d \in 1 .. n
    BY <1>4, <1>7, <2>1
  <2>2. CASE c \in 1 .. n /\ d = n + 1
    BY <1>4, <1>10, <2>2
  <2>3. CASE c = n + 1 /\ d \in 1 .. n
    BY <1>4, <1>10, <2>3
  <2> QED
    BY <1>8, <2>1, <2>2, <2>3
<1>12. Taken(new) = Taken(cs) \cup ToSet(s)
  <2>1. 1 .. n + 1 = (1 .. n) \cup {n + 1}
    BY <1>2
  <2> QED
    BY <1>2, <1>4, <1>5, <2>1 DEF Taken
<1>13. new \in Clusterings(h)
  BY <1>3, <1>9, <1>11 DEF Clusterings, S
<1> QED
  BY <1>12, <1>13 DEF new

\* coarseningGraph takes edges.
LEMMA HeavyFirstEdges ==
  ASSUME NEW h, IsGraph(h)
  PROVE  HeavyFirst(h) \in Seq(Edges(h))
<1> DEFINE all == [i \in Edges(h) |-> i]
           n == Len(h.eind)
<1>1. n \in Nat /\ h.w \in [Edges(h) -> Nat]
  BY LenProperties DEF IsGraph
<1>2. all \in Seq(Edges(h))
  <2>1. all \in [1 .. n -> Edges(h)]
    BY DEF Edges
  <2> HIDE DEF all
  <2> QED
    BY <1>1, <2>1, SeqDef
<1> HIDE DEF all
<1>3. LargestFirst(all, h.w) \in Seq(Edges(h))
  BY <1>1, <1>2, LargestFirstFacts
<1> QED
  BY <1>3 DEF HeavyFirst, all

\* Every vertex has an edge.
Covered(h) == \A v \in Vertices(h) : \E e \in Edges(h) : v \in ToSet(h.eind[e])

\* coarseningGraph makes clusters, and every vertex is in one.
LEMMA ClustersCluster ==
  ASSUME NEW h, IsGraph(h), Covered(h)
  PROVE  Clusters(h) \in Clusterings(h) /\ Vertices(h) \subseteq Taken(Clusters(h))
<1> DEFINE order == HeavyFirst(h)
           m == Len(order)
           S == Clusterings(h)
           empty == <<>>
           alone(cs, k) == IF Taken(cs) \cap ToSet(h.eind[order[k]]) = {}
                             THEN Append(cs, h.eind[order[k]]) ELSE cs
           Alone == CHOOSE F : F = [k \in 0 .. m |-> IF k = 0 THEN empty ELSE alone(F[k - 1], k)]
           free(cs, k) == Chain(Arcs(h, order[k]), [v \in Vertices(h) |-> v \in Taken(cs)], FALSE)
           join(cs, k) == IF free(cs, k) = <<>> THEN cs ELSE Append(cs, free(cs, k))
           Joined == CHOOSE F : F = [k \in 0 .. m |->
                                       IF k = 0 THEN Alone[m] ELSE join(F[k - 1], k)]
           single(cs, k) == IF k - 1 \in Taken(cs) THEN cs ELSE Append(cs, <<k - 1>>)
           Single == CHOOSE F : F = [k \in 0 .. h.n |->
                                       IF k = 0 THEN Joined[m] ELSE single(F[k - 1], k)]
<1>1. Clusters(h) = Single[h.n]
  BY DEF Clusters
<1>2. order \in Seq(Edges(h)) /\ m \in Nat /\ order \in [1 .. m -> Edges(h)] /\ h.n \in Nat
  BY HeavyFirstEdges, LenProperties DEF IsGraph
<1>3. empty \in S
  BY EmptySeq DEF Clusterings
<1>4. ASSUME NEW cs \in S, NEW k \in 1 .. m
      PROVE  alone(cs, k) \in S
  <2> DEFINE s == h.eind[order[k]]
  <2>1. order[k] \in Edges(h)
    BY <1>2
  <2>2. s \in Seq(Vertices(h)) /\ s # <<>> /\ IsInjective(s)
    BY <2>1, EdgeFacts DEF IsGraph
  <2>3. ToSet(s) \subseteq ToSet(h.eind[order[k]])
    OBVIOUS
  <2> HIDE DEF s, S, order
  <2>4. CASE Taken(cs) \cap ToSet(s) = {}
    <3>1. NewCluster(h, cs, s)
      BY <2>1, <2>2, <2>3, <2>4 DEF NewCluster
    <3> QED
      BY <2>4, <3>1, ClusterAppend DEF S, s
  <2>5. CASE Taken(cs) \cap ToSet(s) # {}
    BY <2>5 DEF s
  <2> QED
    BY <2>4, <2>5
<1>5. ASSUME NEW cs \in S, NEW k \in 1 .. m
      PROVE  join(cs, k) \in S
  <2> DEFINE s == free(cs, k)
             arcs == Arcs(h, order[k])
             key == [v \in Vertices(h) |-> v \in Taken(cs)]
  <2>1. order[k] \in Edges(h)
    BY <1>2
  <2>2. /\ arcs \in Seq(Vertices(h)) /\ IsInjective(arcs)
        /\ ToSet(arcs) = ToSet(h.eind[order[k]])
    <3>1. h.eind[order[k]] \in Seq(Vertices(h)) /\ IsInjective(h.eind[order[k]])
      BY <2>1, EdgeFacts DEF IsGraph
    <3> QED
      BY <3>1, ReverseType DEF Arcs
  <2>3. \A v \in Vertices(h) : key[v] = FALSE => v \notin Taken(cs)
    OBVIOUS
  <2>4. ToSet(arcs) \subseteq Vertices(h)
    BY <2>1, <2>2, EdgeFacts
  <2> DEFINE no == FALSE
  <2>5. s = Chain(arcs, key, no)
    OBVIOUS
  <2> HIDE DEF arcs, key, order, no, s
  <2>6. /\ s \in Seq(Vertices(h)) /\ IsInjective(s)
        /\ ToSet(s) = {x \in ToSet(arcs) : key[x] = no}
    BY <2>2, <2>5, ChainFacts
  <2>7. /\ s \in Seq(Vertices(h)) /\ IsInjective(s)
        /\ ToSet(s) = {x \in ToSet(arcs) : key[x] = FALSE}
    BY <2>6 DEF no
  <2> HIDE DEF free, S
  <2>8. CASE s # <<>>
    <3>1. Taken(cs) \cap ToSet(s) = {}
      BY <2>3, <2>4, <2>7
    <3>2. ToSet(s) \subseteq ToSet(h.eind[order[k]])
      BY <2>2, <2>7
    <3>3. NewCluster(h, cs, s)
      BY <2>1, <2>7, <2>8, <3>1, <3>2 DEF NewCluster
    <3> QED
      BY <2>8, <3>3, ClusterAppend DEF S, s
  <2>9. CASE s = <<>>
    BY <2>9 DEF s
  <2> QED
    BY <2>8, <2>9
<1>6. ASSUME NEW cs \in S, NEW k \in 1 .. h.n
      PROVE  single(cs, k) \in S /\ Taken(single(cs, k)) = Taken(cs) \cup {k - 1}
  <2> DEFINE s == <<k - 1>>
  <2>1. k - 1 \in Vertices(h)
    BY <1>2 DEF Vertices
  <2>2. s \in Seq(Vertices(h)) /\ s # <<>> /\ IsInjective(s) /\ ToSet(s) = {k - 1}
    BY <2>1 DEF IsInjective, ToSet
  <2>3. \E e \in Edges(h) : ToSet(s) \subseteq ToSet(h.eind[e])
    BY <2>1, <2>2 DEF Covered
  <2> HIDE DEF s, S
  <2>4. CASE k - 1 \notin Taken(cs)
    <3>1. NewCluster(h, cs, s)
      BY <2>2, <2>3, <2>4 DEF NewCluster
    <3> QED
      BY <2>2, <2>4, <3>1, ClusterAppend DEF S, s
  <2>5. CASE k - 1 \in Taken(cs)
    BY <2>5
  <2> QED
    BY <2>4, <2>5
<1> HIDE DEF order, m, S, empty, alone, join, single
<1> DEFINE dAlone == [t \in S \X (1 .. m) |-> alone(t[1], t[2])]
           dJoined == [t \in S \X (1 .. m) |-> join(t[1], t[2])]
           N == h.n
           dSingle == [t \in S \X (1 .. N) |-> single(t[1], t[2])]
<1>7. PICK fAlone : fAlone \in Courses(S, empty, m, dAlone)
  <2>1. dAlone \in Bodies(S, m)
    BY <1>4 DEF Bodies
  <2> HIDE DEF dAlone
  <2> QED
    BY <1>2, <1>3, <2>1, LoopExists
<1>8. fAlone = [k \in 0 .. m |-> IF k = 0 THEN empty ELSE alone(fAlone[k - 1], k)]
  <2>1. /\ fAlone \in [0 .. m -> S] /\ fAlone[0] = empty
        /\ \A k \in 1 .. m : fAlone[k] = dAlone[<<fAlone[k - 1], k>>]
    BY <1>7 DEF Courses
  <2>2. ASSUME NEW k \in 1 .. m PROVE fAlone[k] = alone(fAlone[k - 1], k)
    <3>1. <<fAlone[k - 1], k>> \in S \X (1 .. m)
      BY <1>2, <2>1
    <3> QED
      BY <2>1, <3>1
  <2> HIDE DEF dAlone
  <2>3. \A k \in 0 .. m : fAlone[k] = IF k = 0 THEN empty ELSE alone(fAlone[k - 1], k)
    BY <1>2, <2>1, <2>2
  <2> QED
    BY <2>1, <2>3
<1>9. Alone = [k \in 0 .. m |-> IF k = 0 THEN empty ELSE alone(Alone[k - 1], k)]
  BY <1>8, Zenon
<1> HIDE DEF Alone
<1>10. Alone[m] \in S /\ \A k \in 0 .. m : Alone[k] \in S
  <2>1. ASSUME NEW k \in 1 .. m, Alone[k - 1] \in S
        PROVE  Alone[k] = dAlone[<<Alone[k - 1], k>>]
    <3>1. k \in 0 .. m /\ k # 0
      BY <1>2
    <3>2. Alone[k] = alone(Alone[k - 1], k)
      BY <1>9, <3>1
    <3> QED
      BY <2>1, <3>2
  <2>2. Alone[0] = empty /\ Alone = [k \in 0 .. m |-> Alone[k]]
    BY <1>2, <1>9
  <2>3. dAlone \in Bodies(S, m)
    BY <1>4 DEF Bodies
  <2> HIDE DEF dAlone
  <2>4. Follows(S, empty, m, dAlone, Alone)
    BY <2>1, <2>2 DEF Follows
  <2>5. Alone \in Courses(S, empty, m, dAlone)
    BY <1>2, <1>3, <2>3, <2>4, LoopFollows
  <2> QED
    BY <1>2, <2>5 DEF Courses
<1>11. PICK fJoined : fJoined \in Courses(S, Alone[m], m, dJoined)
  <2>1. dJoined \in Bodies(S, m)
    BY <1>5 DEF Bodies
  <2> HIDE DEF dJoined
  <2> QED
    BY <1>2, <1>10, <2>1, LoopExists
<1>12. fJoined = [k \in 0 .. m |-> IF k = 0 THEN Alone[m] ELSE join(fJoined[k - 1], k)]
  <2>1. /\ fJoined \in [0 .. m -> S] /\ fJoined[0] = Alone[m]
        /\ \A k \in 1 .. m : fJoined[k] = dJoined[<<fJoined[k - 1], k>>]
    BY <1>11 DEF Courses
  <2>2. ASSUME NEW k \in 1 .. m PROVE fJoined[k] = join(fJoined[k - 1], k)
    <3>1. <<fJoined[k - 1], k>> \in S \X (1 .. m)
      BY <1>2, <2>1
    <3> QED
      BY <2>1, <3>1
  <2> HIDE DEF dJoined
  <2>3. \A k \in 0 .. m : fJoined[k] = IF k = 0 THEN Alone[m] ELSE join(fJoined[k - 1], k)
    BY <1>2, <2>1, <2>2
  <2> QED
    BY <2>1, <2>3
<1>13. Joined = [k \in 0 .. m |-> IF k = 0 THEN Alone[m] ELSE join(Joined[k - 1], k)]
  BY <1>12, Zenon
<1> HIDE DEF Joined
<1>14. Joined[m] \in S /\ \A k \in 0 .. m : Joined[k] \in S
  <2>1. ASSUME NEW k \in 1 .. m, Joined[k - 1] \in S
        PROVE  Joined[k] = dJoined[<<Joined[k - 1], k>>]
    <3>1. k \in 0 .. m /\ k # 0
      BY <1>2
    <3>2. Joined[k] = join(Joined[k - 1], k)
      BY <1>13, <3>1
    <3> QED
      BY <2>1, <3>2
  <2>2. Joined[0] = Alone[m] /\ Joined = [k \in 0 .. m |-> Joined[k]]
    BY <1>2, <1>13
  <2>3. dJoined \in Bodies(S, m)
    BY <1>5 DEF Bodies
  <2> HIDE DEF dJoined
  <2>4. Follows(S, Alone[m], m, dJoined, Joined)
    BY <2>1, <2>2 DEF Follows
  <2>5. Joined \in Courses(S, Alone[m], m, dJoined)
    BY <1>2, <1>10, <2>3, <2>4, LoopFollows
  <2> QED
    BY <1>2, <2>5 DEF Courses
<1>15. N \in Nat /\ \A cs \in S, k \in 1 .. N : single(cs, k) \in S
  BY <1>2, <1>6
<1>16. PICK fSingle : fSingle \in Courses(S, Joined[m], N, dSingle)
  <2>1. dSingle \in Bodies(S, N)
    BY <1>15 DEF Bodies
  <2> HIDE DEF dSingle
  <2> QED
    BY <1>15, <1>14, <2>1, LoopExists
<1>17. fSingle = [k \in 0 .. N |-> IF k = 0 THEN Joined[m] ELSE single(fSingle[k - 1], k)]
  <2>1. /\ fSingle \in [0 .. N -> S] /\ fSingle[0] = Joined[m]
        /\ \A k \in 1 .. N : fSingle[k] = dSingle[<<fSingle[k - 1], k>>]
    BY <1>16 DEF Courses
  <2>2. ASSUME NEW k \in 1 .. N PROVE fSingle[k] = single(fSingle[k - 1], k)
    <3>1. <<fSingle[k - 1], k>> \in S \X (1 .. N)
      BY <1>15, <2>1
    <3> QED
      BY <2>1, <3>1
  <2> HIDE DEF dSingle
  <2>3. \A k \in 0 .. N : fSingle[k] = IF k = 0 THEN Joined[m] ELSE single(fSingle[k - 1], k)
    BY <1>15, <2>1, <2>2
  <2> QED
    BY <2>1, <2>3
<1>18. Single = [k \in 0 .. N |-> IF k = 0 THEN Joined[m] ELSE single(Single[k - 1], k)]
  BY <1>17, Zenon
<1> HIDE DEF Single
<1>19. Single[N] \in S /\ \A k \in 0 .. N : Single[k] \in S
  <2>1. ASSUME NEW k \in 1 .. N, Single[k - 1] \in S
        PROVE  Single[k] = dSingle[<<Single[k - 1], k>>]
    <3>1. k \in 0 .. N /\ k # 0
      BY <1>2
    <3>2. Single[k] = single(Single[k - 1], k)
      BY <1>18, <3>1
    <3> QED
      BY <2>1, <3>2
  <2>2. Single[0] = Joined[m] /\ Single = [k \in 0 .. N |-> Single[k]]
    BY <1>15, <1>18
  <2>3. dSingle \in Bodies(S, N)
    BY <1>15 DEF Bodies
  <2> HIDE DEF dSingle
  <2>4. Follows(S, Joined[m], N, dSingle, Single)
    BY <2>1, <2>2 DEF Follows
  <2>5. Single \in Courses(S, Joined[m], N, dSingle)
    BY <1>15, <1>14, <2>3, <2>4, LoopFollows
  <2> QED
    BY <1>15, <2>5 DEF Courses
<1>20. Single[0] = Joined[m] /\ \A k \in 1 .. N : Single[k] = single(Single[k - 1], k)
  BY <1>15, <1>18
<1> DEFINE T == {k \in Nat : k <= N => 0 .. k - 1 \subseteq Taken(Single[k])}
<1>21. 0 \in T
  OBVIOUS
<1>22. ASSUME NEW k \in Nat, k \in T
       PROVE  k + 1 \in T
  <2> SUFFICES ASSUME k + 1 <= N PROVE 0 .. (k + 1) - 1 \subseteq Taken(Single[k + 1])
    OBVIOUS
  <2>1. k + 1 \in 1 .. N /\ (k + 1) - 1 = k /\ k \in 0 .. N
    BY <1>15
  <2>2. Single[k + 1] = single(Single[k], k + 1) /\ Single[k] \in S
    BY <1>19, <1>20, <2>1
  <2>3. Taken(Single[k + 1]) = Taken(Single[k]) \cup {k}
    BY <1>6, <2>1, <2>2
  <2>4. 0 .. k - 1 \subseteq Taken(Single[k])
    BY <1>15, <1>22, <2>1
  <2>5. 0 .. k = (0 .. k - 1) \cup {k}
    OBVIOUS
  <2> QED
    BY <2>1, <2>3, <2>4, <2>5
<1>23. \A k \in Nat : k \in T
  <2> HIDE DEF T
  <2> QED
    BY <1>21, <1>22, NatSetInduction
<1>24. Vertices(h) \subseteq Taken(Single[N])
  BY <1>15, <1>23 DEF Vertices
<1> QED
  BY <1>1, <1>19, <1>24 DEF S

-----------------------------------------------------------------------------
(***************************************************************************)
(* The start partition.                                                    *)
(***************************************************************************)

\* A set of naturals that is not empty has a smallest one.
LEMMA MinNat ==
  ASSUME NEW S \in SUBSET Nat, S # {}
  PROVE  Min(S) \in S /\ \A y \in S : Min(S) <= y
<1>1. PICK x \in S : \A y \in S : ~ (<<y, x>> \in OpToRel(<, Nat))
  <2>1. IsWellFoundedOn(OpToRel(<, Nat), Nat)
    BY NatLessThanWellFounded
  <2> QED
    BY <2>1, WFMin, Zenon
<1>2. ASSUME NEW y \in S
      PROVE  x <= y
  <2>1. x \in Nat /\ y \in Nat
    OBVIOUS
  <2>2. ~ (<<y, x>> \in OpToRel(<, Nat))
    BY <1>1
  <2>3. ~ (y < x)
    BY <2>1, <2>2 DEF OpToRel
  <2> QED
    BY <2>1, <2>3
<1> QED
  BY <1>2 DEF Min

\* Counting on from a vertex and around reaches every vertex.
LEMMA AwayReaches ==
  ASSUME NEW n \in Nat, NEW a \in 0 .. n - 1, NEW v \in 0 .. n - 1
  PROVE  \E d \in 1 .. n : (a + d) % n = v
<1>1. n > 0 /\ v % n = v /\ (v + n) % n = v
  OBVIOUS
<1>2. CASE v > a
  <2>1. v - a \in 1 .. n /\ a + (v - a) = v
    BY <1>2
  <2> QED
    BY <1>1, <2>1
<1>3. CASE v <= a
  <2>1. v - a + n \in 1 .. n /\ a + (v - a + n) = v + n
    BY <1>3
  <2> QED
    BY <1>1, <2>1
<1> QED
  BY <1>2, <1>3

\* While a vertex is missing, the search for another seed ends at a missing one.
LEMMA AnotherSeedFacts ==
  ASSUME NEW h, h.n \in Nat, NEW seed \in Vertices(h), NEW found \in Lists(Vertices(h)),
         Len(found) < h.n
  PROVE  AnotherSeed(h, seed, found) \in Vertices(h) \ ToSet(found)
<1> DEFINE n == h.n
           D == {d \in 1 .. n : (seed + d) % n \notin ToSet(found)}
<1>1. n \in Nat /\ n > 0 /\ Vertices(h) = 0 .. n - 1 /\ seed \in 0 .. n - 1
  <2>1. n \in Nat /\ Vertices(h) = 0 .. n - 1
    BY DEF Vertices
  <2> QED
    BY <2>1
<1>2. PICK v \in Vertices(h) : v \notin ToSet(found)
  <2>1. SUFFICES ASSUME Vertices(h) \subseteq ToSet(found) PROVE FALSE
    BY <2>1
  <2>2. IsFiniteSet(ToSet(found)) /\ Cardinality(ToSet(found)) = Len(found)
    BY ListCardinality
  <2>3. Cardinality(Vertices(h)) <= Len(found)
    BY <2>1, <2>2, FS_Subset
  <2>4. Cardinality(0 .. n - 1) = n
    <3> HIDE DEF n
    <3>1. Cardinality(0 .. n - 1) = IF 0 > n - 1 THEN 0 ELSE (n - 1) - 0 + 1
      BY <1>1, FS_Interval
    <3> QED
      BY <1>1, <3>1
  <2>5. Len(found) \in Nat
    BY LenProperties DEF Lists
  <2> QED
    BY <1>1, <2>3, <2>4, <2>5
<1>3. D # {}
  <2> HIDE DEF n
  <2>1. n \in Nat /\ seed \in 0 .. n - 1 /\ v \in 0 .. n - 1
    BY <1>1
  <2>2. PICK d \in 1 .. n : (seed + d) % n = v
    BY <2>1, AwayReaches
  <2>3. d \in D
    BY <1>2, <2>2
  <2> QED
    BY <2>3
<1>4. Min(D) \in D
  <2>1. D \in SUBSET Nat
    OBVIOUS
  <2> HIDE DEF D
  <2> QED
    BY <1>3, <2>1, MinNat
<1>5. AnotherSeed(h, seed, found) = (seed + Min(D)) % n
  BY DEF AnotherSeed
<1>6. (seed + Min(D)) % n \notin ToSet(found) /\ Min(D) \in 1 .. n
  BY <1>4
<1> HIDE DEF n, D
<1>7. (seed + Min(D)) % n \in 0 .. n - 1
  BY <1>1, <1>6
<1> QED
  BY <1>1, <1>5, <1>6, <1>7

\* The vertices on the edges of a vertex.
LEMMA NearType ==
  ASSUME NEW h, IsGraph(h), NEW v
  PROVE  Near(h, v) \in Seq(Vertices(h))
<1> DEFINE all == [i \in Edges(h) |-> i]
           key == [i \in Edges(h) |-> v \in ToSet(h.eind[i])]
           es == EdgesOf(h, v)
           n == Len(es)
           arcs == [k \in 1 .. n |-> Arcs(h, es[k])]
           m == Len(h.eind)
           yes == TRUE
<1>1. all \in Seq(Edges(h))
  <2>1. m \in Nat
    BY LenProperties DEF IsGraph
  <2>2. all \in [1 .. m -> Edges(h)]
    BY DEF Edges
  <2> HIDE DEF all, m
  <2> QED
    BY <2>1, <2>2, SeqDef
<1>2. es = Chain(all, key, yes)
  BY DEF EdgesOf
<1>3. Near(h, v) = FlattenSeq(arcs)
  BY DEF Near
<1> HIDE DEF all, key, es, yes
<1>4. es \in Seq(Edges(h))
  BY <1>1, <1>2, ChainFacts
<1>5. n \in Nat /\ es \in [1 .. n -> Edges(h)]
  BY <1>4, LenProperties
<1>6. ASSUME NEW k \in 1 .. n
      PROVE  Arcs(h, es[k]) \in Seq(Vertices(h))
  BY <1>5, EdgeFacts, ReverseType DEF Arcs
<1>7. arcs \in [1 .. n -> Seq(Vertices(h))]
  BY <1>6
<1> HIDE DEF arcs, n
<1>8. arcs \in Seq(Seq(Vertices(h)))
  BY <1>5, <1>7, SeqDef
<1> QED
  BY <1>3, <1>8, FlattenSeqType

\* What subpartition has found at any time: different vertices, the seed first,
\* and at most half of all.
Finds(h, seed) ==
  {f \in Lists(Vertices(h)) : Len(f) \in 1 .. h.n \div 2 /\ f[1] = seed}

\* Taking a vertex from the queue leaves more vertices found than taken.
LEMMA ExpandFacts ==
  ASSUME NEW h, IsGraph(h), NEW seed \in Vertices(h), NEW f \in Finds(h, seed),
         NEW k \in 1 .. Len(f), Len(f) < h.n \div 2
  PROVE  Expand(h, seed, f, k) \in Finds(h, seed) /\ Len(Expand(h, seed, f, k)) >= k + 1
<1> DEFINE V == Vertices(h)
           half == h.n \div 2
           near == Near(h, f[k])
           all == FirstSeen(f \o near)
           m == Len(all)
           cut == Min({half, m})
           now == SubSeq(all, 1, cut)
           l == Len(f)
           next == AnotherSeed(h, seed, now)
<1>1. /\ f \in Lists(V) /\ f \in Seq(V) /\ l \in Nat /\ l >= 1 /\ f[1] = seed
      /\ h.n \in Nat /\ half \in Nat /\ half <= h.n /\ l < half /\ k \in Nat /\ 1 <= k /\ k <= l
  <2>1. h.n \in Nat
    BY DEF IsGraph
  <2>2. half \in Nat /\ half <= h.n
    BY <2>1
  <2>3. f \in Lists(V) /\ f \in Seq(V) /\ l \in 1 .. half /\ f[1] = seed
    BY DEF Finds, Lists
  <2> QED
    BY <2>1, <2>2, <2>3
<1>2. near \in Seq(V)
  BY NearType
<1> HIDE DEF near, V, half, l
<1>3. f \o near \in Seq(V)
  BY <1>1, <1>2, ConcatProperties
<1>4. all \in Lists(V) /\ m >= l /\ \A i \in 1 .. l : all[i] = f[i]
  BY <1>1, <1>2, <1>3, FirstSeenLists, FirstSeenPrefix DEF l
<1> HIDE DEF all
<1>5. /\ all \in Seq(V) /\ m \in Nat /\ DOMAIN all = 1 .. m
      /\ \A i \in 1 .. m : all[i] \in V
      /\ \A i, j \in 1 .. m : all[i] = all[j] => i = j
  BY <1>4, LenProperties DEF Lists, IsInjective
<1> HIDE DEF m
<1>6. cut \in {half, m} /\ cut <= half /\ cut <= m
  <2>1. {half, m} \in SUBSET Nat
    BY <1>1, <1>5
  <2> QED
    BY <2>1, MinNat
<1>7. cut \in Nat /\ l <= cut
  BY <1>1, <1>4, <1>5, <1>6
<1> HIDE DEF cut
<1>8. now \in Lists(V) /\ Len(now) = cut /\ now[1] = seed
  <2> DEFINE t == [i \in 1 .. cut |-> all[i]]
  <2>1. \A i \in 1 .. cut : i \in 1 .. m /\ 1 + i - 1 = i
    BY <1>5, <1>6, <1>7
  <2>2. now = t
    <3>1. now = [i \in 1 .. cut |-> all[1 + i - 1]]
      BY <1>7
    <3> QED
      BY <2>1, <3>1
  <2>3. t \in Seq(V) /\ Len(t) = cut
    <3>1. \A i \in 1 .. cut : all[i] \in V
      BY <1>5, <2>1
    <3> QED
      BY <1>7, <3>1, IsASeq, LenProperties
  <2>4. IsInjective(t)
    BY <1>5, <2>1 DEF IsInjective
  <2>5. t[1] = seed
    <3>1. 1 \in 1 .. cut /\ 1 \in 1 .. l
      BY <1>1, <1>7
    <3> QED
      BY <1>1, <1>4, <3>1
  <2> HIDE DEF now, t
  <2> QED
    BY <2>2, <2>3, <2>4, <2>5 DEF Lists
<1> HIDE DEF now
<1>9. Expand(h, seed, f, k) = IF Len(now) = k /\ k < half THEN Append(now, next) ELSE now
  BY DEF Expand, now, cut, m, all, near, half
<1>10. CASE Len(now) = k /\ k < half
  <2>1. next \in V /\ next \notin ToSet(now)
    <3>1. Len(now) < h.n
      BY <1>1, <1>10
    <3> QED
      BY <1>1, <1>8, <3>1, AnotherSeedFacts DEF V
  <2> HIDE DEF next
  <2>2. now \in Seq(V) /\ DOMAIN now = 1 .. Len(now)
    BY <1>8, LenProperties DEF Lists
  <2>3. \A j \in DOMAIN now : now[j] # next
    BY <2>1 DEF ToSet
  <2>4. Append(now, next) \in Lists(V)
    BY <1>8, <2>1, <2>3, ListAppend
  <2>5. Len(Append(now, next)) = k + 1 /\ Append(now, next)[1] = now[1]
    <3>1. 1 \in 1 .. Len(now)
      BY <1>1, <1>10
    <3> QED
      BY <1>10, <2>1, <2>2, <3>1, AppendProperties
  <2>6. k + 1 \in 1 .. half
    BY <1>1, <1>10
  <2>7. Append(now, next) \in Finds(h, seed)
    BY <1>8, <2>4, <2>5, <2>6 DEF Finds, V, half
  <2>8. k + 1 >= k + 1
    BY <1>1
  <2> QED
    BY <1>9, <1>10, <2>5, <2>7, <2>8
<1>11. CASE ~ (Len(now) = k /\ k < half)
  <2>1. cut \in 1 .. half /\ cut >= k + 1
    BY <1>1, <1>6, <1>7, <1>8, <1>11
  <2>2. now \in Finds(h, seed)
    BY <1>8, <2>1 DEF Finds, V, half
  <2> QED
    BY <1>8, <1>9, <1>11, <2>1, <2>2
<1> QED
  BY <1>10, <1>11

\* From every seed the search stops with exactly half of the vertices, rounded
\* down, the seed among them.
LEMMA GrowHalf ==
  ASSUME NEW h, IsGraph(h), h.n > 1, NEW seed \in Vertices(h)
  PROVE  Grow(h, seed) \in Finds(h, seed) /\ Len(Grow(h, seed)) = h.n \div 2
<1> DEFINE half == h.n \div 2
           S == Finds(h, seed)
           first == <<seed>>
           body(f, k) == IF Len(f) >= half THEN f ELSE Expand(h, seed, f, k)
           Reached == CHOOSE F : F = [k \in 0 .. half |->
                                        IF k = 0 THEN first ELSE body(F[k - 1], k)]
           d == [t \in S \X (1 .. half) |-> IF t[2] \in 1 .. Len(t[1]) THEN body(t[1], t[2]) ELSE t[1]]
<1>1. Grow(h, seed) = Reached[half]
  BY DEF Grow
<1>2. h.n \in Nat /\ half \in Nat /\ half >= 1
  <2>1. h.n \in Nat
    BY DEF IsGraph
  <2> QED
    BY <2>1
<1>3. first \in S
  <2>1. first \in Seq(Vertices(h)) /\ Len(first) = 1 /\ first[1] = seed /\ IsInjective(first)
    BY DEF IsInjective
  <2>2. 1 \in 1 .. half
    BY <1>2
  <2> HIDE DEF first
  <2> QED
    BY <2>1, <2>2 DEF Finds, Lists
<1>4. ASSUME NEW f \in S
      PROVE  Len(f) \in 1 .. half /\ Len(f) \in Nat
  BY <1>2 DEF Finds
<1>5. ASSUME NEW f \in S, NEW k \in 1 .. half, k \in 1 .. Len(f)
      PROVE  body(f, k) \in S /\ (Len(body(f, k)) >= half \/ Len(body(f, k)) >= k + 1)
  <2>1. CASE Len(f) >= half
    BY <2>1
  <2>2. CASE ~ (Len(f) >= half)
    <3>1. Len(f) < h.n \div 2
      BY <1>2, <1>4, <2>2
    <3>2. Expand(h, seed, f, k) \in S /\ Len(Expand(h, seed, f, k)) >= k + 1
      BY <1>5, <3>1, ExpandFacts
    <3> QED
      BY <2>2, <3>2
  <2> QED
    BY <2>1, <2>2
<1> HIDE DEF body, S, half, first
<1>6. d \in Bodies(S, half)
  BY <1>5 DEF Bodies
<1>7. PICK course : course \in Courses(S, first, half, d)
  <2> HIDE DEF d
  <2> QED
    BY <1>2, <1>3, <1>6, LoopExists
<1>8. /\ course \in [0 .. half -> S] /\ course[0] = first
      /\ \A k \in 1 .. half : course[k] = d[<<course[k - 1], k>>]
  BY <1>7 DEF Courses
<1> DEFINE Ahead(k) == Len(course[k]) >= half \/ Len(course[k]) >= k + 1
           T == {k \in Nat : k <= half => Ahead(k)}
<1>9. ASSUME NEW k \in 1 .. half, Ahead(k - 1)
      PROVE  course[k] = body(course[k - 1], k) /\ Ahead(k)
  <2>1. course[k - 1] \in S /\ <<course[k - 1], k>> \in S \X (1 .. half)
    BY <1>2, <1>8
  <2>2. k \in 1 .. Len(course[k - 1])
    BY <1>2, <1>4, <1>9, <2>1
  <2>3. course[k] = body(course[k - 1], k)
    BY <1>8, <2>1, <2>2
  <2> HIDE DEF d
  <2> QED
    BY <1>5, <2>1, <2>2, <2>3
<1> HIDE DEF d
<1>10. \A k \in 0 .. half : Ahead(k)
  <2>1. 0 \in T
    <3>1. Len(course[0]) = 1
      BY <1>8 DEF first
    <3>2. Ahead(0)
      BY <3>1
    <3> HIDE DEF Ahead
    <3> QED
      BY <3>2
  <2>2. ASSUME NEW k \in Nat, k \in T
        PROVE  k + 1 \in T
    <3> SUFFICES ASSUME k + 1 <= half PROVE Ahead(k + 1)
      OBVIOUS
    <3>1. k + 1 \in 1 .. half /\ (k + 1) - 1 = k /\ k <= half
      BY <1>2
    <3>2. Ahead(k)
      BY <2>2, <3>1
    <3> HIDE DEF Ahead
    <3> QED
      BY <1>9, <3>1, <3>2
  <2>3. \A k \in Nat : k \in T
    <3> HIDE DEF T
    <3> QED
      BY <2>1, <2>2, NatSetInduction
  <2> HIDE DEF Ahead
  <2> QED
    BY <1>2, <2>3
<1>11. course = [k \in 0 .. half |-> IF k = 0 THEN first ELSE body(course[k - 1], k)]
  <2>1. ASSUME NEW k \in 1 .. half
        PROVE  course[k] = body(course[k - 1], k)
    <3>1. k - 1 \in 0 .. half
      BY <1>2
    <3> HIDE DEF Ahead
    <3> QED
      BY <1>9, <1>10, <3>1
  <2>2. \A k \in 0 .. half : course[k] = IF k = 0 THEN first ELSE body(course[k - 1], k)
    BY <1>2, <1>8, <2>1
  <2> QED
    BY <1>8, <2>2
<1>12. Reached = [k \in 0 .. half |-> IF k = 0 THEN first ELSE body(Reached[k - 1], k)]
  BY <1>11, Zenon
<1> HIDE DEF Reached
<1> DEFINE U == {k \in Nat : k <= half => Reached[k] = course[k]}
<1>13. \A k \in Nat : k \in U
  <2>1. 0 \in U
    BY <1>2, <1>8, <1>12
  <2>2. ASSUME NEW k \in Nat, k \in U
        PROVE  k + 1 \in U
    <3> SUFFICES ASSUME k + 1 <= half PROVE Reached[k + 1] = course[k + 1]
      OBVIOUS
    <3>1. k + 1 \in 0 .. half /\ k + 1 # 0 /\ (k + 1) - 1 = k /\ k <= half
      BY <1>2
    <3>2. Reached[k] = course[k]
      BY <2>2, <3>1
    <3>3. Reached[k + 1] = body(Reached[k], k + 1)
      BY <1>12, <3>1
    <3>4. course[k + 1] = body(course[k], k + 1)
      BY <1>11, <3>1
    <3> QED
      BY <3>2, <3>3, <3>4
  <2> HIDE DEF U
  <2> QED
    BY <2>1, <2>2, NatSetInduction
<1>14. Reached[half] = course[half] /\ course[half] \in S
  <2>1. half \in Nat /\ half <= half /\ half \in 0 .. half
    BY <1>2
  <2>2. half \in U
    BY <1>13, <2>1
  <2> QED
    BY <1>8, <2>1, <2>2
<1>15. Len(course[half]) = half
  <2>1. half \in 0 .. half
    BY <1>2
  <2>2. Ahead(half)
    <3> HIDE DEF Ahead
    <3> QED
      BY <1>10, <2>1
  <2> QED
    BY <1>2, <1>4, <1>14, <2>2
<1> QED
  BY <1>1, <1>14, <1>15 DEF S, half

-----------------------------------------------------------------------------
(***************************************************************************)
(* The invariant.                                                          *)
(***************************************************************************)

\* HillClimbing is running, or has just returned.
Climbing == pc \in {"start", "climb", "undo", "done"}

\* The variables of the seed loop.
Seeds ==
  /\ pc \in {"seed", "start", "climb", "undo", "done", "end"}
  /\ g \in Graphs
  /\ coarse = Clusters(g)
  /\ round \in 0 .. MaxRounds
  /\ Climbing => round < MaxRounds
  /\ seedexit \subseteq DOMAIN coarse
  /\ Modu \in Int /\ modularity \in Int /\ is_parted \in BOOLEAN
  /\ tried \in Seq([modu : Int, part : Partitions(g)])

\* Between two climbs the locals of HillClimbing hold nothing.
Between ==
  ~ Climbing =>
    /\ part = <<>> /\ start = <<>>
    /\ cutEdges = <<>> /\ cutNodes = <<>> /\ Node_Rank = <<>>
    /\ list = <<>> /\ heapLen = 0 /\ fixnum = 0 /\ renew = TRUE
    /\ zero = [e \in {} |-> 0]
    /\ hill = <<>> /\ maxModu = 0 /\ trail = <<>>

\* The hill is as high as moves were made.
Height ==
  /\ pc = "start" => fixnum = 0
  /\ pc = "climb" => Len(hill) = fixnum + 1
  /\ pc \in {"undo", "done"} => Len(hill) <= iDistance + 1

\* The climbs that ended above CRITICAL.
Good(t) == {k \in DOMAIN t : t[k].modu > CRITICAL}

\* Climb k of t is the first of the best.
FirstBest(t, k) ==
  /\ k \in Good(t)
  /\ \A m \in Good(t) : /\ t[m].modu <= t[k].modu
                        /\ t[m].modu = t[k].modu => k <= m

\* The best climb is kept at every moment, and the local modularity, which later
\* climbs are compared with, is that of the split kept.
BestSoFar ==
  /\ modularity = IF is_parted THEN Modu ELSE -10000 * Unit * Unit
  /\ is_parted <=> Good(tried) # {}
  /\ is_parted => \E k \in DOMAIN tried : /\ FirstBest(tried, k)
                                         /\ Modu = tried[k].modu /\ kept = tried[k].part

\* The inductive invariant of myPartition.
PInv == Seeds /\ Between /\ Height /\ BestSoFar /\ (Climbing => ClimbInv)

\* A graph that myPartition is called with has clusters, and all its vertices are
\* in them.
LEMMA GraphClusters ==
  ASSUME NEW h \in Graphs
  PROVE  /\ IsGraph(h) /\ Clusters(h) \in Clusterings(h)
         /\ Vertices(h) \subseteq Taken(Clusters(h))
<1>1. IsGraph(h) /\ Covered(h)
  BY GraphsAssumption, CoverAssumption DEF Covered
<1> QED
  BY <1>1, ClustersCluster

\* The invariant holds when myPartition is called.
LEMMA InitP == PInit => PInv
<1> SUFFICES ASSUME PInit PROVE PInv
  OBVIOUS
<1>1. ~ Climbing /\ tried = <<>> /\ DOMAIN tried = {}
  BY DEF PInit, Climbing
<1>2. tried \in Seq([modu : Int, part : Partitions(g)])
  BY <1>1, EmptySeq
<1> DEFINE floor == -10000 * Unit * Unit
<1>3. floor \in Int /\ modularity = floor /\ Modu = 0 /\ is_parted = FALSE
  BY UnitAssumption DEF PInit
<1> HIDE DEF floor
<1>4. Seeds
  <2>1. round \in 0 .. MaxRounds
    BY RoundsAssumption DEF PInit
  <2>2. Modu \in Int /\ modularity \in Int
    BY <1>3
  <2>3. is_parted \in BOOLEAN
    BY <1>3
  <2> QED
    BY <1>1, <1>2, <2>1, <2>2, <2>3 DEF PInit, Seeds
<1>5. Between /\ Height
  BY DEF PInit, Between, Height
<1>6. BestSoFar
  BY <1>1, <1>3 DEF BestSoFar, Good, floor
<1> QED
  BY <1>1, <1>4, <1>5, <1>6 DEF PInv

\* A step that leaves the variables of HillClimbing alone between two climbs, and
\* of the others only round, seedexit and seedmap not, keeps the invariant.
LEMMA DrawP ==
  ASSUME PInv, UNCHANGED <<vars, coarse, modularity, Modu, is_parted, kept, tried>>,
         pc = "seed", round' \in 0 .. MaxRounds, seedexit' \subseteq DOMAIN coarse
  PROVE  PInv'
<1>1. /\ pc' = pc /\ g' = g /\ part' = part /\ start' = start /\ cutEdges' = cutEdges
      /\ cutNodes' = cutNodes /\ Node_Rank' = Node_Rank /\ list' = list /\ heapLen' = heapLen
      /\ fixnum' = fixnum /\ renew' = renew /\ zero' = zero /\ hill' = hill
      /\ maxModu' = maxModu /\ trail' = trail
      /\ coarse' = coarse /\ modularity' = modularity /\ Modu' = Modu
      /\ is_parted' = is_parted /\ kept' = kept /\ tried' = tried
  BY DEF vars, cuts
<1>2. ~ Climbing /\ ~ Climbing'
  BY <1>1 DEF Climbing
<1>3. Seeds'
  BY <1>1, <1>2 DEF PInv, Seeds
<1>4. Between' /\ Height'
  BY <1>1, <1>2 DEF PInv, Between, Height
<1>5. BestSoFar'
  BY <1>1 DEF PInv, BestSoFar
<1> QED
  BY <1>2, <1>3, <1>4, <1>5 DEF PInv

\* A new seed starts a climb the way HillClimb's initial states say.
LEMMA TrySeedP ==
  ASSUME PInv, NEW seed \in DOMAIN coarse, TrySeed(seed)
  PROVE  PInv'
<1>1. /\ pc = "seed" /\ pc' = "start" /\ round < MaxRounds
      /\ seedexit' = seedexit \cup {seed}
      /\ part' \in Subpartition(g, coarse[seed][1]) /\ start' = part'
      /\ g' = g /\ cutEdges' = cutEdges
      /\ cutNodes' = cutNodes /\ Node_Rank' = Node_Rank /\ list' = list /\ heapLen' = heapLen
      /\ fixnum' = fixnum /\ renew' = renew /\ zero' = zero /\ hill' = hill
      /\ maxModu' = maxModu /\ trail' = trail
      /\ coarse' = coarse /\ round' = round /\ modularity' = modularity /\ Modu' = Modu
      /\ is_parted' = is_parted /\ kept' = kept /\ tried' = tried
  BY DEF TrySeed, Draws, cuts
<1>2. ~ Climbing /\ Climbing'
  BY <1>1 DEF Climbing
<1>3. Seeds'
  BY <1>1, <1>2 DEF PInv, Seeds
<1>4. /\ cutEdges = <<>> /\ cutNodes = <<>> /\ Node_Rank = <<>>
      /\ list = <<>> /\ heapLen = 0 /\ fixnum = 0 /\ renew = TRUE
      /\ zero = [e \in {} |-> 0]
      /\ hill = <<>> /\ maxModu = 0 /\ trail = <<>>
  BY <1>2 DEF PInv, Between
<1>5. Between' /\ Height'
  BY <1>1, <1>2, <1>4 DEF Between, Height
<1>6. BestSoFar'
  BY <1>1 DEF PInv, BestSoFar
<1>7. Init'
  <2>1. g \in Graphs /\ coarse[seed] \in Range(Clusters(g))
    BY DEF PInv, Seeds, Range
  <2>2. \E s \in Range(Clusters(g')) : part' \in Subpartition(g', s[1])
    BY <1>1, <2>1
  <2> QED
    BY <1>1, <1>4, <2>1, <2>2 DEF Init
<1>8. (Init => ClimbInv)'
  BY InitClimb, PTL
<1> QED
  BY <1>2, <1>3, <1>5, <1>6, <1>7, <1>8 DEF PInv

\* The hill after a step of HillClimbing.
LEMMA HeightStep ==
  ASSUME ClimbInv, Height, Start \/ Climb \/ LastAlone \/ EndClimb \/ Undo
  PROVE  Height'
<1>1. fixnum \in 0 .. iDistance /\ iDistance \in Nat /\ Len(hill) \in Nat
  BY DistanceAssumption, LenProperties DEF ClimbInv, TypeOK
<1>2. CASE Start
  <2>1. pc = "start" /\ pc' = "climb" /\ fixnum' = fixnum
    BY <1>2 DEF Start
  <2>2. Len(hill') = 1
    BY <1>2 DEF Start
  <2> QED
    BY <1>1, <2>1, <2>2 DEF Height
<1>3. CASE Climb
  <2>1. /\ pc = "climb" /\ pc' = "climb" /\ fixnum' = fixnum + 1
        /\ \E x : hill' = Append(hill, x)
    BY <1>3 DEF Climb
  <2>2. PICK x : hill' = Append(hill, x)
    BY <2>1
  <2>3. Len(hill') = Len(hill) + 1
    <3> DEFINE H == [curModu : Int, node : Vertices(g) \cup {-1}]
    <3>1. hill \in Seq(H \cup {x})
      <4>1. hill \in Seq(H)
        BY DEF ClimbInv, TypeOK
      <4> HIDE DEF H
      <4> QED
        BY <4>1
    <3> HIDE DEF H
    <3> QED
      BY <2>2, <3>1, AppendProperties
  <2> QED
    BY <1>1, <2>1, <2>3 DEF Height
<1>4. CASE LastAlone
  <2>1. pc = "climb" /\ pc' = "undo" /\ fixnum < iDistance /\ hill' = hill
    BY <1>4 DEF LastAlone
  <2> QED
    BY <1>1, <2>1 DEF Height
<1>5. CASE EndClimb
  <2>1. pc = "climb" /\ pc' = "undo" /\ hill' = hill
    BY <1>5 DEF EndClimb
  <2> QED
    BY <1>1, <2>1 DEF Height
<1>6. CASE Undo
  <2>1. pc = "undo" /\ pc' \in {"undo", "done"} /\ hill' = Front(hill)
    BY <1>6 DEF Undo
  <2>2. hill # <<>>
    BY <2>1 DEF ClimbInv, StackUndoes
  <2>3. Len(hill') = Len(hill) - 1 /\ Len(hill) >= 1
    <3> DEFINE H == [curModu : Int, node : Vertices(g) \cup {-1}]
    <3>1. hill \in Seq(H)
      BY DEF ClimbInv, TypeOK
    <3> HIDE DEF H
    <3> QED
      BY <2>1, <2>2, <3>1, FrontFacts
  <2> QED
    BY <1>1, <2>1, <2>3 DEF Height
<1> QED
  BY <1>2, <1>3, <1>4, <1>5, <1>6

\* A step of HillClimbing keeps the invariant: that is the invariant of a climb.
LEMMA RefineP ==
  ASSUME PInv, Refine
  PROVE  PInv'
<1>1. Start \/ Climb \/ LastAlone \/ EndClimb \/ Undo
  BY DEF Refine
<1>2. /\ coarse' = coarse /\ round' = round /\ seedexit' = seedexit /\ modularity' = modularity
      /\ Modu' = Modu /\ is_parted' = is_parted /\ kept' = kept /\ tried' = tried
  BY DEF Refine, seeding
<1>3. Climbing /\ Climbing' /\ g' = g
  BY <1>1 DEF Start, Climb, LastAlone, EndClimb, Undo, Climbing
<1>4. ClimbInv
  BY <1>3 DEF PInv
<1>5. ClimbInv'
  BY <1>1, <1>4, StartClimb, ClimbClimbs, LastAloneClimb, EndClimbClimb, UndoClimb
<1>6. Seeds'
  <2>1. pc' \in {"seed", "start", "climb", "undo", "done", "end"}
    BY <1>3 DEF Climbing
  <2> QED
    BY <1>2, <1>3, <2>1 DEF PInv, Seeds
<1>7. Between'
  BY <1>3 DEF Between
<1>8. Height'
  BY <1>1, <1>4, HeightStep DEF PInv
<1>9. BestSoFar'
  BY <1>2 DEF PInv, BestSoFar
<1> QED
  BY <1>3, <1>5, <1>6, <1>7, <1>8, <1>9 DEF PInv

\* A climb that ends is compared with the best so far.
LEMMA KeepP ==
  ASSUME PInv, Keep
  PROVE  PInv'
<1> DEFINE R == [modu : Int, part : Partitions(g)]
           r == [modu |-> maxModu, part |-> part]
           n == Len(tried)
           floor == -10000 * Unit * Unit
<1>1. /\ pc = "done" /\ pc' = "seed" /\ tried' = Append(tried, r) /\ round' = round + 1
      /\ g' = g /\ coarse' = coarse /\ seedexit' = seedexit
      /\ LeaveClimb
  BY DEF Keep
<1>2. /\ BetterSplit => Modu' = maxModu /\ is_parted' = TRUE /\ modularity' = maxModu /\ kept' = part
      /\ ~ BetterSplit => /\ Modu' = Modu /\ is_parted' = is_parted
                          /\ modularity' = modularity /\ kept' = kept
  BY DEF Keep
<1>3. Climbing /\ ~ Climbing'
  BY <1>1 DEF Climbing
<1>4. maxModu \in Int /\ part \in Partitions(g) /\ r \in R
  BY <1>3 DEF PInv, ClimbInv, TypeOK, Partitions
<1>5. tried \in Seq(R) /\ n \in Nat /\ DOMAIN tried = 1 .. n
  BY LenProperties DEF PInv, Seeds
<1>6. tried' \in Seq(R) /\ DOMAIN tried' = 1 .. n + 1
  BY <1>1, <1>4, <1>5, AppendProperties, LenProperties
<1>7. (\A k \in 1 .. n : tried'[k] = tried[k]) /\ tried'[n + 1] = r
  BY <1>1, <1>4, <1>5, AppendProperties
<1>8. Seeds'
  <2>1. round' \in 0 .. MaxRounds
    BY <1>1, <1>3, RoundsAssumption DEF PInv, Seeds
  <2>2. Modu' \in Int /\ modularity' \in Int /\ is_parted' \in BOOLEAN
    BY <1>2, <1>4 DEF PInv, Seeds
  <2> QED
    BY <1>1, <1>3, <1>6, <2>1, <2>2 DEF PInv, Seeds
<1>9. Between' /\ Height'
  BY <1>1 DEF LeaveClimb, Between, Height
<1>10. BestSoFar'
  <2>1. /\ floor \in Int /\ CRITICAL \in Int /\ CRITICAL >= floor
        /\ modularity = IF is_parted THEN Modu ELSE floor
        /\ is_parted <=> Good(tried) # {}
        /\ is_parted \in BOOLEAN /\ Modu \in Int
    BY CriticalAssumption, UnitAssumption DEF PInv, BestSoFar, Seeds
  <2>2. \A k \in 1 .. n : tried[k].modu \in Int
    <3>1. \A k \in 1 .. n : tried[k] \in R
      BY <1>5, ElementOfSeq
    <3> QED
      BY <3>1
  <2>3. r.modu = maxModu /\ r.part = part
    OBVIOUS
  <2> HIDE DEF R, r, n, floor
  <2>4. \A k \in 1 .. n + 1 : k \in 1 .. n \/ k = n + 1
    BY <1>5
  <2>5. Good(tried) \subseteq 1 .. n
    BY <1>5 DEF Good
  <2>6. Good(tried') = Good(tried) \cup (IF maxModu > CRITICAL THEN {n + 1} ELSE {})
    <3>1. \A k \in 1 .. n : k \in Good(tried') <=> k \in Good(tried)
      BY <1>5, <1>6, <1>7 DEF Good
    <3>2. n + 1 \in Good(tried') <=> maxModu > CRITICAL
      BY <1>5, <1>6, <1>7, <2>3 DEF Good
    <3>3. Good(tried') \subseteq 1 .. n + 1
      BY <1>6 DEF Good
    <3> QED
      BY <1>5, <2>4, <2>5, <3>1, <3>2, <3>3
  <2>7. CASE BetterSplit
    <3>1. maxModu > modularity /\ maxModu > CRITICAL
      BY <2>7 DEF BetterSplit
    <3>2. n + 1 \in Good(tried') /\ n + 1 \in DOMAIN tried' /\ tried'[n + 1].modu = maxModu
      BY <1>5, <1>6, <1>7, <2>3, <2>6, <3>1
    <3>3. ASSUME NEW m \in Good(tried'), m # n + 1
          PROVE  tried'[m].modu < maxModu
      <4>1. m \in Good(tried) /\ m \in 1 .. n
        BY <2>5, <2>6, <3>1, <3>3
      <4>2. is_parted /\ modularity = Modu
        BY <2>1, <4>1
      <4>3. PICK k \in DOMAIN tried : FirstBest(tried, k) /\ Modu = tried[k].modu
        BY <4>2 DEF PInv, BestSoFar
      <4>4. tried[m].modu <= Modu
        BY <4>1, <4>3 DEF FirstBest
      <4> QED
        BY <1>4, <1>7, <2>1, <2>2, <3>1, <4>1, <4>2, <4>4
    <3>4. FirstBest(tried', n + 1)
      <4>1. \A m \in Good(tried') : /\ tried'[m].modu <= tried'[n + 1].modu
                                    /\ tried'[m].modu = tried'[n + 1].modu => m = n + 1
        <5> SUFFICES ASSUME NEW m \in Good(tried')
                     PROVE  /\ tried'[m].modu <= tried'[n + 1].modu
                            /\ tried'[m].modu = tried'[n + 1].modu => m = n + 1
          OBVIOUS
        <5>1. CASE m = n + 1
          BY <1>4, <3>2, <5>1
        <5>2. CASE m # n + 1
          <6>1. m \in 1 .. n /\ tried'[m].modu \in Int
            BY <1>7, <2>2, <2>5, <2>6, <3>1, <5>2
          <6> QED
            BY <1>4, <3>2, <3>3, <5>2, <6>1
        <5> QED
          BY <5>1, <5>2
      <4>2. \A m \in Good(tried') : tried'[m].modu = tried'[n + 1].modu => n + 1 <= m
        BY <1>5, <4>1
      <4> QED
        BY <3>2, <4>1, <4>2 DEF FirstBest
    <3>5. is_parted' /\ modularity' = Modu' /\ Modu' = tried'[n + 1].modu /\ kept' = tried'[n + 1].part
      BY <1>2, <1>7, <2>3, <2>7
    <3>6. Good(tried') # {}
      BY <3>2
    <3> QED
      BY <3>2, <3>4, <3>5, <3>6 DEF BestSoFar
  <2>8. CASE ~ BetterSplit
    <3>1. ~ (maxModu > modularity) \/ ~ (maxModu > CRITICAL)
      BY <2>8 DEF BetterSplit
    <3>2. maxModu > CRITICAL => is_parted /\ maxModu <= Modu
      BY <1>4, <2>1, <3>1
    <3>3. is_parted' = is_parted /\ Modu' = Modu /\ modularity' = modularity /\ kept' = kept
      BY <1>2, <2>8
    <3>4. is_parted' <=> Good(tried') # {}
      <4>1. CASE maxModu > CRITICAL
        BY <2>6, <3>2, <3>3, <4>1
      <4>2. CASE ~ (maxModu > CRITICAL)
        BY <2>1, <2>6, <3>3, <4>2
      <4> QED
        BY <4>1, <4>2
    <3>5. ASSUME is_parted'
          PROVE  \E k \in DOMAIN tried' : /\ FirstBest(tried', k)
                                          /\ Modu' = tried'[k].modu /\ kept' = tried'[k].part
      <4>1. PICK k \in DOMAIN tried : /\ FirstBest(tried, k)
                                      /\ Modu = tried[k].modu /\ kept = tried[k].part
        BY <3>3, <3>5 DEF PInv, BestSoFar
      <4>2. k \in 1 .. n /\ tried'[k] = tried[k] /\ k \in DOMAIN tried' /\ k \in Good(tried)
        BY <1>5, <1>6, <1>7, <4>1 DEF FirstBest
      <4>3. k \in Good(tried')
        BY <2>6, <4>2
      <4>4. ASSUME NEW m \in Good(tried')
            PROVE  /\ tried'[m].modu <= tried'[k].modu
                   /\ tried'[m].modu = tried'[k].modu => k <= m
        <5>1. CASE m \in Good(tried)
          BY <1>7, <2>5, <4>1, <4>2, <5>1 DEF FirstBest
        <5>2. CASE m \notin Good(tried)
          <6>1. m = n + 1 /\ maxModu > CRITICAL
            BY <2>6, <5>2
          <6>2. tried'[m].modu = maxModu /\ maxModu <= Modu
            BY <1>7, <2>3, <3>2, <6>1
          <6> QED
            BY <1>5, <4>1, <4>2, <6>1, <6>2
        <5> QED
          BY <5>1, <5>2
      <4>5. FirstBest(tried', k)
        BY <4>3, <4>4 DEF FirstBest
      <4> QED
        BY <3>3, <4>1, <4>2, <4>5
    <3>6. modularity' = IF is_parted' THEN Modu' ELSE floor
      BY <2>1, <3>3
    <3> QED
      BY <3>4, <3>5, <3>6 DEF BestSoFar, floor
  <2> QED
    BY <2>7, <2>8
<1> QED
  BY <1>3, <1>8, <1>9, <1>10 DEF PInv

\* The end of the seed loop keeps the invariant.
LEMMA FinishP ==
  ASSUME PInv, Finish
  PROVE  PInv'
<1>1. /\ pc = "seed" /\ pc' = "end" /\ g' = g /\ part' = part /\ start' = start
      /\ cutEdges' = cutEdges
      /\ cutNodes' = cutNodes /\ Node_Rank' = Node_Rank /\ list' = list /\ heapLen' = heapLen
      /\ fixnum' = fixnum /\ renew' = renew /\ zero' = zero /\ hill' = hill
      /\ maxModu' = maxModu /\ trail' = trail
      /\ coarse' = coarse /\ round' = round /\ seedexit' = seedexit /\ modularity' = modularity
      /\ Modu' = Modu /\ is_parted' = is_parted /\ kept' = kept /\ tried' = tried
  BY DEF Finish, cuts, seeding
<1>2. ~ Climbing /\ ~ Climbing'
  BY <1>1 DEF Climbing
<1>3. Seeds'
  BY <1>1, <1>2 DEF PInv, Seeds
<1>4. Between' /\ Height'
  BY <1>1, <1>2 DEF PInv, Between, Height
<1>5. BestSoFar'
  BY <1>1 DEF PInv, BestSoFar
<1> QED
  BY <1>2, <1>3, <1>4, <1>5 DEF PInv

\* Nothing changes: the invariant stays.
LEMMA StutterP ==
  ASSUME PInv, UNCHANGED pvars
  PROVE  PInv'
<1>1. UNCHANGED vars /\ UNCHANGED seeding
  BY DEF pvars
<1>2. /\ pc' = pc /\ g' = g /\ part' = part /\ start' = start /\ cutEdges' = cutEdges
      /\ cutNodes' = cutNodes /\ Node_Rank' = Node_Rank /\ list' = list /\ heapLen' = heapLen
      /\ fixnum' = fixnum /\ renew' = renew /\ zero' = zero /\ hill' = hill
      /\ maxModu' = maxModu /\ trail' = trail
  BY <1>1 DEF vars, cuts
<1>3. /\ coarse' = coarse /\ round' = round /\ seedexit' = seedexit /\ modularity' = modularity
      /\ Modu' = Modu /\ is_parted' = is_parted /\ kept' = kept /\ tried' = tried
  BY <1>1 DEF seeding
<1>4. Seeds' /\ (Climbing' <=> Climbing)
  BY <1>2, <1>3 DEF PInv, Seeds, Climbing
<1>5. Between' /\ Height'
  BY <1>2, <1>4 DEF PInv, Between, Height
<1>6. BestSoFar'
  BY <1>3 DEF PInv, BestSoFar
<1>7. Climbing => ClimbInv'
  BY <1>1, StutterClimb DEF PInv
<1> QED
  BY <1>4, <1>5, <1>6, <1>7 DEF PInv

\* Every step of myPartition keeps the invariant.
LEMMA NextP == PInv /\ [PNext]_pvars => PInv'
<1> SUFFICES ASSUME PInv, [PNext]_pvars PROVE PInv'
  OBVIOUS
<1>1. CASE \E seed \in DOMAIN coarse : DrawAgain(seed)
  <2>1. /\ pc = "seed" /\ round' = round + 1 /\ round < MaxRounds /\ seedexit' = seedexit
        /\ UNCHANGED <<vars, coarse, modularity, Modu, is_parted, kept, tried>>
    BY <1>1 DEF DrawAgain, Draws
  <2>2. round' \in 0 .. MaxRounds /\ seedexit' \subseteq DOMAIN coarse
    BY <2>1, RoundsAssumption DEF PInv, Seeds
  <2> QED
    BY <2>1, <2>2, DrawP
<1>2. CASE \E seed \in DOMAIN coarse : DrawMarked(seed)
  <2>1. PICK seed \in DOMAIN coarse : DrawMarked(seed)
    BY <1>2
  <2>2. /\ pc = "seed" /\ round' = round /\ seedexit' = seedexit \cup {seed}
        /\ UNCHANGED <<vars, coarse, modularity, Modu, is_parted, kept, tried>>
    BY <2>1 DEF DrawMarked, Draws
  <2>3. round' \in 0 .. MaxRounds /\ seedexit' \subseteq DOMAIN coarse
    BY <2>2, RoundsAssumption DEF PInv, Seeds
  <2> QED
    BY <2>2, <2>3, DrawP
<1>3. CASE \E seed \in DOMAIN coarse : TrySeed(seed)
  BY <1>3, TrySeedP
<1>4. CASE Refine
  BY <1>4, RefineP
<1>5. CASE Keep
  BY <1>5, KeepP
<1>6. CASE Finish
  BY <1>6, FinishP
<1>7. CASE End \/ UNCHANGED pvars
  BY <1>7, StutterP DEF End
<1> QED
  BY <1>1, <1>2, <1>3, <1>4, <1>5, <1>6, <1>7 DEF PNext

\* The invariant holds at every moment of myPartition.
THEOREM PartitionInvariance == PSpec => []PInv
<1> QED
  BY InitP, NextP, PTL DEF PSpec

\* Between climbs, p->Modu and p->part are those of the best climb so far, the
\* first among equals, and the graph counts as parted exactly when some climb
\* ended above CRITICAL.
THEOREM BestIsKept == PSpec => []BestKept
<1>1. PInv => BestKept
  BY DEF PInv, BestSoFar, BestKept, FirstBest, Good
<1> QED
  BY <1>1, PartitionInvariance, PTL

\* coarseningGraph: every vertex is in exactly one cluster, no cluster is empty,
\* and the vertices of a cluster are different and share an edge.
THEOREM ClustersCorrect == PSpec => []ClustersPartition
<1>1. PInv => ClustersPartition
  <2> SUFFICES ASSUME PInv
               PROVE  /\ \A v \in Vertices(g) :
                           Cardinality({c \in DOMAIN coarse : v \in ToSet(coarse[c])}) = 1
                      /\ \A c \in DOMAIN coarse :
                           /\ coarse[c] # <<>>
                           /\ Len(coarse[c]) = Cardinality(ToSet(coarse[c]))
                           /\ \E e \in Edges(g) : ToSet(coarse[c]) \subseteq ToSet(g.eind[e])
    BY DEF ClustersPartition
  <2>1. coarse \in Clusterings(g) /\ Vertices(g) \subseteq Taken(coarse)
    BY GraphClusters DEF PInv, Seeds
  <2>2. coarse \in Seq(Seq(Vertices(g)))
    BY <2>1 DEF Clusterings
  <2>3. DOMAIN coarse = 1 .. Len(coarse) /\ \A c \in DOMAIN coarse : coarse[c] \in Seq(Vertices(g))
    BY <2>2, LenProperties
  <2>4. ASSUME NEW v \in Vertices(g)
        PROVE  Cardinality({c \in DOMAIN coarse : v \in ToSet(coarse[c])}) = 1
    <3>1. PICK c \in DOMAIN coarse : v \in ToSet(coarse[c])
      BY <2>1 DEF Taken
    <3>2. {d \in DOMAIN coarse : v \in ToSet(coarse[d])} = {c}
      BY <2>1, <2>3, <3>1 DEF Clusterings
    <3> QED
      BY <3>2, FS_Singleton
  <2>5. ASSUME NEW c \in DOMAIN coarse
        PROVE  Len(coarse[c]) = Cardinality(ToSet(coarse[c]))
    <3>1. coarse[c] \in Lists(Vertices(g))
      BY <2>1, <2>3 DEF Clusterings, Lists
    <3> QED
      BY <3>1, ListCardinality
  <2>6. \A c \in DOMAIN coarse :
          coarse[c] # <<>> /\ \E e \in Edges(g) : ToSet(coarse[c]) \subseteq ToSet(g.eind[e])
    BY <2>1, <2>3 DEF Clusterings
  <2> QED
    BY <2>4, <2>5, <2>6
<1> QED
  BY <1>1, PartitionInvariance, PTL

\* The partition a climb starts from was grown from a seed drawn.
Grown ==
  pc = "start" => \E seed \in seedexit : part \in Subpartition(g, coarse[seed][1])

\* No step of a climb or of the seed loop other than TrySeed enters a climb.
LEMMA GrownStep ==
  ASSUME Grown, [PNext]_pvars
  PROVE  Grown'
<1>1. CASE \E seed \in DOMAIN coarse : DrawAgain(seed) \/ DrawMarked(seed)
  <2>1. pc' = "seed"
    BY <1>1 DEF DrawAgain, DrawMarked, Draws, vars
  <2> QED
    BY <2>1 DEF Grown
<1>2. CASE \E seed \in DOMAIN coarse : TrySeed(seed)
  <2>1. PICK seed \in DOMAIN coarse : TrySeed(seed)
    BY <1>2
  <2>2. /\ seedexit' = seedexit \cup {seed} /\ g' = g /\ coarse' = coarse
        /\ part' \in Subpartition(g, coarse[seed][1])
    BY <2>1 DEF TrySeed
  <2>3. seed \in seedexit' /\ part' \in Subpartition(g', coarse'[seed][1])
    BY <2>2
  <2> QED
    BY <2>3 DEF Grown
<1>3. CASE Refine \/ Keep \/ Finish
  <2>1. pc' # "start"
    BY <1>3 DEF Refine, Start, Climb, LastAlone, EndClimb, Undo, Keep, Finish
  <2> QED
    BY <2>1 DEF Grown
<1>4. CASE End \/ UNCHANGED pvars
  <2>1. pc' = pc /\ g' = g /\ part' = part /\ seedexit' = seedexit /\ coarse' = coarse
    BY <1>4 DEF End, pvars, vars, seeding
  <2> QED
    BY <2>1 DEF Grown
<1> QED
  BY <1>1, <1>2, <1>3, <1>4 DEF PNext

\* subpartition: from every seed the search stops with exactly half of the
\* vertices, rounded down, the seed among them, whatever the array held.
THEOREM StartsFromHalf == PSpec => []GrowsToHalf
<1>1. PInit => Grown
  BY DEF PInit, Grown
<1>2. Grown /\ [PNext]_pvars => Grown'
  BY GrownStep
<1>3. PInv /\ Grown => GrowsToHalf
  <2> SUFFICES ASSUME PInv, NEW seed \in seedexit, part \in Subpartition(g, coarse[seed][1])
               PROVE  LET grown == Grow(g, coarse[seed][1])
                      IN  /\ Cardinality(ToSet(grown)) = Len(grown)
                          /\ 2 * Len(grown) \in {g.n - 1, g.n}
                          /\ part[coarse[seed][1]] = 0
                          /\ \A v \in ToSet(grown) : part[v] = 0
    BY DEF Grown, GrowsToHalf
  <2> DEFINE first == coarse[seed][1]
             grown == Grow(g, first)
             V == Vertices(g)
  <2>1. g \in Graphs /\ coarse \in Clusterings(g) /\ seed \in DOMAIN coarse
    BY GraphClusters DEF PInv, Seeds
  <2>2. IsGraph(g) /\ g.n > 1 /\ g.n \in Nat
    BY <2>1, GraphsAssumption, SizeAssumption DEF IsGraph
  <2>3. first \in V
    <3>1. coarse \in Seq(Seq(V)) /\ DOMAIN coarse = 1 .. Len(coarse)
      BY <2>1, LenProperties DEF Clusterings
    <3>2. coarse[seed] \in Seq(V) /\ coarse[seed] # <<>>
      BY <2>1, <3>1, LenProperties DEF Clusterings
    <3> QED
      BY <3>2, EmptySeq, LenProperties
  <2>4. grown \in Finds(g, first) /\ Len(grown) = g.n \div 2
    BY <2>2, <2>3, GrowHalf
  <2>5. part = part /\ \A v \in V : v \in ToSet(grown) => part[v] = 0
    BY DEF Subpartition
  <2> HIDE DEF grown, first
  <2>6. grown \in Lists(V) /\ grown[1] = first /\ Len(grown) >= 1 /\ Len(grown) \in Nat
    BY <2>4, LenProperties DEF Finds, Lists
  <2>7. DOMAIN grown = 1 .. Len(grown) /\ ToSet(grown) \subseteq V /\ first \in ToSet(grown)
    <3>1. grown \in Seq(V)
      BY <2>6 DEF Lists
    <3>2. DOMAIN grown = 1 .. Len(grown) /\ \A i \in DOMAIN grown : grown[i] \in V
      BY <3>1, LenProperties
    <3>3. 1 \in DOMAIN grown
      BY <2>6, <3>2
    <3> QED
      BY <2>6, <3>2, <3>3 DEF ToSet
  <2>8. 2 * Len(grown) \in {g.n - 1, g.n}
    BY <2>2, <2>4
  <2>9. Cardinality(ToSet(grown)) = Len(grown)
    BY <2>6, ListCardinality
  <2> QED
    BY <2>5, <2>7, <2>8, <2>9 DEF grown, first
<1> QED
  BY <1>1, <1>2, <1>3, PartitionInvariance, PTL DEF PSpec

\* Turns weigh w each: with one turn less, or as many and less of a climb, less
\* is left.
LEMMA WeightLess ==
  ASSUME NEW t \in Nat, NEW c \in Nat, NEW u \in Nat, NEW d \in Nat, NEW w \in Nat,
         (u = t /\ d < c) \/ (u = t - 1 /\ d < c + w)
  PROVE  0 <= u * w + d /\ u * w + d < t * w + c
<1>1. t * w \in Nat /\ u * w \in Nat /\ (t - 1) * w = t * w - w
  OBVIOUS
<1>2. CASE u = t /\ d < c
  BY <1>1, <1>2
<1>3. CASE u = t - 1 /\ d < c + w
  <2> DEFINE tw == t * w
             uw == u * w
  <2>1. uw = tw - w /\ tw \in Nat /\ uw \in Nat
    BY <1>1, <1>3
  <2> HIDE DEF tw, uw
  <2>2. 0 <= uw + d /\ uw + d < tw + c
    BY <1>3, <2>1
  <2> QED
    BY <2>2 DEF tw, uw
<1> QED
  BY <1>2, <1>3

\* What is left of the rounds and the seeds.
Turns == (MaxRounds - round) + (Len(coarse) - Cardinality(seedexit))

\* The seeds drawn are at most the coarse vertices, so turns do not run below 0.
LEMMA TurnsLeft ==
  ASSUME PInv
  PROVE  /\ IsFiniteSet(seedexit) /\ Len(coarse) \in Nat /\ Cardinality(seedexit) \in Nat
         /\ MaxRounds \in Nat /\ round \in Nat
         /\ Cardinality(seedexit) <= Len(coarse) /\ Turns \in Nat /\ Turns >= MaxRounds - round
<1>1. coarse \in Seq(Seq(Vertices(g)))
  BY GraphClusters DEF PInv, Seeds, Clusterings
<1>2. Len(coarse) \in Nat /\ DOMAIN coarse = 1 .. Len(coarse)
  BY <1>1, LenProperties
<1> DEFINE L == Len(coarse)
           D == 1 .. L
<1> HIDE DEF L
<1>3. IsFiniteSet(D) /\ Cardinality(D) = L
  <2>1. L \in Nat
    BY <1>2 DEF L
  <2>2. IsFiniteSet(D) /\ Cardinality(D) = IF 1 > L THEN 0 ELSE L - 1 + 1
    BY <2>1, FS_Interval
  <2> QED
    BY <2>1, <2>2
<1>4. seedexit \in SUBSET D
  BY <1>2 DEF PInv, Seeds, L
<1> HIDE DEF D
<1>5. IsFiniteSet(seedexit) /\ Cardinality(seedexit) <= L
  BY <1>3, <1>4, FS_Subset
<1>6. Cardinality(seedexit) \in Nat
  BY <1>5, FS_CardinalityType
<1>7. MaxRounds \in Nat /\ round \in 0 .. MaxRounds
  BY RoundsAssumption DEF PInv, Seeds
<1> QED
  BY <1>2, <1>5, <1>6, <1>7 DEF Turns, L

\* What is left of a climb is worth less than a turn.
LEMMA ClimbLeftBounds ==
  ASSUME PInv
  PROVE  ClimbLeft \in Nat
<1>1. iDistance \in Nat /\ pc \in {"seed", "start", "climb", "undo", "done", "end"}
  BY DistanceAssumption DEF PInv, Seeds
<1>2. CASE Climbing
  <2>1. fixnum \in 0 .. iDistance /\ Len(hill) \in Nat
    BY <1>2, LenProperties DEF PInv, ClimbInv, TypeOK
  <2>2. CASE pc = "start"
    BY <1>1, <2>2 DEF ClimbLeft
  <2>3. CASE pc = "climb"
    <3>1. ClimbLeft = 2 * iDistance + 4 - fixnum
      BY <2>3 DEF ClimbLeft
    <3> QED
      BY <1>1, <2>1, <3>1
  <2>4. CASE pc \in {"undo", "done"}
    <3>1. ClimbLeft = Len(hill) + 1
      BY <2>4 DEF ClimbLeft
    <3> QED
      BY <2>1, <3>1
  <2> QED
    BY <1>2, <2>2, <2>3, <2>4 DEF Climbing
<1>3. CASE pc \in {"seed", "end"}
  BY <1>3 DEF ClimbLeft
<1> QED
  BY <1>1, <1>2, <1>3 DEF Climbing

\* Both measures are natural numbers at every moment.
LEMMA MeasuresNat == PInv => Turns \in Nat /\ ClimbLeft \in Nat
BY TurnsLeft, ClimbLeftBounds

\* A step of HillClimbing leaves less of the climb.
LEMMA RefineLess ==
  ASSUME PInv, Refine
  PROVE  ClimbLeft' < ClimbLeft /\ Turns' = Turns
<1>1. Start \/ Climb \/ LastAlone \/ EndClimb \/ Undo
  BY DEF Refine
<1>2. Turns' = Turns
  BY DEF Refine, seeding, Turns
<1>3. Climbing /\ Climbing' /\ iDistance' = iDistance
  BY <1>1 DEF Start, Climb, LastAlone, EndClimb, Undo, Climbing
<1>4. ClimbInv /\ Height
  BY <1>3 DEF PInv
<1>5. PInv'
  BY RefineP
<1>6. fixnum \in 0 .. iDistance /\ iDistance \in Nat /\ Len(hill) \in Nat /\ Len(hill') \in Nat
  <2>1. ClimbInv'
    BY <1>3, <1>5 DEF PInv
  <2> QED
    BY <1>4, <2>1, DistanceAssumption, LenProperties DEF ClimbInv, TypeOK
<1>7. CASE Start
  <2>1. pc = "start" /\ pc' = "climb" /\ fixnum' = fixnum
    BY <1>7 DEF Start
  <2>2. ClimbLeft = 2 * iDistance + 5 /\ ClimbLeft' = 2 * iDistance + 4 - fixnum
    BY <2>1 DEF ClimbLeft
  <2> QED
    BY <1>2, <1>6, <2>2
<1>8. CASE Climb
  <2>1. pc = "climb" /\ pc' = "climb" /\ fixnum' = fixnum + 1
    BY <1>8 DEF Climb
  <2>2. ClimbLeft = 2 * iDistance + 4 - fixnum /\ ClimbLeft' = 2 * iDistance + 4 - (fixnum + 1)
    BY <2>1 DEF ClimbLeft
  <2> QED
    BY <1>2, <1>6, <2>2
<1>9. CASE LastAlone \/ EndClimb
  <2>1. pc = "climb" /\ pc' = "undo" /\ hill' = hill
    BY <1>9 DEF LastAlone, EndClimb
  <2>2. ClimbLeft = 2 * iDistance + 4 - fixnum /\ ClimbLeft' = Len(hill) + 1
    BY <2>1 DEF ClimbLeft
  <2>3. Len(hill) = fixnum + 1
    BY <1>4, <2>1 DEF Height
  <2> QED
    BY <1>2, <1>6, <2>2, <2>3
<1>10. CASE Undo
  <2>1. pc = "undo" /\ pc' \in {"undo", "done"} /\ hill' = Front(hill)
    BY <1>10 DEF Undo
  <2>2. ClimbLeft = Len(hill) + 1 /\ ClimbLeft' = Len(hill') + 1
    BY <2>1 DEF ClimbLeft
  <2>3. Len(hill') = Len(hill) - 1
    <3> DEFINE H == [curModu : Int, node : Vertices(g) \cup {-1}]
    <3>1. hill \in Seq(H) /\ hill # <<>>
      BY <1>4, <2>1 DEF ClimbInv, TypeOK, StackUndoes
    <3> HIDE DEF H
    <3> QED
      BY <2>1, <3>1, FrontFacts
  <2> QED
    BY <1>2, <1>6, <2>2, <2>3
<1> QED
  BY <1>1, <1>7, <1>8, <1>9, <1>10

\* A step of the seed loop or the return of a climb uses up a turn.
LEMMA TurnLess ==
  ASSUME PInv, Keep \/ \E seed \in DOMAIN coarse : DrawAgain(seed) \/ DrawMarked(seed) \/ TrySeed(seed)
  PROVE  Turns' = Turns - 1 /\ ClimbLeft' < ClimbLeft + 2 * iDistance + 6
<1>1. /\ IsFiniteSet(seedexit) /\ Len(coarse) \in Nat /\ Cardinality(seedexit) \in Nat
      /\ MaxRounds \in Nat /\ round \in Nat
  BY TurnsLeft
<1>2. iDistance \in Nat /\ ClimbLeft \in Nat
  BY DistanceAssumption, ClimbLeftBounds
<1>3. CASE Keep
  <2>1. pc = "done" /\ pc' = "seed" /\ coarse' = coarse /\ seedexit' = seedexit /\ round' = round + 1
    BY <1>3 DEF Keep
  <2>2. ClimbLeft' = 1
    BY <2>1 DEF ClimbLeft
  <2>3. Turns' = (MaxRounds - (round + 1)) + (Len(coarse) - Cardinality(seedexit))
    BY <2>1 DEF Turns
  <2> QED
    BY <1>1, <1>2, <2>2, <2>3 DEF Turns
<1>4. CASE \E seed \in DOMAIN coarse : DrawAgain(seed)
  <2>1. pc = "seed" /\ pc' = "seed" /\ coarse' = coarse /\ seedexit' = seedexit /\ round' = round + 1
    BY <1>4 DEF DrawAgain, Draws, vars
  <2>2. ClimbLeft' = 1
    BY <2>1 DEF ClimbLeft
  <2>3. Turns' = (MaxRounds - (round + 1)) + (Len(coarse) - Cardinality(seedexit))
    BY <2>1 DEF Turns
  <2> QED
    BY <1>1, <1>2, <2>2, <2>3 DEF Turns
<1>5. CASE \E seed \in DOMAIN coarse : DrawMarked(seed) \/ TrySeed(seed)
  <2>1. PICK seed \in DOMAIN coarse : DrawMarked(seed) \/ TrySeed(seed)
    BY <1>5
  <2>2. /\ pc = "seed" /\ pc' \in {"seed", "start"} /\ coarse' = coarse /\ round' = round
        /\ seed \notin seedexit /\ seedexit' = seedexit \cup {seed}
    BY <2>1 DEF DrawMarked, TrySeed, Draws, vars
  <2>3. Cardinality(seedexit') = Cardinality(seedexit) + 1
    BY <1>1, <2>2, FS_AddElement
  <2>4. ClimbLeft = 1 /\ (ClimbLeft' = 1 \/ ClimbLeft' = 2 * iDistance + 5)
    BY <2>2 DEF ClimbLeft
  <2>5. Turns' = (MaxRounds - round) + (Len(coarse) - (Cardinality(seedexit) + 1))
    BY <2>2, <2>3 DEF Turns
  <2> QED
    BY <1>1, <1>2, <2>4, <2>5 DEF Turns
<1> QED
  BY <1>3, <1>4, <1>5

\* myPartition ends: every step of it makes a natural number smaller.
THEOREM PartitionEnds == PSpec => VariantDecreases
<1>1. ASSUME PInv, [PNext]_pvars
      PROVE  [0 <= Variant' /\ Variant' < Variant]_pvars
  <2> SUFFICES ASSUME PNext, ~ UNCHANGED pvars PROVE 0 <= Variant' /\ Variant' < Variant
    BY <1>1
  <2> DEFINE w == 2 * iDistance + 6
  <2>1. Turns \in Nat /\ ClimbLeft \in Nat /\ w \in Nat
    BY <1>1, MeasuresNat, DistanceAssumption
  <2>2. Turns' \in Nat /\ ClimbLeft' \in Nat
    <3>1. (PInv => Turns \in Nat /\ ClimbLeft \in Nat)'
      BY MeasuresNat, PTL
    <3> QED
      BY <1>1, <3>1, NextP
  <2>3. Variant = Turns * w + ClimbLeft /\ Variant' = Turns' * w + ClimbLeft'
    BY DEF Variant, Turns
  <2>4. \/ Turns' = Turns /\ ClimbLeft' < ClimbLeft
        \/ Turns' = Turns - 1 /\ ClimbLeft' < ClimbLeft + w
    <3>1. CASE Refine
      BY <1>1, <3>1, RefineLess
    <3>2. CASE Keep \/ \E seed \in DOMAIN coarse :
                         DrawAgain(seed) \/ DrawMarked(seed) \/ TrySeed(seed)
      <4>1. Turns' = Turns - 1 /\ ClimbLeft' < ClimbLeft + 2 * iDistance + 6
        BY <1>1, <3>2, TurnLess
      <4> QED
        BY <2>1, <2>2, <4>1, DistanceAssumption
    <3>3. CASE Finish
      <4>1. pc = "seed" /\ pc' = "end" /\ UNCHANGED seeding
        BY <3>3 DEF Finish
      <4>2. ClimbLeft = 1 /\ ClimbLeft' = 0
        BY <4>1 DEF ClimbLeft
      <4>3. Turns' = Turns
        BY <4>1 DEF Turns, seeding
      <4> QED
        BY <4>2, <4>3
    <3> QED
      BY <3>1, <3>2, <3>3 DEF PNext, End
  <2> HIDE DEF w
  <2>5. /\ 0 <= Turns' * w + ClimbLeft'
        /\ Turns' * w + ClimbLeft' < Turns * w + ClimbLeft
    BY <2>1, <2>2, <2>4, WeightLess
  <2> QED
    BY <2>3, <2>5
<1> QED
  BY <1>1, PartitionInvariance, PTL DEF PSpec, VariantDecreases
=============================================================================
