------------------------------ MODULE Seeding -------------------------------
(***************************************************************************)
(* CMultilevel::coarseningGraph and subpartition: where the two-way        *)
(* partitions that HillClimbing refines come from.                         *)
(***************************************************************************)
EXTENDS Hypergraph

\* Edges in the order coarseningGraph takes them: by weight, and among equal
\* weights the last edge first (pMyHash chains are filled at the front).
HeavyFirst(g) == LargestFirst([i \in Edges(g) |-> i], g.w)

\* Faulty: a cluster is opened for every edge.
FaultyClusters(g) ==
  LET order == HeavyFirst(g) IN [k \in 1 .. Len(order) |-> g.eind[order[k]]]

\* The vertices that are in a cluster (keyTokey).
Taken(cs) == UNION {ToSet(cs[c]) : c \in DOMAIN cs}

\* pMyHashForVert of the coarsened graph: the vertices of each coarse vertex.
\* First every edge none of whose vertices is taken becomes a cluster; then, edge
\* by edge, the vertices still free of the other edges; then every vertex left.
\* (Chains are filled at the front from arcs that are themselves reversed, so a
\* cluster lists its vertices in the order of eind.)
Clusters(g) ==
  LET order == HeavyFirst(g)
      Alone[k \in 0 .. Len(order)] ==
        IF k = 0 THEN <<>>
        ELSE LET cs == Alone[k - 1]
                 e  == g.eind[order[k]]
             IN  IF Taken(cs) \cap ToSet(e) = {} THEN Append(cs, e) ELSE cs
      Joined[k \in 0 .. Len(order)] ==
        IF k = 0 THEN Alone[Len(order)]
        ELSE LET cs   == Joined[k - 1]
                 free == Chain(Arcs(g, order[k]), [v \in Vertices(g) |-> v \in Taken(cs)], FALSE)
             IN  IF free = <<>> THEN cs ELSE Append(cs, free)
      Single[k \in 0 .. g.n] ==
        IF k = 0 THEN Joined[Len(order)]
        ELSE LET cs == Single[k - 1]
             IN  IF k - 1 \in Taken(cs) THEN cs ELSE Append(cs, <<k - 1>>)
  IN  Single[g.n]

\* The vertices subpartition meets on the edges of v.
Near(g, v) == FlattenSeq([k \in 1 .. Len(EdgesOf(g, v)) |-> Arcs(g, EdgesOf(g, v)[k])])

\* anotherSeed: the next vertex after the seed that is not among those found.
AnotherSeed(g, seed, found) ==
  LET away(d) == (seed + d) % g.n
  IN  away(Min({d \in 1 .. g.n : away(d) \notin ToSet(found)}))

\* The k-th vertex found is taken from the queue: the new ones on its edges come
\* to the list, up to half of the vertices, and when the queue has run dry
\* before that, another seed.
Expand(g, seed, found, k) ==
  LET half == g.n \div 2
      all  == FirstSeen(found \o Near(g, found[k]))
      now  == SubSeq(all, 1, Min({half, Len(all)}))
  IN  IF Len(now) = k /\ k < half THEN Append(now, AnotherSeed(g, seed, now)) ELSE now

\* Faulty: a search whose queue runs dry is over, here after the seed's edges.
FaultyGrow(g, seed) ==
  LET near == FirstSeen(<<seed>> \o Near(g, seed))
  IN  SubSeq(near, 1, Min({Len(near), g.n \div 2}))

\* The vertices subpartition puts in part 0 itself: breadth first from the seed
\* until half of the vertices are reached.  Reached[k] lists the vertices found
\* when k of them have been expanded.
Grow(g, seed) ==
  LET half == g.n \div 2
      Reached[k \in 0 .. half] ==
        IF k = 0 THEN <<seed>>
        ELSE LET found == Reached[k - 1]
             IN  IF Len(found) >= half THEN found ELSE Expand(g, seed, found, k)
  IN  Reached[half]

\* What subpartition can leave in part_res.  The array is not initialised: every
\* vertex the search did not reach is in part 1 unless its entry happens to be 0.
Subpartition(g, seed) ==
  LET grown == ToSet(Grow(g, seed))
  IN  {[v \in Vertices(g) |-> IF v \in grown \cup junk THEN 0 ELSE 1] :
         junk \in SUBSET (Vertices(g) \ grown)}

=============================================================================
