---------------------------- MODULE GraphLemmas -----------------------------
(***************************************************************************)
(* Lemmas about the operators of the partitioning code: what the recursive *)
(* functions of FindCutEdges, the sum over a set and the heap compute.     *)
(***************************************************************************)
EXTENDS Seeding, HeapSort, SeqLemmas

-----------------------------------------------------------------------------
(***************************************************************************)
(* Edges.                                                                  *)
(***************************************************************************)

\* What CMygraph's constructor promises of one edge.
LEMMA EdgeFacts ==
  ASSUME NEW h, IsGraph(h), NEW i \in Edges(h)
  PROVE  /\ h.eind[i] \in Seq(Vertices(h))
         /\ Len(h.eind[i]) \in Nat \ {0}
         /\ ToSet(h.eind[i]) \subseteq Vertices(h)
         /\ h.eind[i][1] \in ToSet(h.eind[i])
         /\ h.w[i] \in Nat
<1>1. h.eind[i] \in Seq(Vertices(h)) /\ h.eind[i] # <<>> /\ h.w[i] \in Nat
  BY DEF IsGraph, Edges
<1>2. Len(h.eind[i]) \in Nat \ {0}
  BY <1>1, EmptySeq
<1>3. /\ DOMAIN h.eind[i] = 1 .. Len(h.eind[i])
      /\ h.eind[i] \in [1 .. Len(h.eind[i]) -> Vertices(h)]
  BY <1>1, LenProperties
<1> QED
  BY <1>1, <1>2, <1>3 DEF ToSet

\* FindCutEdges finds edges.
LEMMA CutEdgesType ==
  ASSUME NEW h, IsGraph(h), NEW p
  PROVE  FindCutEdges(h, p) \in Seq(Edges(h))
<1> DEFINE n == Len(h.eind)
           S == Seq(Edges(h))
           empty == <<>>
           d == [t \in S \X (1 .. n) |-> IF IsCut(h, p, t[2]) THEN Append(t[1], t[2]) ELSE t[1]]
           Found == CHOOSE F : F = [k \in 0 .. n |->
                      IF k = 0 THEN <<>>
                      ELSE IF IsCut(h, p, k) THEN Append(F[k - 1], k) ELSE F[k - 1]]
<1>1. FindCutEdges(h, p) = Found[n]
  BY DEF FindCutEdges
<1>2. n \in Nat /\ Edges(h) = 1 .. n
  BY LenProperties DEF IsGraph, Edges
<1>3. empty \in S /\ d \in Bodies(S, n)
  <2>1. \A l \in S, i \in 1 .. n : Append(l, i) \in S
    BY <1>2, AppendProperties
  <2> QED
    BY <2>1, EmptySeq DEF Bodies
<1>b. \A i : IsCut(h, p, i) \in BOOLEAN
  BY DEF IsCut
<1> HIDE DEF n, S
<1>4. PICK c : c \in Courses(S, empty, n, d)
  <2> HIDE DEF empty, d
  <2> QED
    BY <1>2, <1>3, LoopExists
<1>5. c \in [0 .. n -> S] /\ c[0] = empty /\ \A i \in 1 .. n : c[i] = d[<<c[i - 1], i>>]
  BY <1>4 DEF Courses
<1>6. ASSUME NEW i \in 1 .. n
      PROVE  c[i] = IF IsCut(h, p, i) THEN Append(c[i - 1], i) ELSE c[i - 1]
  <2>1. <<c[i - 1], i>> \in S \X (1 .. n)
    BY <1>2, <1>5
  <2> QED
    BY <1>5, <1>b, <2>1
<1>7. c = [k \in 0 .. n |-> IF k = 0 THEN <<>>
             ELSE IF IsCut(h, p, k) THEN Append(c[k - 1], k) ELSE c[k - 1]]
  <2>1. \A k \in 0 .. n : k # 0 => k \in 1 .. n
    BY <1>2
  <2>2. \A k \in 0 .. n : c[k] = IF k = 0 THEN <<>>
             ELSE IF IsCut(h, p, k) THEN Append(c[k - 1], k) ELSE c[k - 1]
    BY <1>5, <1>6, <2>1
  <2> QED
    BY <1>5, <2>2
<1>8. Found = [k \in 0 .. n |-> IF k = 0 THEN <<>>
                 ELSE IF IsCut(h, p, k) THEN Append(Found[k - 1], k) ELSE Found[k - 1]]
  <2> HIDE DEF d
  <2> QED
    BY <1>7, Zenon
<1> HIDE DEF Found
<1> DEFINE T == {m \in Nat : m <= n => Found[m] \in S}
<1>9. 0 \in T
  BY <1>2, <1>8, EmptySeq DEF S
<1>10. ASSUME NEW m \in Nat, m \in T
       PROVE  m + 1 \in T
  <2>1. SUFFICES ASSUME m + 1 <= n
                 PROVE  Found[m + 1] \in S
    OBVIOUS
  <2>2. Found[m] \in S /\ m + 1 \in Edges(h)
    BY <1>2, <1>10, <2>1
  <2>3. Found[m + 1] = IF IsCut(h, p, m + 1) THEN Append(Found[m], m + 1) ELSE Found[m]
    <3>1. m + 1 \in 0 .. n /\ m + 1 # 0 /\ (m + 1) - 1 = m
      BY <1>2, <2>1
    <3> QED
      BY <1>8, <1>b, <3>1
  <2> QED
    BY <2>2, <2>3, AppendProperties DEF S
<1>11. \A m \in Nat : m \in T
  <2> HIDE DEF T
  <2> QED
    BY <1>9, <1>10, NatSetInduction
<1> QED
  BY <1>1, <1>2, <1>11 DEF S

-----------------------------------------------------------------------------
(***************************************************************************)
(* Sorting by chains, and the vertices of the cut edges.                   *)
(***************************************************************************)

\* A list of numbers has a largest one.
LEMMA LargestKey ==
  ASSUME NEW n \in Nat, NEW f \in [1 .. n -> Nat]
  PROVE  LET keys == {0} \cup {f[k] : k \in 1 .. n}
         IN  /\ Max(keys) \in Nat
             /\ \A k \in 1 .. n : f[k] <= Max(keys)
<1> DEFINE keys(m) == {0} \cup {f[k] : k \in 1 .. m}
           T == {m \in Nat : m <= n => \E x \in keys(m) : \A y \in keys(m) : x >= y}
<1>1. 0 \in T
  OBVIOUS
<1>2. ASSUME NEW m \in Nat, m \in T
      PROVE  m + 1 \in T
  <2> SUFFICES ASSUME m + 1 <= n
               PROVE  \E x \in keys(m + 1) : \A y \in keys(m + 1) : x >= y
    OBVIOUS
  <2>1. PICK x \in keys(m) : \A y \in keys(m) : x >= y
    BY <1>2
  <2>2. x \in Nat /\ f[m + 1] \in Nat
    OBVIOUS
  <2>3. keys(m + 1) = keys(m) \cup {f[m + 1]}
    <3>1. 1 .. m + 1 = (1 .. m) \cup {m + 1}
      OBVIOUS
    <3> QED
      BY <3>1
  <2> HIDE DEF keys
  <2>4. CASE x >= f[m + 1]
    BY <2>1, <2>3, <2>4
  <2>5. CASE ~ x >= f[m + 1]
    <3>1. \A y \in keys(m) : y \in Nat
      BY DEF keys
    <3>2. \A y \in keys(m + 1) : f[m + 1] >= y
      BY <2>1, <2>2, <2>3, <2>5, <3>1
    <3> QED
      BY <2>3, <3>2
  <2> QED
    BY <2>4, <2>5
<1>3. \A m \in Nat : m \in T
  <2> HIDE DEF T
  <2> QED
    BY <1>1, <1>2, NatSetInduction
<1>4. \E x \in keys(n) : \A y \in keys(n) : x >= y
  <2> HIDE DEF keys
  <2> QED
    BY <1>3
<1>5. Max(keys(n)) \in keys(n) /\ \A y \in keys(n) : Max(keys(n)) >= y
  BY <1>4 DEF Max
<1>6. Max(keys(n)) \in Nat
  BY <1>5
<1> DEFINE x == Max(keys(n))
<1> HIDE DEF x
<1>7. x \in Nat /\ \A y \in keys(n) : x >= y
  BY <1>5, <1>6 DEF x
<1>8. \A k \in 1 .. n : f[k] <= x
  BY <1>7
<1> QED
  BY <1>7, <1>8 DEF x

\* A list stays free of repetitions when an element it does not have is put in front.
LEMMA ListPush ==
  ASSUME NEW X, NEW c \in Seq(X), NEW x \in X
  PROVE  /\ <<x>> \o c \in Seq(X)
         /\ ToSet(<<x>> \o c) = ToSet(c) \cup {x}
         /\ IsInjective(c) /\ x \notin ToSet(c) => IsInjective(<<x>> \o c)
<1> DEFINE p == <<x>> \o c
           n == Len(c)
<1>1. <<x>> \in Seq(X) /\ Len(<<x>>) = 1 /\ <<x>>[1] = x /\ n \in Nat /\ DOMAIN c = 1 .. n
  BY LenProperties
<1>2. p \in Seq(X) /\ Len(p) = 1 + n
  BY <1>1, ConcatProperties
<1>3. \A i \in 1 .. 1 + n : p[i] = IF i <= 1 THEN <<x>>[i] ELSE c[i - 1]
  BY <1>1, ConcatProperties
<1>4. DOMAIN p = 1 .. 1 + n
  BY <1>2, LenProperties
<1>5. ToSet(<<x>>) = {x}
  BY DEF ToSet
<1>6. ToSet(p) = ToSet(c) \cup {x}
  <2> DEFINE one == <<x>>
  <2>1. one \in Seq(X) /\ ToSet(one) = {x} /\ p = one \o c
    BY <1>1, <1>5
  <2> HIDE DEF one, p
  <2> QED
    BY <2>1, ConcatSet
<1> HIDE DEF p, n
<1>7. ASSUME IsInjective(c), x \notin ToSet(c) PROVE IsInjective(p)
  <2>1. p[1] = x /\ \A i \in 2 .. 1 + n : p[i] = c[i - 1] /\ i - 1 \in DOMAIN c
    BY <1>1, <1>3
  <2>2. \A i \in 2 .. 1 + n : p[i] # x
    BY <1>7, <2>1 DEF ToSet
  <2>3. ASSUME NEW a \in 1 .. 1 + n, NEW b \in 1 .. 1 + n, p[a] = p[b]
        PROVE  a = b
    <3>1. CASE a \in 2 .. 1 + n /\ b \in 2 .. 1 + n
      <4>1. a - 1 = b - 1
        BY <1>7, <2>1, <2>3, <3>1 DEF IsInjective
      <4> QED
        BY <1>1, <4>1
    <3>2. CASE a = 1 /\ b \in 2 .. 1 + n
      BY <2>1, <2>2, <2>3, <3>2
    <3>3. CASE b = 1 /\ a \in 2 .. 1 + n
      BY <2>1, <2>2, <2>3, <3>3
    <3>4. (a = 1 \/ a \in 2 .. 1 + n) /\ (b = 1 \/ b \in 2 .. 1 + n)
      BY <1>1
    <3> QED
      BY <3>1, <3>2, <3>3, <3>4
  <2> QED
    BY <1>4, <2>3 DEF IsInjective
<1> QED
  BY <1>2, <1>6, <1>7 DEF p

\* A chain has the entries with its key, and no other, and as often as the list.
LEMMA ChainFacts ==
  ASSUME NEW X, NEW s \in Seq(X), NEW key, NEW b
  PROVE  /\ Chain(s, key, b) \in Seq(X)
         /\ ToSet(Chain(s, key, b)) = {x \in ToSet(s) : key[x] = b}
         /\ IsInjective(s) => IsInjective(Chain(s, key, b))
<1> DEFINE n == Len(s)
           S == Seq(X)
           empty == <<>>
           push(c, k) == IF key[s[k]] = b THEN <<s[k]>> \o c ELSE c
           d == [t \in S \X (1 .. n) |-> push(t[1], t[2])]
           Pushed == CHOOSE F : F = [k \in 0 .. n |->
                       IF k = 0 THEN empty ELSE push(F[k - 1], k)]
<1>1. Chain(s, key, b) = Pushed[n]
  BY DEF Chain
<1>2. n \in Nat /\ s \in [1 .. n -> X] /\ DOMAIN s = 1 .. n
  BY LenProperties
<1>3. ASSUME NEW c \in S, NEW k \in 1 .. n
      PROVE  /\ push(c, k) \in S
             /\ ToSet(push(c, k)) = IF key[s[k]] = b THEN ToSet(c) \cup {s[k]} ELSE ToSet(c)
             /\ IsInjective(c) /\ s[k] \notin ToSet(c) => IsInjective(push(c, k))
  <2>1. s[k] \in X
    BY <1>2
  <2>2. CASE key[s[k]] # b
    BY <2>2
  <2>3. CASE key[s[k]] = b
    BY <2>1, <2>3, ListPush
  <2> QED
    BY <2>2, <2>3
<1>4. empty \in S /\ ToSet(empty) = {} /\ IsInjective(empty)
  BY EmptySeq DEF ToSet, IsInjective
<1> HIDE DEF n, S, push
<1>5. d \in Bodies(S, n)
  BY <1>3 DEF Bodies
<1>6. PICK h : h \in Courses(S, empty, n, d)
  <2> HIDE DEF d, empty
  <2> QED
    BY <1>2, <1>4, <1>5, LoopExists
<1>7. h \in [0 .. n -> S] /\ h[0] = empty /\ \A k \in 1 .. n : h[k] = d[<<h[k - 1], k>>]
  BY <1>6 DEF Courses
<1> HIDE DEF empty
<1>8. h = [k \in 0 .. n |-> IF k = 0 THEN empty ELSE push(h[k - 1], k)]
  <2>1. ASSUME NEW k \in 1 .. n PROVE h[k] = push(h[k - 1], k)
    <3>1. <<h[k - 1], k>> \in S \X (1 .. n)
      BY <1>2, <1>7
    <3> QED
      BY <1>7, <3>1
  <2> HIDE DEF d
  <2>2. \A k \in 0 .. n : h[k] = IF k = 0 THEN empty ELSE push(h[k - 1], k)
    BY <1>2, <1>7, <2>1
  <2> QED
    BY <1>7, <2>2
<1>9. Pushed = [k \in 0 .. n |-> IF k = 0 THEN empty ELSE push(Pushed[k - 1], k)]
  BY <1>8, Zenon
<1> HIDE DEF Pushed
<1>10. Pushed[0] = empty /\ \A k \in 1 .. n : Pushed[k] = push(Pushed[k - 1], k)
  BY <1>2, <1>9
<1> DEFINE Good(m) ==
             /\ Pushed[m] \in S
             /\ \A x : x \in ToSet(Pushed[m]) <=> \E k \in 1 .. m : x = s[k] /\ key[x] = b
             /\ IsInjective(s) => IsInjective(Pushed[m])
           T == {m \in Nat : m <= n => Good(m)}
<1>11. 0 \in T
  BY <1>4, <1>10
<1>12. ASSUME NEW m \in Nat, m \in T
       PROVE  m + 1 \in T
  <2> SUFFICES ASSUME m + 1 <= n PROVE Good(m + 1)
    OBVIOUS
  <2> DEFINE P == Pushed[m]
             Q == Pushed[m + 1]
             i == m + 1
  <2>1. Good(m) /\ i \in 1 .. n /\ i - 1 = m
    BY <1>2, <1>12
  <2>2. Q = push(P, i)
    BY <1>10, <2>1
  <2>3. /\ Q \in S
        /\ ToSet(Q) = IF key[s[i]] = b THEN ToSet(P) \cup {s[i]} ELSE ToSet(P)
        /\ IsInjective(P) /\ s[i] \notin ToSet(P) => IsInjective(Q)
    <3>1. P \in S /\ i \in 1 .. n
      BY <2>1
    <3> HIDE DEF P, Q, i
    <3> QED
      BY <1>3, <2>2, <3>1
  <2>4. \A k \in 1 .. i : k = i \/ k \in 1 .. m
    OBVIOUS
  <2>5. \A k \in 1 .. m : k \in 1 .. i /\ k # i /\ k \in 1 .. n
    BY <1>2, <2>1
  <2>6. i \in 1 .. i
    OBVIOUS
  <2> HIDE DEF P, Q, i
  <2>7. \A x : x \in ToSet(Q) <=> \E k \in 1 .. i : x = s[k] /\ key[x] = b
    BY <2>1, <2>3, <2>4, <2>5, <2>6 DEF P
  <2>8. ASSUME IsInjective(s) PROVE IsInjective(Q)
    <3>1. s[i] \notin ToSet(P)
      BY <1>2, <2>1, <2>5, <2>8 DEF P, IsInjective
    <3> QED
      BY <2>1, <2>3, <2>8, <3>1 DEF P
  <2> QED
    BY <2>3, <2>7, <2>8 DEF Q, i
<1>13. \A m \in Nat : m \in T
  <2> HIDE DEF T
  <2> QED
    BY <1>11, <1>12, NatSetInduction
<1>14. Good(n)
  BY <1>2, <1>13
<1>15. ToSet(Pushed[n]) = {x \in ToSet(s) : key[x] = b}
  BY <1>2, <1>14 DEF ToSet
<1> QED
  BY <1>1, <1>14, <1>15 DEF n, S

\* Sorting by chains loses no entry.
LEMMA LargestFirstFacts ==
  ASSUME NEW X, NEW s \in Seq(X), NEW key \in [X -> Nat]
  PROVE  /\ LargestFirst(s, key) \in Seq(X)
         /\ ToSet(s) \subseteq ToSet(LargestFirst(s, key))
<1> DEFINE n == Len(s)
           f == [k \in 1 .. n |-> key[s[k]]]
           keys == {0} \cup {f[k] : k \in 1 .. n}
           max == Max(keys)
           chains == [b \in 1 .. max + 1 |-> Chain(s, key, max + 1 - b)]
<1>1. n \in Nat /\ DOMAIN s = 1 .. n /\ s \in [1 .. n -> X]
  BY LenProperties
<1>2. f \in [1 .. n -> Nat]
  BY <1>1
<1>3. keys = {0} \cup {key[s[k]] : k \in 1 .. n}
  OBVIOUS
<1>4. LargestFirst(s, key) = FlattenSeq(chains)
  BY <1>3 DEF LargestFirst
<1>5. max \in Nat /\ \A k \in 1 .. n : f[k] <= max
  <2> HIDE DEF f
  <2> QED
    BY <1>1, <1>2, LargestKey
<1> HIDE DEF max
<1>6. \A b : Chain(s, key, b) \in Seq(X)
  BY ChainFacts
<1>7. Len(chains) = max + 1 /\ chains \in Seq(Seq(X))
  <2>1. max + 1 \in Nat
    BY <1>5
  <2>2. chains \in [1 .. max + 1 -> Seq(X)]
    BY <1>6
  <2> DEFINE m == max + 1
  <2>3. m \in Nat /\ chains \in [1 .. m -> Seq(X)]
    BY <2>1, <2>2
  <2> HIDE DEF chains, m
  <2>4. chains \in Seq(Seq(X))
    BY <2>3, SeqDef
  <2>5. Len(chains) = m
    BY <2>3, <2>4, LenProperties
  <2> QED
    BY <2>4, <2>5 DEF m
<1>8. ASSUME NEW k \in 1 .. n
      PROVE  s[k] \in UNION {ToSet(chains[b]) : b \in 1 .. Len(chains)}
  <2> DEFINE b == max + 1 - key[s[k]]
  <2>1. key[s[k]] \in Nat /\ key[s[k]] <= max
    BY <1>1, <1>5
  <2>2. b \in 1 .. max + 1 /\ max + 1 - b = key[s[k]]
    BY <1>5, <2>1
  <2> HIDE DEF b
  <2>3. chains[b] = Chain(s, key, key[s[k]])
    BY <2>2
  <2>4. s[k] \in ToSet(Chain(s, key, key[s[k]]))
    <3>1. s[k] \in ToSet(s)
      BY <1>1 DEF ToSet
    <3> QED
      BY <3>1, ChainFacts
  <2> HIDE DEF chains
  <2> QED
    BY <1>7, <2>2, <2>3, <2>4
<1> HIDE DEF chains
<1>9. FlattenSeq(chains) \in Seq(X)
      /\ ToSet(FlattenSeq(chains)) = UNION {ToSet(chains[b]) : b \in 1 .. Len(chains)}
  BY <1>7, FlattenSeqType
<1>10. ToSet(s) \subseteq ToSet(FlattenSeq(chains))
  BY <1>1, <1>8, <1>9 DEF ToSet
<1> QED
  BY <1>4, <1>9, <1>10

\* The vertices of some edges, in the order of the edges.
LEMMA ArcsFlattened ==
  ASSUME NEW h, IsGraph(h), NEW cut \in Seq(Edges(h))
  PROVE  LET all == FirstSeen(FlattenSeq([k \in 1 .. Len(cut) |-> Arcs(h, cut[k])]))
         IN  /\ all \in Lists(Vertices(h))
             /\ ToSet(all) = UNION {ToSet(Arcs(h, i)) : i \in ToSet(cut)}
<1> DEFINE arcs == [k \in 1 .. Len(cut) |-> Arcs(h, cut[k])]
           n == Len(cut)
<1>1. n \in Nat /\ cut \in [1 .. n -> Edges(h)] /\ DOMAIN cut = 1 .. n
  BY LenProperties
<1>2. ASSUME NEW k \in 1 .. n
      PROVE  Arcs(h, cut[k]) \in Seq(Vertices(h))
  BY <1>1, EdgeFacts, ReverseType DEF Arcs
<1>3. arcs \in [1 .. n -> Seq(Vertices(h))]
  BY <1>2
<1>4. arcs \in Seq(Seq(Vertices(h))) /\ Len(arcs) = n
  BY <1>1, <1>3, SeqDef, LenProperties
<1>5. UNION {ToSet(arcs[k]) : k \in 1 .. n} = UNION {ToSet(Arcs(h, i)) : i \in ToSet(cut)}
  <2>1. \A k \in 1 .. n : arcs[k] = Arcs(h, cut[k])
    OBVIOUS
  <2>2. ToSet(cut) = {cut[k] : k \in 1 .. n}
    BY <1>1 DEF ToSet
  <2> HIDE DEF arcs
  <2> QED
    BY <2>1, <2>2
<1> HIDE DEF arcs
<1>6. /\ FlattenSeq(arcs) \in Seq(Vertices(h))
      /\ ToSet(FlattenSeq(arcs)) = UNION {ToSet(arcs[k]) : k \in 1 .. n}
  BY <1>4, FlattenSeqType
<1> DEFINE all == FirstSeen(FlattenSeq(arcs))
<1>7. all \in Lists(Vertices(h)) /\ ToSet(all) = ToSet(FlattenSeq(arcs))
  BY <1>6, FirstSeenLists
<1> QED
  BY <1>5, <1>6, <1>7 DEF arcs

\* FindCutNodes lists vertices, each once.
LEMMA CutNodesLists ==
  ASSUME NEW h, IsGraph(h), NEW cut \in Seq(Edges(h))
  PROVE  FindCutNodes(h, cut) \in Lists(Vertices(h))
BY ArcsFlattened DEF FindCutNodes

\* NodeRank gives different ranks to the vertices of the cut edges.
LEMMA NodeRankFacts ==
  ASSUME NEW h, IsGraph(h), NEW cut \in Seq(Edges(h))
  PROVE  LET rank == NodeRank(h, cut)
         IN  \A u, v \in ToSet(FindCutNodes(h, cut)) :
               rank[u] \in Int /\ (rank[u] = rank[v] => u = v)
<1> DEFINE key == [i \in Edges(h) |-> Len(h.eind[i])]
           picked == LargestFirst(cut, key)
           ranked == FirstSeen(FlattenSeq([k \in 1 .. Len(picked) |-> Arcs(h, picked[k])]))
           at(v) == CHOOSE r \in 1 .. Len(ranked) : ranked[r] = v
<1>1. NodeRank(h, cut) = [v \in ToSet(ranked) |-> at(v) - 1]
  BY DEF NodeRank
<1>2. key \in [Edges(h) -> Nat]
  BY EdgeFacts
<1> HIDE DEF key
<1>3. picked \in Seq(Edges(h)) /\ ToSet(cut) \subseteq ToSet(picked)
  BY <1>2, LargestFirstFacts
<1> HIDE DEF picked
<1>4. /\ ranked \in Lists(Vertices(h))
      /\ ToSet(ranked) = UNION {ToSet(Arcs(h, i)) : i \in ToSet(picked)}
  BY <1>3, ArcsFlattened
<1>5. ToSet(FindCutNodes(h, cut)) = UNION {ToSet(Arcs(h, i)) : i \in ToSet(cut)}
  BY ArcsFlattened DEF FindCutNodes
<1> HIDE DEF ranked
<1>6. ToSet(FindCutNodes(h, cut)) \subseteq ToSet(ranked)
  BY <1>3, <1>4, <1>5
<1>7. ASSUME NEW v \in ToSet(ranked)
      PROVE  at(v) \in 1 .. Len(ranked) /\ ranked[at(v)] = v
  <2>1. ranked \in Seq(Vertices(h))
    BY <1>4 DEF Lists
  <2>2. \E r \in 1 .. Len(ranked) : ranked[r] = v
    BY <2>1, LenProperties DEF ToSet
  <2> QED
    BY <2>2
<1>8. Len(ranked) \in Nat
  BY <1>4, LenProperties DEF Lists
<1> HIDE DEF at
<1>9. \A u, v \in ToSet(ranked) : /\ NodeRank(h, cut)[u] \in Int
                                  /\ NodeRank(h, cut)[u] = NodeRank(h, cut)[v] => u = v
  <2> SUFFICES ASSUME NEW u \in ToSet(ranked), NEW v \in ToSet(ranked)
               PROVE  /\ NodeRank(h, cut)[u] \in Int
                      /\ NodeRank(h, cut)[u] = NodeRank(h, cut)[v] => u = v
    OBVIOUS
  <2>1. NodeRank(h, cut)[u] = at(u) - 1 /\ NodeRank(h, cut)[v] = at(v) - 1
    BY <1>1
  <2>2. at(u) \in Int /\ at(v) \in Int
    BY <1>7, <1>8
  <2>3. at(u) = at(v) => u = v
    BY <1>7
  <2> QED
    BY <2>1, <2>2, <2>3
<1> QED
  BY <1>6, <1>9

-----------------------------------------------------------------------------
(***************************************************************************)
(* Sums over a set, and the modularity.                                    *)
(***************************************************************************)

\* The element of s that a fold takes first.
Pick(s) == CHOOSE x \in s : TRUE

\* The sums of f over the subsets of S.
Sums(S, f) ==
  {k \in [SUBSET S -> Int] :
     \A s \in SUBSET S : k[s] = IF s = {} THEN 0 ELSE f[Pick(s)] + k[s \ {Pick(s)}]}

\* Taking the chosen element out of a finite set makes it smaller by one.
LEMMA PickFacts ==
  ASSUME NEW S, IsFiniteSet(S), NEW s \in SUBSET S, s # {}
  PROVE  /\ Pick(s) \in s
         /\ s \ {Pick(s)} \in SUBSET S
         /\ Cardinality(s) \in Nat \ {0}
         /\ Cardinality(s \ {Pick(s)}) = Cardinality(s) - 1
<1>1. Pick(s) \in s
  BY DEF Pick
<1>2. IsFiniteSet(s)
  BY FS_Subset
<1>3. Cardinality(s) \in Nat /\ Cardinality(s) # 0
  BY <1>2, FS_CardinalityType, FS_EmptySet
<1>4. Cardinality(s \ {Pick(s)}) = Cardinality(s) - 1
  BY <1>1, <1>2, FS_RemoveElement
<1> QED
  BY <1>1, <1>3, <1>4

\* A finite set has sums.
LEMMA SumExists ==
  ASSUME NEW S, IsFiniteSet(S), NEW f \in [S -> Int]
  PROVE  Sums(S, f) # {}
<1> DEFINE Small(m) == {s \in SUBSET S : Cardinality(s) <= m}
           Upto(m) == \E k \in [Small(m) -> Int] :
                        \A s \in Small(m) :
                          k[s] = IF s = {} THEN 0 ELSE f[Pick(s)] + k[s \ {Pick(s)}]
           T == {m \in Nat : Upto(m)}
<1>0. \A s \in SUBSET S : Cardinality(s) \in Nat
  BY FS_Subset, FS_CardinalityType
<1>1. 0 \in T
  <2>1. \A s \in Small(0) : s = {}
    <3> SUFFICES ASSUME NEW s \in SUBSET S, Cardinality(s) <= 0
                 PROVE  s = {}
      OBVIOUS
    <3>1. SUFFICES ASSUME s # {} PROVE FALSE
      OBVIOUS
    <3>2. Cardinality(s) \in Nat \ {0}
      BY <3>1, PickFacts
    <3> QED
      BY <3>2
  <2>2. [s \in Small(0) |-> 0] \in [Small(0) -> Int]
    OBVIOUS
  <2>3. Upto(0)
    <3> HIDE DEF Small
    <3> WITNESS [s \in Small(0) |-> 0] \in [Small(0) -> Int]
    <3> QED
      BY <2>1
  <2> QED
    BY <2>3
<1>2. ASSUME NEW m \in Nat, m \in T
      PROVE  m + 1 \in T
  <2>1. PICK k \in [Small(m) -> Int] :
          \A s \in Small(m) : k[s] = IF s = {} THEN 0 ELSE f[Pick(s)] + k[s \ {Pick(s)}]
    BY <1>2
  <2> DEFINE e == [s \in Small(m + 1) |-> IF s = {} THEN 0 ELSE f[Pick(s)] + k[s \ {Pick(s)}]]
  <2>2. ASSUME NEW s \in Small(m + 1), s # {}
        PROVE  s \ {Pick(s)} \in Small(m) /\ f[Pick(s)] \in Int
    BY <1>0, <2>2, PickFacts
  <2>3. e \in [Small(m + 1) -> Int]
    <3> HIDE DEF Small
    <3> QED
      BY <2>2
  <2>4. ASSUME NEW s \in Small(m)
        PROVE  e[s] = k[s]
    <3>1. s \in Small(m + 1)
      BY <1>0
    <3> HIDE DEF Small
    <3> QED
      BY <2>1, <3>1
  <2>5. ASSUME NEW s \in Small(m + 1)
        PROVE  e[s] = IF s = {} THEN 0 ELSE f[Pick(s)] + e[s \ {Pick(s)}]
    <3>1. CASE s = {}
      BY <3>1
    <3>2. CASE s # {}
      <4>1. e[s \ {Pick(s)}] = k[s \ {Pick(s)}]
        <5>1. s \ {Pick(s)} \in Small(m)
          BY <2>2, <3>2
        <5> HIDE DEF Small, e
        <5> QED
          BY <2>4, <5>1
      <4> QED
        BY <3>2, <4>1
    <3> QED
      BY <3>1, <3>2
  <2>6. Upto(m + 1)
    <3> HIDE DEF e, Small
    <3> QED
      BY <2>3, <2>5
  <2> HIDE DEF Upto
  <2> QED
    BY <2>6
<1>3. \A m \in Nat : m \in T
  <2> HIDE DEF T
  <2> QED
    BY <1>1, <1>2, NatSetInduction
<1>4. Upto(Cardinality(S))
  BY <1>0, <1>3
<1>5. Small(Cardinality(S)) = SUBSET S
  BY <1>0, FS_Subset
<1>6. PICK k \in [SUBSET S -> Int] :
        \A s \in SUBSET S : k[s] = IF s = {} THEN 0 ELSE f[Pick(s)] + k[s \ {Pick(s)}]
  <2> HIDE DEF Small
  <2> QED
    BY <1>4, <1>5
<1>7. k \in Sums(S, f)
  BY <1>6 DEF Sums
<1> QED
  BY <1>7

\* A function that satisfies the equation of the sums is integer.
LEMMA SumInt ==
  ASSUME NEW S, IsFiniteSet(S), NEW f \in [S -> Int], NEW k,
         \A s \in SUBSET S : k[s] = IF s = {} THEN 0 ELSE f[Pick(s)] + k[s \ {Pick(s)}]
  PROVE  k[S] \in Int
<1> DEFINE T == {m \in Nat : \A s \in SUBSET S : Cardinality(s) = m => k[s] \in Int}
<1>0. \A s \in SUBSET S : Cardinality(s) \in Nat
  BY FS_Subset, FS_CardinalityType
<1>1. 0 \in T
  <2>1. ASSUME NEW s \in SUBSET S, Cardinality(s) = 0
        PROVE  k[s] \in Int
    <3>1. s = {}
      BY <2>1, PickFacts
    <3>2. k[s] = IF s = {} THEN 0 ELSE f[Pick(s)] + k[s \ {Pick(s)}]
      OBVIOUS
    <3> QED
      BY <3>1, <3>2
  <2> QED
    BY <2>1
<1>2. ASSUME NEW m \in Nat, m \in T
      PROVE  m + 1 \in T
  <2>1. ASSUME NEW s \in SUBSET S, Cardinality(s) = m + 1
        PROVE  k[s] \in Int
    <3>1. s # {}
      <4>1. IsFiniteSet(s) /\ Cardinality(s) # 0
        BY <2>1, FS_Subset
      <4> QED
        BY <4>1, FS_EmptySet
    <3>2. /\ Pick(s) \in S /\ s \ {Pick(s)} \in SUBSET S
          /\ Cardinality(s \ {Pick(s)}) = m
      BY <2>1, <3>1, PickFacts
    <3>3. f[Pick(s)] \in Int /\ k[s \ {Pick(s)}] \in Int
      BY <1>2, <3>2
    <3>4. k[s] = f[Pick(s)] + k[s \ {Pick(s)}]
      BY <3>1
    <3> QED
      BY <3>3, <3>4
  <2> QED
    BY <2>1
<1>3. \A m \in Nat : m \in T
  <2> HIDE DEF T
  <2> QED
    BY <1>1, <1>2, NatSetInduction
<1> QED
  BY <1>0, <1>3

\* The edges' weights add up to an integer.
LEMMA CutEdgeValueInt ==
  ASSUME NEW h, IsGraph(h), NEW S \in SUBSET Edges(h), IsFiniteSet(S)
  PROVE  cutEdgeValue(h, S) \in Int
<1> DEFINE f == [i \in S |-> h.w[i]]
           sum == CHOOSE F : F = [s \in SUBSET S |->
                    IF s = {} THEN 0
                    ELSE h.w[CHOOSE x \in s : TRUE] + F[s \ {CHOOSE x \in s : TRUE}]]
<1>1. cutEdgeValue(h, S) = sum[S]
  BY DEF cutEdgeValue, MapThenSumSet, MapThenFoldSet
<1>2. f \in [S -> Int]
  BY EdgeFacts
<1>3. \A s \in SUBSET S : s # {} => f[Pick(s)] = h.w[Pick(s)]
  BY PickFacts
<1>4. PICK k : k \in Sums(S, f)
  <2> HIDE DEF f
  <2> QED
    BY <1>2, SumExists
<1>5. k = [s \in SUBSET S |-> IF s = {} THEN 0 ELSE h.w[Pick(s)] + k[s \ {Pick(s)}]]
  <2>1. /\ k \in [SUBSET S -> Int]
        /\ \A s \in SUBSET S : k[s] = IF s = {} THEN 0 ELSE f[Pick(s)] + k[s \ {Pick(s)}]
    BY <1>4 DEF Sums
  <2> HIDE DEF f
  <2> QED
    BY <1>3, <2>1
<1>6. sum = [s \in SUBSET S |-> IF s = {} THEN 0 ELSE h.w[Pick(s)] + sum[s \ {Pick(s)}]]
  BY <1>5, Zenon DEF Pick
<1> HIDE DEF sum, f
<1>7. \A s \in SUBSET S : sum[s] = IF s = {} THEN 0 ELSE f[Pick(s)] + sum[s \ {Pick(s)}]
  BY <1>3, <1>6
<1>8. sum[S] \in Int
  BY <1>2, <1>7, SumInt
<1> QED
  BY <1>1, <1>8

\* So do the edges' shares of the cohesion.
LEMMA InnerEdgeValueInt ==
  ASSUME NEW h, IsGraph(h), NEW S \in SUBSET Edges(h), IsFiniteSet(S)
  PROVE  innerEdgeValue(h, S) \in Int
<1> DEFINE v(i) == h.w[i] * (Unit - Unit \div Len(h.eind[i]))
           f == [i \in S |-> v(i)]
           sum == CHOOSE F : F = [s \in SUBSET S |->
                    IF s = {} THEN 0
                    ELSE v(CHOOSE x \in s : TRUE) + F[s \ {CHOOSE x \in s : TRUE}]]
<1>1. innerEdgeValue(h, S) = sum[S]
  BY DEF innerEdgeValue, MapThenSumSet, MapThenFoldSet
<1>2. f \in [S -> Int]
  <2> SUFFICES ASSUME NEW i \in S PROVE v(i) \in Int
    OBVIOUS
  <2>1. Len(h.eind[i]) \in Nat \ {0} /\ h.w[i] \in Nat
    BY EdgeFacts
  <2>2. Unit \div Len(h.eind[i]) \in Int /\ Unit \in Int
    BY <2>1, UnitAssumption
  <2>3. Unit - Unit \div Len(h.eind[i]) \in Int
    BY <2>2
  <2> QED
    BY <2>1, <2>3
<1> HIDE DEF v
<1>3. \A s \in SUBSET S : s # {} => f[Pick(s)] = v(Pick(s))
  BY PickFacts
<1>4. PICK k : k \in Sums(S, f)
  <2> HIDE DEF f
  <2> QED
    BY <1>2, SumExists
<1>5. k = [s \in SUBSET S |-> IF s = {} THEN 0 ELSE v(Pick(s)) + k[s \ {Pick(s)}]]
  <2>1. /\ k \in [SUBSET S -> Int]
        /\ \A s \in SUBSET S : k[s] = IF s = {} THEN 0 ELSE f[Pick(s)] + k[s \ {Pick(s)}]
    BY <1>4 DEF Sums
  <2> HIDE DEF f
  <2> QED
    BY <1>3, <2>1
<1>6. sum = [s \in SUBSET S |-> IF s = {} THEN 0 ELSE v(Pick(s)) + sum[s \ {Pick(s)}]]
  BY <1>5, Zenon DEF Pick
<1> HIDE DEF sum, f
<1>7. \A s \in SUBSET S : sum[s] = IF s = {} THEN 0 ELSE f[Pick(s)] + sum[s \ {Pick(s)}]
  BY <1>3, <1>6
<1>8. sum[S] \in Int
  BY <1>2, <1>7, SumInt
<1> QED
  BY <1>1, <1>8

\* The vertices of some edges are counted, and there are some.
LEMMA InnerVertCountPositive ==
  ASSUME NEW h, IsGraph(h), NEW S \in SUBSET Edges(h), S # {}
  PROVE  innerVertCount(h, S) \in Nat \ {0}
<1> DEFINE U == UNION {ToSet(h.eind[i]) : i \in S}
<1>1. U \subseteq Vertices(h) /\ U # {}
  <2>1. \A i \in S : ToSet(h.eind[i]) \subseteq Vertices(h) /\ ToSet(h.eind[i]) # {}
    BY EdgeFacts
  <2> QED
    BY <2>1
<1>2. IsFiniteSet(Vertices(h))
  <2>1. 0 \in Int /\ h.n - 1 \in Int
    BY DEF IsGraph
  <2> QED
    BY <2>1, FS_Interval DEF Vertices
<1>3. IsFiniteSet(U)
  BY <1>1, <1>2, FS_Subset
<1> HIDE DEF U
<1>4. Cardinality(U) \in Nat \ {0}
  BY <1>1, <1>3, FS_CardinalityType, FS_EmptySet
<1> QED
  BY <1>4 DEF U, innerVertCount

\* The modularity of a partition is an integer in the units of the model: it is
\* never the quotient by an empty part.
LEMMA ModularityInt ==
  ASSUME NEW h, IsGraph(h), NEW p
  PROVE  ComputeModularity(h, p) \in Int
<1> DEFINE cut == {i \in Edges(h) : IsCut(h, p, i)}
           inner(k) == {i \in Edges(h) \ cut : p[h.eind[i][1]] = k}
           share(k) == (2 * innerEdgeValue(h, inner(k)) - cutEdgeValue(h, cut) * Unit)
                         * (Unit \div innerVertCount(h, inner(k)))
<1>1. IsFiniteSet(Edges(h))
  BY LenProperties, FS_Interval DEF IsGraph, Edges
<1>2. cut \in SUBSET Edges(h) /\ IsFiniteSet(cut)
  BY <1>1, FS_Subset
<1>3. \A k : inner(k) \in SUBSET Edges(h) /\ IsFiniteSet(inner(k))
  BY <1>1, FS_Subset
<1>4. ComputeModularity(h, p)
        = IF inner(0) # {} /\ inner(1) # {} THEN share(0) + share(1) ELSE -1000 * Unit * Unit
  BY DEF ComputeModularity
<1> HIDE DEF cut, inner
<1>5. ASSUME NEW k, inner(k) # {}
      PROVE  share(k) \in Int
  <2>1. innerEdgeValue(h, inner(k)) \in Int /\ cutEdgeValue(h, cut) \in Int
    BY <1>2, <1>3, InnerEdgeValueInt, CutEdgeValueInt
  <2>2. innerVertCount(h, inner(k)) \in Nat \ {0}
    BY <1>3, <1>5, InnerVertCountPositive
  <2>3. Unit \div innerVertCount(h, inner(k)) \in Int
    BY <2>2, UnitAssumption
  <2> QED
    BY <2>1, <2>3, UnitAssumption
<1> HIDE DEF share
<1>6. -1000 * Unit * Unit \in Int
  BY UnitAssumption
<1> QED
  BY <1>4, <1>5, <1>6

-----------------------------------------------------------------------------
(***************************************************************************)
(* The heap of moves only rearranges its entries.                          *)
(***************************************************************************)

\* Where an entry goes from each of n positions: never up.
Sinks(n) == {D \in [0 .. n - 1 -> 0 .. n - 1] : \A j \in 0 .. n - 1 : D[j] >= j}

\* The positions from j on that an entry takes until it stays.
Paths(n, D, j) ==
  {s \in Seq(j .. n - 1) :
     /\ Len(s) >= 1 /\ s[1] = j
     /\ \A a, b \in 1 .. Len(s) : a < b => s[a] < s[b]
     /\ \A a \in 1 .. Len(s) : D[s[a]] = IF a = Len(s) THEN s[a] ELSE s[a + 1]}

\* A position that moves nowhere is a path of its own.
LEMMA PathStays ==
  ASSUME NEW n \in Nat, NEW D \in Sinks(n), NEW j \in 0 .. n - 1, D[j] = j
  PROVE  <<j>> \in Paths(n, D, j)
<1>1. <<j>> \in Seq(j .. n - 1) /\ Len(<<j>>) = 1 /\ <<j>>[1] = j
  OBVIOUS
<1> QED
  BY <1>1 DEF Paths

\* A position in front of the path of its child is a path.
LEMMA PathGoesOn ==
  ASSUME NEW n \in Nat, NEW D \in Sinks(n), NEW j \in 0 .. n - 1, D[j] # j,
         NEW s \in Paths(n, D, D[j])
  PROVE  <<j>> \o s \in Paths(n, D, j)
<1> DEFINE d == D[j]
           t == <<j>> \o s
<1>1. d \in 0 .. n - 1 /\ d > j
  BY DEF Sinks
<1>2. /\ s \in Seq(d .. n - 1) /\ Len(s) >= 1 /\ s[1] = d
      /\ \A a, b \in 1 .. Len(s) : a < b => s[a] < s[b]
      /\ \A a \in 1 .. Len(s) : D[s[a]] = IF a = Len(s) THEN s[a] ELSE s[a + 1]
  BY DEF Paths
<1> HIDE DEF d
<1>3. /\ Len(s) \in Nat /\ \A a \in 1 .. Len(s) : s[a] \in d .. n - 1
  BY <1>2, LenProperties
<1>4. s \in Seq(j .. n - 1) /\ <<j>> \in Seq(j .. n - 1)
  <2>1. d .. n - 1 \subseteq j .. n - 1
    BY <1>1
  <2>2. s \in Seq(j .. n - 1)
    BY <1>2, <2>1, SeqMonotonic
  <2> QED
    BY <2>2
<1>5. t \in Seq(j .. n - 1) /\ Len(t) = Len(s) + 1
  BY <1>4, ConcatProperties
<1>6. t[1] = j /\ \A a \in 2 .. Len(s) + 1 : t[a] = s[a - 1]
  BY <1>3, <1>4, ConcatProperties
<1> HIDE DEF t
<1>7. ASSUME NEW a \in 1 .. Len(t), NEW b \in 1 .. Len(t), a < b
      PROVE  t[a] < t[b]
  <2>1. t[b] = s[b - 1] /\ b - 1 \in 1 .. Len(s)
    BY <1>3, <1>5, <1>6, <1>7
  <2>2. CASE a = 1
    BY <1>1, <1>3, <1>6, <2>1, <2>2
  <2>3. CASE a # 1
    <3>1. t[a] = s[a - 1] /\ a - 1 \in 1 .. Len(s) /\ a - 1 < b - 1
      BY <1>3, <1>5, <1>6, <1>7, <2>3
    <3> QED
      BY <1>2, <2>1, <3>1
  <2> QED
    BY <2>2, <2>3
<1>8. ASSUME NEW a \in 1 .. Len(t)
      PROVE  D[t[a]] = IF a = Len(t) THEN t[a] ELSE t[a + 1]
  <2>1. CASE a = 1
    <3>1. t[2] = s[1] /\ Len(t) # 1
      BY <1>2, <1>3, <1>5, <1>6
    <3> QED
      BY <1>2, <1>6, <2>1, <3>1 DEF d
  <2>2. CASE a # 1
    <3>1. t[a] = s[a - 1] /\ a - 1 \in 1 .. Len(s)
      BY <1>3, <1>5, <1>6, <2>2
    <3>2. CASE a = Len(t)
      BY <1>2, <1>3, <1>5, <3>1, <3>2
    <3>3. CASE a # Len(t)
      <4>1. a + 1 \in 2 .. Len(s) + 1 /\ (a + 1) - 1 = (a - 1) + 1
        BY <1>3, <1>5, <3>3
      <4>2. t[a + 1] = s[(a - 1) + 1] /\ a - 1 # Len(s)
        BY <1>3, <1>5, <1>6, <3>3, <4>1
      <4> QED
        BY <1>2, <3>1, <3>3, <4>2
    <3> QED
      BY <3>2, <3>3
  <2> QED
    BY <2>1, <2>2
<1>9. Len(t) >= 1
  BY <1>3, <1>5
<1>10. t \in Paths(n, D, j)
  BY <1>5, <1>6, <1>7, <1>8, <1>9 DEF Paths
<1> QED
  BY <1>10 DEF t

\* The functions that list the path from every position.
PathFcns(n, D) ==
  {P \in [0 .. n - 1 -> Seq(0 .. n - 1)] :
     \A j \in 0 .. n - 1 : P[j] = IF D[j] = j THEN <<j>> ELSE <<j>> \o P[D[j]]}

\* There is a function with the recursive equation of SiftPath: a path only
\* descends, so the equation is solved from the end of the array backwards.
LEMMA PathFcnExists ==
  ASSUME NEW n \in Nat, NEW D \in Sinks(n)
  PROVE  PathFcns(n, D) # {}
<1> DEFINE S == Seq(0 .. n - 1)
           Low(m) == n - m .. n - 1
           Eq(P, j) == P[j] = IF D[j] = j THEN <<j>> ELSE <<j>> \o P[D[j]]
           Downto(m) == \E P \in [Low(m) -> S] : \A j \in Low(m) : Eq(P, j)
           T == {m \in Nat : m <= n => Downto(m)}
<1>0. \A j \in 0 .. n - 1 : D[j] \in 0 .. n - 1 /\ D[j] >= j
  BY DEF Sinks
<1>1. 0 \in T
  <2>1. Low(0) = {}
    OBVIOUS
  <2>2. Downto(0)
    <3>1. \E P \in [{} -> S] : \A j \in {} : Eq(P, j)
      <4> WITNESS [j \in {} |-> <<>>] \in [{} -> S]
      <4> QED
        OBVIOUS
    <3> HIDE DEF Low
    <3> QED
      BY <2>1, <3>1
  <2> HIDE DEF Downto
  <2> QED
    BY <2>2
<1>2. ASSUME NEW m \in Nat, m \in T
      PROVE  m + 1 \in T
  <2>1. SUFFICES ASSUME m + 1 <= n PROVE Downto(m + 1)
    <3> HIDE DEF Downto
    <3> QED
      OBVIOUS
  <2>2. PICK P \in [Low(m) -> S] : \A j \in Low(m) : Eq(P, j)
    <3>1. Downto(m)
      <4> HIDE DEF Downto
      <4> QED
        BY <1>2, <2>1
    <3> QED
      BY <3>1
  <2> DEFINE t == n - (m + 1)
             Q == [j \in Low(m + 1) |->
                     IF j # t THEN P[j] ELSE IF D[t] = t THEN <<t>> ELSE <<t>> \o P[D[t]]]
  <2>3. /\ t \in 0 .. n - 1 /\ t \in Low(m + 1) /\ t \notin Low(m)
        /\ \A j \in Low(m) : j \in Low(m + 1) /\ j \in 0 .. n - 1
        /\ \A j \in Low(m + 1) : j # t => j \in Low(m)
    BY <2>1
  <2>4. D[t] # t => D[t] \in Low(m)
    BY <1>0, <2>1, <2>3
  <2>5. \A j \in Low(m) : D[j] \in Low(m)
    BY <1>0, <2>1, <2>3
  <2> HIDE DEF Low, t
  <2>6. <<t>> \in S /\ (D[t] # t => <<t>> \o P[D[t]] \in S)
    <3>1. <<t>> \in S
      BY <2>3
    <3>2. D[t] # t => P[D[t]] \in S
      BY <2>2, <2>4
    <3> HIDE DEF S
    <3>3. \A u \in S, v \in S : u \o v \in S
      BY ConcatProperties DEF S
    <3> QED
      BY <3>1, <3>2, <3>3
  <2> HIDE DEF S
  <2>7. Q \in [Low(m + 1) -> S]
    BY <2>2, <2>3, <2>6
  <2>8. \A j \in Low(m) : Q[j] = P[j]
    BY <2>3
  <2>9. Q[t] = IF D[t] = t THEN <<t>> ELSE <<t>> \o P[D[t]]
    BY <2>3
  <2> HIDE DEF Q
  <2>10. ASSUME NEW j \in Low(m + 1) PROVE Eq(Q, j)
    <3>1. CASE j = t
      BY <2>4, <2>8, <2>9, <3>1
    <3>2. CASE j # t
      BY <2>2, <2>3, <2>5, <2>8, <3>2
    <3> QED
      BY <3>1, <3>2
  <2> HIDE DEF Eq
  <2> QED
    BY <2>7, <2>10
<1>3. \A m \in Nat : m \in T
  <2> HIDE DEF T
  <2> QED
    BY <1>1, <1>2, NatSetInduction
<1>4. Downto(n)
  <2> HIDE DEF Downto
  <2> QED
    BY <1>3
<1>5. Low(n) = 0 .. n - 1
  OBVIOUS
<1>6. PICK P \in [0 .. n - 1 -> S] : \A j \in 0 .. n - 1 : Eq(P, j)
  <2> HIDE DEF Low, Eq, S
  <2> QED
    BY <1>4, <1>5
<1>7. P \in PathFcns(n, D)
  BY <1>6 DEF PathFcns
<1> QED
  BY <1>7

\* Such a function lists paths.
LEMMA PathFcnPaths ==
  ASSUME NEW n \in Nat, NEW D \in Sinks(n), NEW P,
         \A j \in 0 .. n - 1 : P[j] = IF D[j] = j THEN <<j>> ELSE <<j>> \o P[D[j]]
  PROVE  \A j \in 0 .. n - 1 : P[j] \in Paths(n, D, j)
<1> DEFINE Good(m) == \A j \in n - m .. n - 1 : P[j] \in Paths(n, D, j)
           T == {m \in Nat : m <= n => Good(m)}
<1>0. \A j \in 0 .. n - 1 : D[j] \in 0 .. n - 1 /\ D[j] >= j
  BY DEF Sinks
<1>1. 0 \in T
  OBVIOUS
<1>2. ASSUME NEW m \in Nat, m \in T
      PROVE  m + 1 \in T
  <2>1. SUFFICES ASSUME m + 1 <= n, NEW j \in n - (m + 1) .. n - 1
                 PROVE  P[j] \in Paths(n, D, j)
    OBVIOUS
  <2>2. j \in 0 .. n - 1 /\ (D[j] = j \/ D[j] \in n - m .. n - 1)
    BY <1>0, <2>1
  <2>3. CASE D[j] = j
    <3>1. P[j] = <<j>>
      BY <2>2, <2>3
    <3> QED
      BY <2>2, <2>3, <3>1, PathStays
  <2>4. CASE D[j] # j
    <3>1. P[D[j]] \in Paths(n, D, D[j])
      BY <1>2, <2>1, <2>2, <2>4
    <3>2. P[j] = <<j>> \o P[D[j]]
      BY <2>2, <2>4
    <3> QED
      BY <2>2, <2>4, <3>1, <3>2, PathGoesOn
  <2> QED
    BY <2>3, <2>4
<1>3. \A m \in Nat : m \in T
  <2> HIDE DEF T
  <2> QED
    BY <1>1, <1>2, NatSetInduction
<1>4. Good(n)
  BY <1>3
<1> QED
  BY <1>4

\* Down as a function.
DownFcn(A, hLen, x, Node_Rank) == [j \in 0 .. hLen - 1 |-> Down(A, hLen, x, j, Node_Rank)]

\* AdjustHeap's loop only goes down, and stays inside the heap.
LEMMA DownSinks ==
  ASSUME NEW A, NEW hLen \in Nat, NEW x, NEW Node_Rank
  PROVE  DownFcn(A, hLen, x, Node_Rank) \in Sinks(hLen)
<1>1. ASSUME NEW j \in 0 .. hLen - 1
      PROVE  Down(A, hLen, x, j, Node_Rank) \in j .. hLen - 1
  BY DEF Down
<1> QED
  BY <1>1 DEF DownFcn, Sinks

\* The positions an entry takes in AdjustHeap are those of Down, one after the other.
LEMMA SiftPathPaths ==
  ASSUME NEW A, NEW hLen \in Nat, NEW i \in 0 .. hLen - 1, NEW Node_Rank
  PROVE  SiftPath(A, hLen, i, Node_Rank)
           \in Paths(hLen, DownFcn(A, hLen, A[i + 1], Node_Rank), i)
<1> DEFINE D == DownFcn(A, hLen, A[i + 1], Node_Rank)
           Path == CHOOSE F : F = [j \in 0 .. hLen - 1 |->
                     IF Down(A, hLen, A[i + 1], j, Node_Rank) = j THEN <<j>>
                     ELSE <<j>> \o F[Down(A, hLen, A[i + 1], j, Node_Rank)]]
<1>1. SiftPath(A, hLen, i, Node_Rank) = Path[i]
  BY DEF SiftPath
<1>2. D \in Sinks(hLen)
  BY DownSinks
<1>3. \A j \in 0 .. hLen - 1 : Down(A, hLen, A[i + 1], j, Node_Rank) = D[j]
  BY DEF DownFcn
<1> HIDE DEF D
<1>4. PICK P : P \in PathFcns(hLen, D)
  BY <1>2, PathFcnExists
<1>5. P = [j \in 0 .. hLen - 1 |->
             IF Down(A, hLen, A[i + 1], j, Node_Rank) = j THEN <<j>>
             ELSE <<j>> \o P[Down(A, hLen, A[i + 1], j, Node_Rank)]]
  BY <1>3, <1>4 DEF PathFcns
<1>6. Path = [j \in 0 .. hLen - 1 |->
                IF Down(A, hLen, A[i + 1], j, Node_Rank) = j THEN <<j>>
                ELSE <<j>> \o Path[Down(A, hLen, A[i + 1], j, Node_Rank)]]
  BY <1>5, Zenon
<1> HIDE DEF Path
<1>7. \A j \in 0 .. hLen - 1 : Path[j] = IF D[j] = j THEN <<j>> ELSE <<j>> \o Path[D[j]]
  BY <1>3, <1>6
<1>8. Path[i] \in Paths(hLen, D, i)
  BY <1>2, <1>7, PathFcnPaths
<1> QED
  BY <1>1, <1>8 DEF D

\* The permutations of n positions that keep every position after the m-th.
Perms(n, m) ==
  {q \in [1 .. n -> 1 .. n] :
     /\ \A a, b \in 1 .. n : q[a] = q[b] => a = b
     /\ \A a \in 1 .. n : \E b \in 1 .. n : q[b] = a
     /\ \A a \in 1 .. n : IF a <= m THEN q[a] <= m ELSE q[a] = a}

\* B has the entries of A in another order, the same after the m-th.
Rearranged(A, B, m) ==
  \E q \in Perms(Len(A), m) : B = [k \in 1 .. Len(A) |-> A[q[k]]]

\* q moves up the entries at the positions s[1], ..., s[L] one place each, and the
\* first to the last.
Rotates(n, m, L, s, q) ==
  /\ s \in [1 .. L -> 1 .. m]
  /\ \A a, b \in 1 .. L : s[a] = s[b] => a = b
  /\ q = [p \in 1 .. n |-> q[p]]
  /\ \A a \in 1 .. L : q[s[a]] = IF a = L THEN s[1] ELSE s[a + 1]
  /\ \A p \in 1 .. n : (\A a \in 1 .. L : s[a] # p) => q[p] = p

\* A rotation permutes the positions.
LEMMA RotationPermutes ==
  ASSUME NEW n \in Nat, NEW m \in 0 .. n, NEW L \in Nat \ {0}, NEW s, NEW q,
         Rotates(n, m, L, s, q)
  PROVE  q \in Perms(n, m)
<1> DEFINE on(p) == \E a \in 1 .. L : s[a] = p
<1>0. /\ s \in [1 .. L -> 1 .. m]
      /\ \A a, b \in 1 .. L : s[a] = s[b] => a = b
      /\ q = [p \in 1 .. n |-> q[p]]
      /\ \A a \in 1 .. L : q[s[a]] = IF a = L THEN s[1] ELSE s[a + 1]
      /\ \A p \in 1 .. n : ~ on(p) => q[p] = p
  BY DEF Rotates
<1> USE <1>0
<1>1. \A a \in 1 .. L : s[a] \in 1 .. m /\ s[a] \in 1 .. n
  OBVIOUS
<1>2. \A a \in 1 .. L : a # L => a + 1 \in 1 .. L
  OBVIOUS
<1>3. 1 \in 1 .. L /\ L \in 1 .. L
  OBVIOUS
<1>4. \A a \in 1 .. L : q[s[a]] \in 1 .. m /\ on(q[s[a]])
  BY <1>1, <1>2, <1>3
<1>5. \A p \in 1 .. n : on(p) => q[p] \in 1 .. m /\ p \in 1 .. m /\ on(q[p])
  <2> SUFFICES ASSUME NEW p \in 1 .. n, NEW a \in 1 .. L, s[a] = p
               PROVE  q[p] \in 1 .. m /\ p \in 1 .. m /\ on(q[p])
    OBVIOUS
  <2> QED
    BY <1>1, <1>4
<1>6. \A p \in 1 .. n : ~ on(p) => q[p] = p
  OBVIOUS
<1>7. ASSUME NEW p \in 1 .. n
      PROVE  /\ q[p] \in 1 .. n
             /\ p <= m => q[p] <= m
             /\ p > m => q[p] = p
  <2>1. CASE on(p)
    <3> HIDE DEF on
    <3> QED
      BY <1>5, <2>1
  <2>2. CASE ~ on(p)
    <3> HIDE DEF on
    <3> QED
      BY <1>6, <2>2
  <2> QED
    BY <2>1, <2>2
<1>8. ASSUME NEW p \in 1 .. n, NEW r \in 1 .. n, q[p] = q[r]
      PROVE  p = r
  <2>1. on(p) <=> on(r)
    <3> HIDE DEF on
    <3> QED
      BY <1>8, <1>5, <1>6
  <2>2. CASE ~ on(p) /\ ~ on(r)
    <3> HIDE DEF on
    <3> QED
      BY <1>8, <1>6, <2>2
  <2>3. CASE on(p) /\ on(r)
    <3>1. PICK a \in 1 .. L, b \in 1 .. L : s[a] = p /\ s[b] = r
      BY <2>3
    <3>2. CASE a = L /\ b = L
      BY <3>1, <3>2
    <3>3. CASE a # L /\ b # L
      <4>1. s[a + 1] = s[b + 1]
        BY <1>8, <3>1, <3>3
      <4>2. a + 1 = b + 1
        BY <1>2, <3>3, <4>1
      <4> QED
        BY <3>1, <4>2
    <3>4. CASE a = L /\ b # L
      <4>1. s[1] = s[b + 1]
        BY <1>8, <3>1, <3>4
      <4>2. 1 = b + 1
        BY <1>2, <1>3, <3>4, <4>1
      <4> QED
        BY <4>2
    <3>5. CASE a # L /\ b = L
      <4>1. s[1] = s[a + 1]
        BY <1>8, <3>1, <3>5
      <4>2. 1 = a + 1
        BY <1>2, <1>3, <3>5, <4>1
      <4> QED
        BY <4>2
    <3> QED
      BY <3>2, <3>3, <3>4, <3>5
  <2> QED
    BY <2>1, <2>2, <2>3
<1>9. ASSUME NEW p \in 1 .. n
      PROVE  \E r \in 1 .. n : q[r] = p
  <2>1. CASE ~ on(p)
    BY <2>1
  <2>2. CASE on(p)
    <3>1. PICK a \in 1 .. L : s[a] = p
      BY <2>2
    <3>2. CASE a = 1
      BY <1>1, <1>3, <3>1, <3>2
    <3>3. CASE a # 1
      <4>1. a - 1 \in 1 .. L /\ a - 1 # L /\ (a - 1) + 1 = a
        BY <3>3
      <4>2. q[s[a - 1]] = p
        BY <3>1, <4>1
      <4> QED
        BY <1>1, <4>1, <4>2
    <3> QED
      BY <3>2, <3>3
  <2> QED
    BY <2>1, <2>2
<1>10. q \in [1 .. n -> 1 .. n]
  BY <1>7
<1>11. \A p \in 1 .. n : IF p <= m THEN q[p] <= m ELSE q[p] = p
  BY <1>7
<1> QED
  BY <1>8, <1>9, <1>10, <1>11 DEF Perms

\* AdjustHeap rearranges the heap.
LEMMA AdjustHeapRearranges ==
  ASSUME NEW E, NEW A \in Seq(E), NEW hLen \in 0 .. Len(A), NEW i \in 0 .. hLen - 1,
         NEW Node_Rank
  PROVE  Rearranged(A, AdjustHeap(A, hLen, i, Node_Rank), hLen)
<1> DEFINE n == Len(A)
           D == DownFcn(A, hLen, A[i + 1], Node_Rank)
           path == SiftPath(A, hLen, i, Node_Rank)
           L == Len(path)
           at(p) == CHOOSE m \in DOMAIN path : path[m] = p - 1
           q == [p \in 1 .. n |->
                   IF p - 1 \notin Range(path) THEN p
                   ELSE IF at(p) = Len(path) THEN i + 1 ELSE path[at(p) + 1] + 1]
           s == [a \in 1 .. L |-> path[a] + 1]
<1>1. n \in Nat /\ DOMAIN A = 1 .. n /\ hLen \in Nat /\ hLen \in 0 .. n
  BY LenProperties
<1>2. path \in Paths(hLen, D, i)
  BY <1>1, SiftPathPaths
<1>3. AdjustHeap(A, hLen, i, Node_Rank) = [p \in 1 .. n |-> A[q[p]]]
  <2>1. AdjustHeap(A, hLen, i, Node_Rank)
          = [p \in DOMAIN A |->
               IF p - 1 \notin Range(path) THEN A[p]
               ELSE IF at(p) = Len(path) THEN A[i + 1] ELSE A[path[at(p) + 1] + 1]]
    BY DEF AdjustHeap
  <2> HIDE DEF path, at
  <2> QED
    BY <1>1, <2>1
<1> HIDE DEF path, D, n
<1>4. /\ path \in Seq(i .. hLen - 1) /\ L >= 1 /\ path[1] = i
      /\ \A a, b \in 1 .. L : a < b => path[a] < path[b]
  BY <1>2 DEF Paths
<1>5. L \in Nat /\ DOMAIN path = 1 .. L /\ path \in [1 .. L -> i .. hLen - 1]
  BY <1>4, LenProperties
<1>6. L = Len(path)
  OBVIOUS
<1> HIDE DEF L
<1>7. \A a \in 1 .. L : path[a] \in 0 .. hLen - 1
  BY <1>1, <1>5
<1>8. \A a, b \in 1 .. L : path[a] = path[b] => a = b
  BY <1>4, <1>5, <1>7
<1>9. s \in [1 .. L -> 1 .. hLen] /\ \A a, b \in 1 .. L : s[a] = s[b] => a = b
  BY <1>7, <1>8
<1>10. ASSUME NEW a \in 1 .. L
       PROVE  q[s[a]] = IF a = L THEN s[1] ELSE s[a + 1]
  <2> DEFINE p == s[a]
  <2>1. p \in 1 .. n /\ p - 1 = path[a]
    BY <1>1, <1>7
  <2>2. p - 1 \in Range(path)
    BY <1>5, <2>1 DEF Range
  <2>3. at(p) \in DOMAIN path /\ path[at(p)] = p - 1
    BY <1>5, <2>1
  <2>4. at(p) = a
    BY <1>5, <1>8, <2>1, <2>3
  <2> HIDE DEF at, p
  <2>5. q[p] = IF a = L THEN i + 1 ELSE path[a + 1] + 1
    BY <1>6, <2>1, <2>2, <2>4
  <2>6. a # L => a + 1 \in 1 .. L
    BY <1>5
  <2>7. 1 \in 1 .. L
    BY <1>4, <1>5
  <2> QED
    BY <1>4, <2>5, <2>6, <2>7 DEF p
<1>11. ASSUME NEW p \in 1 .. n, \A a \in 1 .. L : s[a] # p
       PROVE  q[p] = p
  <2>1. p - 1 \notin Range(path)
    BY <1>5, <1>7, <1>11 DEF Range
  <2> QED
    BY <2>1
<1>12. q = [p \in 1 .. n |-> q[p]]
  OBVIOUS
<1>13. L \in Nat \ {0}
  BY <1>4, <1>5
<1> HIDE DEF q, s
<1>14. Rotates(n, hLen, L, s, q)
  BY <1>9, <1>10, <1>11, <1>12 DEF Rotates
<1>15. q \in Perms(n, hLen)
  BY <1>1, <1>13, <1>14, RotationPermutes
<1> QED
  BY <1>3, <1>15 DEF Rearranged, n

\* What a rearrangement keeps.
LEMMA RearrangedFacts ==
  ASSUME NEW E, NEW A \in Seq(E), NEW B, NEW m, Rearranged(A, B, m)
  PROVE  /\ B \in Seq(E)
         /\ Len(B) = Len(A)
<1>1. PICK q \in Perms(Len(A), m) : B = [k \in 1 .. Len(A) |-> A[q[k]]]
  BY DEF Rearranged
<1>2. Len(A) \in Nat /\ A \in [1 .. Len(A) -> E] /\ q \in [1 .. Len(A) -> 1 .. Len(A)]
  BY LenProperties DEF Perms
<1>3. B \in [1 .. Len(A) -> E]
  BY <1>1, <1>2
<1>4. B \in Seq(E)
  BY <1>2, <1>3, SeqDef
<1>5. DOMAIN B = 1 .. Len(B) /\ Len(B) \in Nat
  BY <1>4, LenProperties
<1> QED
  BY <1>2, <1>3, <1>4, <1>5

\* An array is a rearrangement of itself.
LEMMA RearrangedSelf ==
  ASSUME NEW E, NEW A \in Seq(E), NEW m \in Nat
  PROVE  Rearranged(A, A, m)
<1> DEFINE q == [k \in 1 .. Len(A) |-> k]
<1>1. Len(A) \in Nat /\ A \in [1 .. Len(A) -> E]
  BY LenProperties
<1>2. q \in Perms(Len(A), m)
  BY <1>1 DEF Perms
<1>3. A = [k \in 1 .. Len(A) |-> A[q[k]]]
  BY <1>1
<1> QED
  BY <1>2, <1>3 DEF Rearranged

\* A rearrangement of a rearrangement is a rearrangement.
LEMMA RearrangedTwice ==
  ASSUME NEW E, NEW A \in Seq(E), NEW B, NEW C, NEW m \in Nat,
         Rearranged(A, B, m), Rearranged(B, C, m)
  PROVE  Rearranged(A, C, m)
<1> DEFINE n == Len(A)
<1>1. n \in Nat
  BY LenProperties
<1>2. PICK q \in Perms(n, m) : B = [k \in 1 .. n |-> A[q[k]]]
  BY DEF Rearranged
<1>3. PICK r \in Perms(n, m) : C = [k \in 1 .. n |-> B[r[k]]]
  BY RearrangedFacts DEF Rearranged
<1> HIDE DEF n
<1> DEFINE t == [k \in 1 .. n |-> q[r[k]]]
<1>4. /\ q \in [1 .. n -> 1 .. n] /\ r \in [1 .. n -> 1 .. n]
      /\ \A a, b \in 1 .. n : q[a] = q[b] => a = b
      /\ \A a, b \in 1 .. n : r[a] = r[b] => a = b
      /\ \A a \in 1 .. n : \E b \in 1 .. n : q[b] = a
      /\ \A a \in 1 .. n : \E b \in 1 .. n : r[b] = a
      /\ \A a \in 1 .. n : IF a <= m THEN q[a] <= m ELSE q[a] = a
      /\ \A a \in 1 .. n : IF a <= m THEN r[a] <= m ELSE r[a] = a
  BY DEF Perms
<1>5. t \in [1 .. n -> 1 .. n]
  BY <1>4
<1>6. \A a, b \in 1 .. n : t[a] = t[b] => a = b
  BY <1>4
<1>7. ASSUME NEW a \in 1 .. n
      PROVE  \E b \in 1 .. n : t[b] = a
  <2>1. PICK c \in 1 .. n : q[c] = a
    BY <1>4
  <2>2. PICK b \in 1 .. n : r[b] = c
    BY <1>4
  <2>3. t[b] = a
    BY <2>1, <2>2
  <2> QED
    BY <2>3
<1>8. \A a \in 1 .. n : IF a <= m THEN t[a] <= m ELSE t[a] = a
  BY <1>4
<1>9. C = [k \in 1 .. n |-> A[t[k]]]
  BY <1>2, <1>3, <1>4
<1> HIDE DEF t
<1>10. t \in Perms(n, m)
  BY <1>5, <1>6, <1>7, <1>8 DEF Perms
<1> QED
  BY <1>9, <1>10 DEF Rearranged, n

\* The arrays a heap of hLen moves goes through.
Arrays(E, A, hLen) == {B \in Seq(E) : Rearranged(A, B, hLen)}

\* AdjustHeap keeps an array a rearrangement of the one it was made from.
LEMMA ArraysAdjusted ==
  ASSUME NEW E, NEW A \in Seq(E), NEW hLen \in 0 .. Len(A), NEW B \in Arrays(E, A, hLen),
         NEW i \in 0 .. hLen - 1, NEW Node_Rank
  PROVE  AdjustHeap(B, hLen, i, Node_Rank) \in Arrays(E, A, hLen)
<1>1. B \in Seq(E) /\ Rearranged(A, B, hLen) /\ Len(B) = Len(A)
  BY RearrangedFacts DEF Arrays
<1>2. Rearranged(B, AdjustHeap(B, hLen, i, Node_Rank), hLen)
  BY <1>1, AdjustHeapRearranges
<1>3. hLen \in Nat
  BY LenProperties
<1> QED
  BY <1>1, <1>2, <1>3, RearrangedFacts, RearrangedTwice DEF Arrays

\* What BuildHeap goes through: from the last inner position to the root every
\* position is adjusted once.
HeapCourses(E, A, hLen, Node_Rank) ==
  {h \in [0 .. hLen \div 2 -> Arrays(E, A, hLen)] :
     /\ h[hLen \div 2] = A
     /\ \A i \in 0 .. hLen \div 2 - 1 : h[i] = AdjustHeap(h[i + 1], hLen, i, Node_Rank)
     /\ h[0] = BuildHeap(A, hLen, Node_Rank)}

\* The loop of BuildHeap can be run to its end, rearranging at every iteration.
LEMMA BuildHeapCourse ==
  ASSUME NEW E, NEW A \in Seq(E), NEW hLen \in 0 .. Len(A), NEW Node_Rank
  PROVE  HeapCourses(E, A, hLen, Node_Rank) # {}
<1> DEFINE m == hLen \div 2
           S == Arrays(E, A, hLen)
           Adj(B, i) == AdjustHeap(B, hLen, i, Node_Rank)
           d == [t \in S \X (1 .. m) |-> Adj(t[1], m - t[2])]
           Built == CHOOSE F : F = [i \in 0 .. m |-> IF i = m THEN A ELSE Adj(F[i + 1], i)]
<1>1. BuildHeap(A, hLen, Node_Rank) = Built[0]
  BY DEF BuildHeap
<1>2. hLen \in Nat /\ m \in Nat /\ m <= hLen
  BY LenProperties
<1>3. A \in S
  BY <1>2, RearrangedSelf DEF Arrays
<1>4. \A B \in S, i \in 0 .. m - 1 : Adj(B, i) \in S
  BY <1>2, ArraysAdjusted
<1> HIDE DEF m, S, Adj
<1>5. d \in Bodies(S, m)
  <2>1. \A k \in 1 .. m : m - k \in 0 .. m - 1
    BY <1>2
  <2> QED
    BY <1>4, <2>1 DEF Bodies
<1>6. PICK c : c \in Courses(S, A, m, d)
  <2> HIDE DEF d
  <2> QED
    BY <1>2, <1>3, <1>5, LoopExists
<1>7. c \in [0 .. m -> S] /\ c[0] = A /\ \A k \in 1 .. m : c[k] = d[<<c[k - 1], k>>]
  BY <1>6 DEF Courses
<1>8. ASSUME NEW k \in 1 .. m
      PROVE  c[k] = Adj(c[k - 1], m - k)
  <2>1. <<c[k - 1], k>> \in S \X (1 .. m)
    BY <1>2, <1>7
  <2> QED
    BY <1>7, <2>1
<1> DEFINE f == [i \in 0 .. m |-> c[m - i]]
<1>9. f = [i \in 0 .. m |-> IF i = m THEN A ELSE Adj(f[i + 1], i)]
  <2>1. ASSUME NEW i \in 0 .. m
        PROVE  c[m - i] = IF i = m THEN A ELSE Adj(f[i + 1], i)
    <3>1. CASE i = m
      BY <1>2, <1>7, <3>1
    <3>2. CASE i # m
      <4>1. m - i \in 1 .. m /\ m - (m - i) = i /\ (m - i) - 1 = m - (i + 1) /\ i + 1 \in 0 .. m
        BY <1>2, <3>2
      <4>2. c[m - i] = Adj(c[(m - i) - 1], m - (m - i))
        BY <1>8, <4>1
      <4> QED
        BY <3>2, <4>1, <4>2
    <3> QED
      BY <3>1, <3>2
  <2> QED
    BY <2>1
<1>10. Built = [i \in 0 .. m |-> IF i = m THEN A ELSE Adj(Built[i + 1], i)]
  <2> HIDE DEF f, d
  <2> QED
    BY <1>9, Zenon
<1> HIDE DEF Built
<1>11. Built[m] = A /\ \A i \in 0 .. m - 1 : Built[i] = Adj(Built[i + 1], i)
  <2>1. m \in 0 .. m /\ \A i \in 0 .. m - 1 : i \in 0 .. m /\ i # m
    BY <1>2
  <2> QED
    BY <1>10, <2>1
<1> DEFINE T == {k \in Nat : k <= m => Built[m - k] \in S}
<1>12. 0 \in T
  BY <1>2, <1>3, <1>11
<1>13. ASSUME NEW k \in Nat, k \in T
       PROVE  k + 1 \in T
  <2>1. SUFFICES ASSUME k + 1 <= m PROVE Built[m - (k + 1)] \in S
    OBVIOUS
  <2>2. m - (k + 1) \in 0 .. m - 1 /\ (m - (k + 1)) + 1 = m - k /\ k <= m
    BY <1>2, <2>1
  <2>3. Built[m - k] \in S
    BY <1>13, <2>2
  <2>4. Built[m - (k + 1)] = Adj(Built[m - k], m - (k + 1))
    BY <1>11, <2>2
  <2> QED
    BY <1>4, <2>2, <2>3, <2>4
<1>14. \A k \in Nat : k \in T
  <2> HIDE DEF T
  <2> QED
    BY <1>12, <1>13, NatSetInduction
<1>15. \A i \in 0 .. m : Built[i] \in S
  <2> SUFFICES ASSUME NEW i \in 0 .. m PROVE Built[i] \in S
    OBVIOUS
  <2>1. m - i \in Nat /\ m - i <= m /\ m - (m - i) = i
    BY <1>2
  <2> QED
    BY <1>14, <2>1
<1>16. Built \in [0 .. m -> S]
  BY <1>10, <1>15
<1>17. Built \in HeapCourses(E, A, hLen, Node_Rank)
  BY <1>1, <1>11, <1>16 DEF HeapCourses, m, S, Adj
<1> QED
  BY <1>17

\* BuildHeap rearranges the heap and leaves the entries behind it alone.
LEMMA BuildHeapRearranges ==
  ASSUME NEW E, NEW A \in Seq(E), NEW hLen \in 0 .. Len(A), NEW Node_Rank
  PROVE  BuildHeap(A, hLen, Node_Rank) \in Arrays(E, A, hLen)
<1>1. PICK h : h \in HeapCourses(E, A, hLen, Node_Rank)
  BY BuildHeapCourse
<1>2. 0 \in 0 .. hLen \div 2
  BY LenProperties
<1> QED
  BY <1>1, <1>2 DEF HeapCourses

\* getMax rearranges the heap too, whether it is built anew or not.
LEMMA getMaxRearranges ==
  ASSUME NEW E, NEW A \in Seq(E), NEW hLen \in 1 .. Len(A), NEW renew \in BOOLEAN,
         NEW Node_Rank
  PROVE  getMax(A, hLen, renew, Node_Rank) \in Arrays(E, A, hLen)
<1>1. hLen \in 0 .. Len(A) /\ 0 \in 0 .. hLen - 1 /\ Len(A) \in Nat
  BY LenProperties
<1>2. CASE ~ renew
  <2>1. A \in Arrays(E, A, hLen)
    BY <1>1, RearrangedSelf DEF Arrays
  <2>2. AdjustHeap(A, hLen, 0, Node_Rank) \in Arrays(E, A, hLen)
    BY <1>1, <2>1, ArraysAdjusted
  <2> QED
    BY <1>2, <2>2 DEF getMax
<1>3. CASE renew
  <2> DEFINE B == BuildHeap(A, hLen, Node_Rank)
             C == [B EXCEPT ![hLen] = B[1], ![1] = B[hLen]]
             n == Len(A)
             q == [k \in 1 .. n |-> IF k = 1 THEN hLen ELSE IF k = hLen THEN 1 ELSE k]
  <2>1. getMax(A, hLen, renew, Node_Rank) = C
    BY <1>3 DEF getMax
  <2>2. B \in Arrays(E, A, hLen)
    BY <1>1, BuildHeapRearranges
  <2> HIDE DEF B
  <2>3. B \in Seq(E) /\ Rearranged(A, B, hLen) /\ Len(B) = n
    BY <2>2, RearrangedFacts DEF Arrays
  <2>4. B \in [1 .. n -> E] /\ n \in Nat /\ hLen \in 1 .. n
    BY <2>3, LenProperties
  <2> HIDE DEF n
  <2>5. C = [k \in 1 .. n |-> B[q[k]]]
    BY <2>4
  <2>6. q \in Perms(n, hLen)
    <3>1. q \in [1 .. n -> 1 .. n]
      BY <2>4
    <3>2. \A a, b \in 1 .. n : q[a] = q[b] => a = b
      BY <2>4
    <3>3. ASSUME NEW a \in 1 .. n PROVE \E b \in 1 .. n : q[b] = a
      <4>1. q[q[a]] = a /\ q[a] \in 1 .. n
        BY <2>4
      <4> QED
        BY <4>1
    <3>4. \A a \in 1 .. n : IF a <= hLen THEN q[a] <= hLen ELSE q[a] = a
      BY <2>4
    <3> QED
      BY <3>1, <3>2, <3>3, <3>4 DEF Perms
  <2> HIDE DEF C, q
  <2>7. Rearranged(B, C, hLen)
    BY <2>3, <2>5, <2>6 DEF Rearranged
  <2>8. Rearranged(A, C, hLen)
    BY <1>1, <2>3, <2>7, RearrangedTwice
  <2>9. C \in Seq(E)
    BY <2>8, RearrangedFacts
  <2> QED
    BY <2>1, <2>8, <2>9 DEF Arrays
<1> QED
  BY <1>2, <1>3

-----------------------------------------------------------------------------
(***************************************************************************)
(* The heap of moves is a heap.                                            *)
(***************************************************************************)

\* Better orders the entries E: of two entries at most one is better, and entries
\* between which neither is better are interchangeable.
Ranks(E, Node_Rank) ==
  \A x, y, z \in E :
    /\ Better(x, y, Node_Rank) \in BOOLEAN
    /\ Better(x, y, Node_Rank) => ~ Better(y, x, Node_Rank)
    /\ ~ Better(x, y, Node_Rank) /\ ~ Better(y, z, Node_Rank) => ~ Better(x, z, Node_Rank)

\* Entry x goes from position j to d: its best child, when that is better, or j.
Sinking(A, hLen, x, j, d, Node_Rank) ==
  /\ d \in {j, 2 * j + 1, 2 * j + 2}
  /\ d \in 0 .. hLen - 1
  /\ d = j => \A c \in {2 * j + 1, 2 * j + 2} : c < hLen => ~ Better(A[c + 1], x, Node_Rank)
  /\ d # j => /\ Better(A[d + 1], x, Node_Rank)
              /\ \A c \in {2 * j + 1, 2 * j + 2} :
                   c < hLen => ~ Better(A[c + 1], A[d + 1], Node_Rank)

\* The comparisons of AdjustHeap find the best of an entry and its two children.
LEMMA DownFacts ==
  ASSUME NEW E, NEW Node_Rank, Ranks(E, Node_Rank), NEW A \in Seq(E), NEW hLen \in 0 .. Len(A),
         NEW x \in E, NEW j \in 0 .. hLen - 1
  PROVE  Sinking(A, hLen, x, j, Down(A, hLen, x, j, Node_Rank), Node_Rank)
<1> DEFINE d == Down(A, hLen, x, j, Node_Rank)
           l == 2 * j + 1
           r == 2 * j + 2
           B(u, v) == Better(u, v, Node_Rank)
<1>1. hLen \in Nat /\ Len(A) \in Nat /\ \A k \in 1 .. Len(A) : A[k] \in E
  BY LenProperties
<1>2. l \in Nat /\ r \in Nat /\ l # j /\ r # j /\ l # r /\ l + 1 # r + 1
  OBVIOUS
<1>3. (l < hLen => A[l + 1] \in E) /\ (r < hLen => A[r + 1] \in E) /\ (r < hLen => l < hLen)
  BY <1>1
<1>4. d = LET m    == IF l < hLen /\ B(A[l + 1], x) THEN l ELSE j
              best == IF m = j THEN x ELSE A[m + 1]
          IN  IF r < hLen /\ B(A[r + 1], best) THEN r ELSE m
  BY DEF Down
<1> SUFFICES Sinking(A, hLen, x, j, d, Node_Rank)
  OBVIOUS
<1> HIDE DEF d, l, r, B
<1>5. \A u, v, w \in E :
        /\ B(u, v) => ~ B(v, u)
        /\ ~ B(u, v) /\ ~ B(v, w) => ~ B(u, w)
        /\ ~ B(u, u)
  BY DEF Ranks, B
<1>6. /\ d \in {j, l, r}
      /\ d = l => l < hLen
      /\ d = r => r < hLen
  BY <1>2, <1>4
<1>7. CASE l < hLen /\ B(A[l + 1], x)
  <2>1. CASE r < hLen /\ B(A[r + 1], A[l + 1])
    <3>1. d = r
      BY <1>2, <1>4, <1>7, <2>1
    <3>2. B(A[r + 1], x)
      BY <1>3, <1>5, <1>7, <2>1
    <3>3. ~ B(A[l + 1], A[r + 1]) /\ ~ B(A[r + 1], A[r + 1])
      BY <1>3, <1>5, <1>7, <2>1
    <3> QED
      BY <1>1, <1>2, <2>1, <3>1, <3>2, <3>3 DEF Sinking, l, r, B
  <2>2. CASE ~ (r < hLen /\ B(A[r + 1], A[l + 1]))
    <3>1. d = l
      BY <1>2, <1>4, <1>7, <2>2
    <3>2. ~ B(A[l + 1], A[l + 1])
      BY <1>3, <1>5, <1>7
    <3> QED
      BY <1>1, <1>2, <1>7, <2>2, <3>1, <3>2 DEF Sinking, l, r, B
  <2> QED
    BY <2>1, <2>2
<1>8. CASE ~ (l < hLen /\ B(A[l + 1], x))
  <2>1. CASE r < hLen /\ B(A[r + 1], x)
    <3>1. d = r
      BY <1>2, <1>4, <1>8, <2>1
    <3>2. ~ B(A[l + 1], A[r + 1]) /\ ~ B(A[r + 1], A[r + 1])
      BY <1>3, <1>5, <1>8, <2>1
    <3> QED
      BY <1>1, <1>2, <2>1, <3>1, <3>2 DEF Sinking, l, r, B
  <2>2. CASE ~ (r < hLen /\ B(A[r + 1], x))
    <3>1. d = j
      BY <1>2, <1>4, <1>8, <2>2
    <3> QED
      BY <1>1, <1>8, <2>2, <3>1 DEF Sinking, l, r, B
  <2> QED
    BY <2>1, <2>2
<1> QED
  BY <1>7, <1>8

\* AdjustHeap moves the entries on a path up one place, and no other.
LEMMA AdjustHeapMoves ==
  ASSUME NEW E, NEW A \in Seq(E), NEW hLen \in 0 .. Len(A), NEW i \in 0 .. hLen - 1,
         NEW Node_Rank
  PROVE  LET B    == AdjustHeap(A, hLen, i, Node_Rank)
             path == SiftPath(A, hLen, i, Node_Rank)
         IN  /\ \A a \in 1 .. Len(path) :
                  B[path[a] + 1] = IF a = Len(path) THEN A[i + 1] ELSE A[path[a + 1] + 1]
             /\ \A p \in 0 .. hLen - 1 :
                  (\A a \in 1 .. Len(path) : path[a] # p) => B[p + 1] = A[p + 1]
<1> DEFINE n == Len(A)
           D == DownFcn(A, hLen, A[i + 1], Node_Rank)
           path == SiftPath(A, hLen, i, Node_Rank)
           B == AdjustHeap(A, hLen, i, Node_Rank)
           L == Len(path)
           at(p) == CHOOSE m \in DOMAIN path : path[m] = p - 1
<1>1. n \in Nat /\ DOMAIN A = 1 .. n /\ hLen \in Nat /\ hLen \in 0 .. n
  BY LenProperties
<1>2. path \in Paths(hLen, D, i)
  BY <1>1, SiftPathPaths
<1>3. B = [p \in 1 .. n |->
             IF p - 1 \notin Range(path) THEN A[p]
             ELSE IF at(p) = Len(path) THEN A[i + 1] ELSE A[path[at(p) + 1] + 1]]
  BY <1>1 DEF AdjustHeap
<1> HIDE DEF path, D, n, B
<1>4. /\ path \in Seq(i .. hLen - 1)
      /\ \A a, b \in 1 .. L : a < b => path[a] < path[b]
  BY <1>2 DEF Paths
<1>5. L \in Nat /\ DOMAIN path = 1 .. L /\ path \in [1 .. L -> i .. hLen - 1]
  BY <1>4, LenProperties
<1>6. L = Len(path)
  OBVIOUS
<1> HIDE DEF L
<1>7. \A a \in 1 .. L : path[a] \in 0 .. hLen - 1
  BY <1>1, <1>5
<1>8. \A a, b \in 1 .. L : path[a] = path[b] => a = b
  BY <1>4, <1>5, <1>7
<1>9. ASSUME NEW a \in 1 .. L
      PROVE  B[path[a] + 1] = IF a = L THEN A[i + 1] ELSE A[path[a + 1] + 1]
  <2> DEFINE p == path[a] + 1
  <2>1. p \in 1 .. n /\ p - 1 = path[a]
    BY <1>1, <1>7
  <2>2. p - 1 \in Range(path)
    BY <1>5, <2>1 DEF Range
  <2>3. at(p) \in DOMAIN path /\ path[at(p)] = p - 1
    BY <1>5, <2>1
  <2>4. at(p) = a
    BY <1>5, <1>8, <2>1, <2>3
  <2> HIDE DEF at, p
  <2>5. B[p] = IF a = L THEN A[i + 1] ELSE A[path[a + 1] + 1]
    BY <1>3, <1>6, <2>1, <2>2, <2>4
  <2> QED
    BY <2>5 DEF p
<1>10. ASSUME NEW p \in 0 .. hLen - 1, \A a \in 1 .. L : path[a] # p
       PROVE  B[p + 1] = A[p + 1]
  <2>1. p + 1 \in 1 .. n /\ (p + 1) - 1 = p
    BY <1>1
  <2>2. p \notin Range(path)
    BY <1>5, <1>10 DEF Range
  <2> QED
    BY <1>3, <2>1, <2>2
<1> QED
  BY <1>6, <1>9, <1>10 DEF path, B

\* From position i on, no entry is better than the one above it.
HeapFrom(A, hLen, i, Node_Rank) ==
  \A j \in i .. hLen - 1 : \A c \in {2 * j + 1, 2 * j + 2} :
    c < hLen => ~ Better(A[c + 1], A[j + 1], Node_Rank)

\* AdjustHeap extends the heap by one position.
LEMMA AdjustHeapOrders ==
  ASSUME NEW E, NEW Node_Rank, Ranks(E, Node_Rank), NEW A \in Seq(E), NEW hLen \in 0 .. Len(A),
         NEW i \in 0 .. hLen - 1, HeapFrom(A, hLen, i + 1, Node_Rank)
  PROVE  HeapFrom(AdjustHeap(A, hLen, i, Node_Rank), hLen, i, Node_Rank)
<1> DEFINE D == DownFcn(A, hLen, A[i + 1], Node_Rank)
           path == SiftPath(A, hLen, i, Node_Rank)
           B == AdjustHeap(A, hLen, i, Node_Rank)
           L == Len(path)
           x == A[i + 1]
           Kids(j) == {2 * j + 1, 2 * j + 2}
<1>1. hLen \in Nat /\ Len(A) \in Nat /\ x \in E /\ \A p \in 0 .. hLen - 1 : A[p + 1] \in E
  BY LenProperties
<1>2. path \in Paths(hLen, D, i)
  BY <1>1, SiftPathPaths
<1>3. /\ path \in Seq(i .. hLen - 1) /\ L >= 1 /\ path[1] = i
      /\ \A a, b \in 1 .. L : a < b => path[a] < path[b]
      /\ \A a \in 1 .. L : D[path[a]] = IF a = L THEN path[a] ELSE path[a + 1]
  BY <1>2 DEF Paths
<1>4. L \in Nat /\ \A a \in 1 .. L : path[a] \in i .. hLen - 1 /\ path[a] \in 0 .. hLen - 1
  BY <1>1, <1>3, LenProperties
<1>5. /\ \A a \in 1 .. L : B[path[a] + 1] = IF a = L THEN x ELSE A[path[a + 1] + 1]
      /\ \A p \in 0 .. hLen - 1 : (\A a \in 1 .. L : path[a] # p) => B[p + 1] = A[p + 1]
  BY AdjustHeapMoves
<1>6. ASSUME NEW j \in 0 .. hLen - 1
      PROVE  /\ D[j] \in {j} \cup Kids(j)
             /\ D[j] \in 0 .. hLen - 1
             /\ D[j] = j => \A c \in Kids(j) : c < hLen => ~ Better(A[c + 1], x, Node_Rank)
             /\ D[j] # j => /\ Better(A[D[j] + 1], x, Node_Rank)
                            /\ \A c \in Kids(j) :
                                 c < hLen => ~ Better(A[c + 1], A[D[j] + 1], Node_Rank)
  <2>1. D[j] = Down(A, hLen, x, j, Node_Rank)
    BY DEF DownFcn
  <2>2. Sinking(A, hLen, x, j, D[j], Node_Rank)
    <3> HIDE DEF D, x
    <3> QED
      BY <1>1, <2>1, DownFacts
  <2> HIDE DEF D, x
  <2> QED
    BY <2>2 DEF Sinking
<1> HIDE DEF D, path, B, L, x
<1>7. \A j \in i + 1 .. hLen - 1 : \A c \in Kids(j) :
        c < hLen => ~ Better(A[c + 1], A[j + 1], Node_Rank)
  BY DEF HeapFrom
<1>8. \A a \in 1 .. L : a # L => /\ a + 1 \in 1 .. L
                                 /\ path[a + 1] = D[path[a]]
                                 /\ path[a + 1] > path[a]
                                 /\ path[a + 1] \in Kids(path[a])
  <2> SUFFICES ASSUME NEW a \in 1 .. L, a # L
               PROVE  /\ a + 1 \in 1 .. L
                      /\ path[a + 1] = D[path[a]]
                      /\ path[a + 1] > path[a]
                      /\ path[a + 1] \in Kids(path[a])
    OBVIOUS
  <2>1. a + 1 \in 1 .. L /\ a < a + 1
    BY <1>4
  <2>2. path[a + 1] = D[path[a]]
    BY <1>3
  <2>3. path[a + 1] > path[a]
    BY <1>3, <1>4, <2>1
  <2>4. path[a + 1] # path[a]
    BY <1>4, <2>1, <2>3
  <2>5. D[path[a]] \in {path[a]} \cup Kids(path[a])
    BY <1>4, <1>6
  <2> QED
    BY <2>1, <2>2, <2>3, <2>4, <2>5
<1>9. \A j, k \in 0 .. hLen - 1 : Kids(j) \cap Kids(k) # {} => j = k
  OBVIOUS
<1>10. ASSUME NEW b \in 1 .. L, NEW j \in i .. hLen - 1, path[b] \in Kids(j)
       PROVE  \E a \in 1 .. L : a # L /\ path[a] = j /\ path[a + 1] = path[b]
  <2>1. b # 1
    BY <1>1, <1>3, <1>10
  <2>2. b - 1 \in 1 .. L /\ b - 1 # L /\ (b - 1) + 1 = b
    BY <1>4, <2>1
  <2>3. path[b] \in Kids(path[b - 1])
    BY <1>8, <2>2
  <2>4. path[b - 1] = j
    <3>1. j \in 0 .. hLen - 1 /\ path[b - 1] \in 0 .. hLen - 1
      BY <1>4, <2>2
    <3> QED
      BY <1>9, <1>10, <2>3, <3>1
  <2> QED
    BY <2>2, <2>4
<1>11. \A a, b \in 1 .. L : path[a] = path[b] => a = b
  BY <1>3, <1>4
<1>12. ASSUME NEW j \in i .. hLen - 1, NEW c \in Kids(j), c < hLen
       PROVE  ~ Better(B[c + 1], B[j + 1], Node_Rank)
  <2>1. j \in 0 .. hLen - 1 /\ c \in 0 .. hLen - 1 /\ c # j /\ c > j
    BY <1>1, <1>12
  <2>2. CASE \A a \in 1 .. L : path[a] # j
    <3>1. \A b \in 1 .. L : path[b] # c
      BY <1>10, <1>12, <2>2
    <3>2. j # i
      BY <1>3, <1>4, <2>2
    <3>3. j \in i + 1 .. hLen - 1
      BY <2>1, <3>2
    <3>4. B[j + 1] = A[j + 1] /\ B[c + 1] = A[c + 1]
      BY <1>5, <2>1, <2>2, <3>1
    <3> QED
      BY <1>7, <1>12, <3>3, <3>4
  <2>3. ASSUME NEW a \in 1 .. L, path[a] = j, a = L
        PROVE  ~ Better(B[c + 1], B[j + 1], Node_Rank)
    <3>1. \A b \in 1 .. L : path[b] # c
      <4> SUFFICES ASSUME NEW b \in 1 .. L, path[b] = c PROVE FALSE
        OBVIOUS
      <4>1. CASE b = L
        BY <2>1, <2>3, <4>1
      <4>2. CASE b # L
        <5>1. b < L
          BY <1>4, <4>2
        <5>2. path[b] < path[L]
          BY <1>3, <2>3, <5>1
        <5> QED
          BY <2>1, <2>3, <5>2
      <4> QED
        BY <4>1, <4>2
    <3>2. B[c + 1] = A[c + 1] /\ B[j + 1] = x
      BY <1>5, <2>1, <2>3, <3>1
    <3>3. D[j] = j
      BY <1>3, <2>3
    <3> QED
      BY <1>6, <1>12, <2>1, <3>2, <3>3
  <2>4. ASSUME NEW a \in 1 .. L, path[a] = j, a # L
        PROVE  ~ Better(B[c + 1], B[j + 1], Node_Rank)
    <3> DEFINE d == path[a + 1]
    <3>1. a + 1 \in 1 .. L /\ d = D[j] /\ d > j /\ d \in 0 .. hLen - 1 /\ d # j
      BY <1>4, <1>8, <2>1, <2>4
    <3>2. B[j + 1] = A[d + 1]
      BY <1>5, <2>4
    <3>3. /\ Better(A[d + 1], x, Node_Rank)
          /\ \A e \in Kids(j) : e < hLen => ~ Better(A[e + 1], A[d + 1], Node_Rank)
      BY <1>6, <2>1, <3>1
    <3>4. A[d + 1] \in E
      BY <1>1, <3>1
    <3> HIDE DEF d
    <3>5. CASE c # d
      <4>1. \A b \in 1 .. L : path[b] # c
        <5> SUFFICES ASSUME NEW b \in 1 .. L, path[b] = c PROVE FALSE
          OBVIOUS
        <5>1. PICK e \in 1 .. L : e # L /\ path[e] = j /\ path[e + 1] = path[b]
          BY <1>10
        <5>2. path[e] = path[a]
          BY <2>4, <5>1
        <5>3. e = a
          BY <1>11, <5>2
        <5> QED
          BY <3>5, <5>1, <5>3 DEF d
      <4>2. B[c + 1] = A[c + 1]
        BY <1>5, <2>1, <4>1
      <4> QED
        BY <1>12, <3>2, <3>3, <4>2
    <3>6. CASE c = d
      <4>1. CASE a + 1 = L
        <5>1. B[c + 1] = x
          BY <1>5, <3>1, <3>6, <4>1 DEF d
        <5> QED
          BY <1>1, <3>2, <3>3, <3>4, <5>1 DEF Ranks
      <4>2. CASE a + 1 # L
        <5> DEFINE e == path[(a + 1) + 1]
        <5>1. B[c + 1] = A[e + 1]
          BY <1>5, <3>1, <3>6, <4>2 DEF d
        <5>2. e \in Kids(d) /\ (a + 1) + 1 \in 1 .. L
          BY <1>8, <3>1, <4>2 DEF d
        <5>3. e < hLen
          BY <1>1, <1>4, <5>2
        <5>4. d \in i + 1 .. hLen - 1
          BY <1>1, <3>1
        <5> HIDE DEF e
        <5> QED
          BY <1>7, <3>2, <5>1, <5>2, <5>3, <5>4
      <4> QED
        BY <4>1, <4>2
    <3> QED
      BY <3>5, <3>6
  <2> QED
    BY <2>2, <2>3, <2>4
<1> QED
  BY <1>12 DEF HeapFrom, B

\* BuildHeap makes the array a heap.
LEMMA BuildHeapOrders ==
  ASSUME NEW E, NEW Node_Rank, Ranks(E, Node_Rank), NEW A \in Seq(E), NEW hLen \in 0 .. Len(A)
  PROVE  HeapFrom(BuildHeap(A, hLen, Node_Rank), hLen, 0, Node_Rank)
<1> DEFINE m == hLen \div 2
<1>1. hLen \in Nat /\ m \in Nat /\ m <= hLen /\ 2 * m + 1 >= hLen
  BY LenProperties
<1>2. PICK h : h \in HeapCourses(E, A, hLen, Node_Rank)
  BY BuildHeapCourse
<1>3. /\ h \in [0 .. m -> Arrays(E, A, hLen)]
      /\ h[m] = A
      /\ \A i \in 0 .. m - 1 : h[i] = AdjustHeap(h[i + 1], hLen, i, Node_Rank)
      /\ h[0] = BuildHeap(A, hLen, Node_Rank)
  BY <1>2 DEF HeapCourses
<1> HIDE DEF m
<1> DEFINE T == {k \in Nat : k <= m => HeapFrom(h[m - k], hLen, m - k, Node_Rank)}
<1>4. 0 \in T
  <2>1. HeapFrom(A, hLen, m, Node_Rank)
    BY <1>1 DEF HeapFrom
  <2>2. m - 0 = m
    BY <1>1
  <2> QED
    BY <1>3, <2>1, <2>2
<1>5. ASSUME NEW k \in Nat, k \in T
      PROVE  k + 1 \in T
  <2> SUFFICES ASSUME k + 1 <= m PROVE HeapFrom(h[m - (k + 1)], hLen, m - (k + 1), Node_Rank)
    OBVIOUS
  <2> DEFINE i == m - (k + 1)
             B == h[i + 1]
  <2>1. i \in 0 .. m - 1 /\ i + 1 = m - k /\ i + 1 \in 0 .. m /\ i \in 0 .. hLen - 1 /\ k <= m
    BY <1>1
  <2>2. HeapFrom(B, hLen, i + 1, Node_Rank)
    BY <1>5, <2>1
  <2>3. B \in Arrays(E, A, hLen)
    BY <1>3, <2>1
  <2>4. B \in Seq(E) /\ hLen \in 0 .. Len(B)
    BY <2>3, RearrangedFacts DEF Arrays
  <2>5. h[i] = AdjustHeap(B, hLen, i, Node_Rank)
    BY <1>3, <2>1
  <2> HIDE DEF i, B
  <2>6. HeapFrom(h[i], hLen, i, Node_Rank)
    BY <2>1, <2>2, <2>4, <2>5, AdjustHeapOrders
  <2> QED
    BY <2>6 DEF i
<1>6. \A k \in Nat : k \in T
  <2> HIDE DEF T
  <2> QED
    BY <1>4, <1>5, NatSetInduction
<1>7. m - m = 0
  BY <1>1
<1>8. HeapFrom(h[0], hLen, 0, Node_Rank)
  BY <1>1, <1>6, <1>7
<1> QED
  BY <1>3, <1>8

\* No entry of a heap is better than its root.
LEMMA RootBest ==
  ASSUME NEW E, NEW Node_Rank, Ranks(E, Node_Rank), NEW A \in Seq(E), NEW hLen \in 1 .. Len(A),
         HeapFrom(A, hLen, 0, Node_Rank)
  PROVE  \A p \in 0 .. hLen - 1 : ~ Better(A[p + 1], A[1], Node_Rank)
<1>1. hLen \in Nat /\ \A p \in 0 .. hLen - 1 : A[p + 1] \in E
  BY LenProperties
<1>2. A[1] \in E
  BY LenProperties
<1> DEFINE Below(n) == \A p \in 0 .. hLen - 1 : p < n => ~ Better(A[p + 1], A[1], Node_Rank)
           T == {n \in Nat : Below(n)}
<1>3. 0 \in T
  OBVIOUS
<1>4. ASSUME NEW n \in Nat, n \in T
      PROVE  n + 1 \in T
  <2> SUFFICES ASSUME NEW p \in 0 .. hLen - 1, p < n + 1
               PROVE  ~ Better(A[p + 1], A[1], Node_Rank)
    OBVIOUS
  <2>1. CASE p = 0
    <3>1. ~ Better(A[1], A[1], Node_Rank)
      BY <1>2 DEF Ranks
    <3> QED
      BY <2>1, <3>1
  <2>2. CASE p # 0
    <3> DEFINE j == (p - 1) \div 2
    <3>1. j \in 0 .. hLen - 1 /\ j < n /\ p \in {2 * j + 1, 2 * j + 2} /\ p < hLen
      BY <1>1, <2>2
    <3> HIDE DEF j
    <3>2. ~ Better(A[p + 1], A[j + 1], Node_Rank)
      BY <3>1 DEF HeapFrom
    <3>3. ~ Better(A[j + 1], A[1], Node_Rank)
      BY <1>4, <3>1
    <3>4. A[p + 1] \in E /\ A[j + 1] \in E
      BY <1>1, <3>1
    <3> QED
      BY <1>2, <3>2, <3>3, <3>4 DEF Ranks
  <2> QED
    BY <2>1, <2>2
<1>5. \A n \in Nat : n \in T
  <2> HIDE DEF T
  <2> QED
    BY <1>3, <1>4, NatSetInduction
<1>6. Below(hLen)
  BY <1>1, <1>5
<1> QED
  BY <1>1, <1>6

\* The entry getMax takes from a heap it builds is one that no other is better than.
LEMMA getMaxBest ==
  ASSUME NEW E, NEW Node_Rank, Ranks(E, Node_Rank), NEW A \in Seq(E), NEW hLen \in 1 .. Len(A)
  PROVE  \A k \in 1 .. hLen : ~ Better(A[k], getMax(A, hLen, TRUE, Node_Rank)[hLen], Node_Rank)
<1> DEFINE B == BuildHeap(A, hLen, Node_Rank)
           n == Len(A)
<1>1. n \in Nat /\ hLen \in 0 .. n /\ hLen \in 1 .. n
  BY LenProperties
<1>2. B \in Arrays(E, A, hLen)
  BY <1>1, BuildHeapRearranges
<1>3. HeapFrom(B, hLen, 0, Node_Rank)
  BY <1>1, BuildHeapOrders
<1>4. getMax(A, hLen, TRUE, Node_Rank) = [B EXCEPT ![hLen] = B[1], ![1] = B[hLen]]
  BY DEF getMax
<1> HIDE DEF B
<1>5. B \in Seq(E) /\ Rearranged(A, B, hLen) /\ Len(B) = n
  BY <1>2, RearrangedFacts DEF Arrays
<1>6. DOMAIN B = 1 .. n
  BY <1>5, LenProperties
<1>7. getMax(A, hLen, TRUE, Node_Rank)[hLen] = B[1]
  <2>1. 1 \in DOMAIN B /\ hLen \in DOMAIN B
    BY <1>1, <1>6
  <2> QED
    BY <1>4, <2>1
<1>8. \A p \in 0 .. hLen - 1 : ~ Better(B[p + 1], B[1], Node_Rank)
  BY <1>1, <1>3, <1>5, RootBest
<1> HIDE DEF n
<1>9. ASSUME NEW k \in 1 .. hLen
      PROVE  ~ Better(A[k], B[1], Node_Rank)
  <2>1. PICK q \in Perms(n, hLen) : B = [a \in 1 .. n |-> A[q[a]]]
    BY <1>5 DEF Rearranged, n
  <2>2. /\ \A a \in 1 .. n : \E b \in 1 .. n : q[b] = a
        /\ \A a \in 1 .. n : IF a <= hLen THEN q[a] <= hLen ELSE q[a] = a
    BY DEF Perms
  <2>3. PICK b \in 1 .. n : q[b] = k
    <3>1. k \in 1 .. n
      BY <1>1
    <3> QED
      BY <2>2, <3>1
  <2>4. b <= hLen
    BY <1>1, <2>2, <2>3
  <2>5. B[b] = A[k] /\ b - 1 \in 0 .. hLen - 1 /\ (b - 1) + 1 = b
    BY <1>1, <2>1, <2>3, <2>4
  <2> QED
    BY <1>8, <2>5
<1> QED
  BY <1>7, <1>9

=============================================================================
