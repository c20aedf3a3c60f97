------------------------------ MODULE HeapSort ------------------------------
(***************************************************************************)
(* CHeapSort: the heap of moves.  A is an array of records [node, dMod];   *)
(* its first hLen entries are the heap.  Positions count from 0 as in the  *)
(* code, so position i is A[i + 1].                                        *)
(***************************************************************************)
EXTENDS Integers, Sequences, Functions

\* x is the better move: the larger modularity, then the smaller Node_Rank.
Better(x, y, Node_Rank) ==
  \/ x.dMod > y.dMod
  \/ x.dMod = y.dMod /\ Node_Rank[x.node] < Node_Rank[y.node]

\* Where entry x goes from position j: to the better child, when that child is
\* better than x.
Down(A, hLen, x, j, Node_Rank) ==
  LET left  == 2 * j + 1
      right == 2 * j + 2
      l     == IF left < hLen /\ Better(A[left + 1], x, Node_Rank) THEN left ELSE j
      best  == IF l = j THEN x ELSE A[l + 1]
  IN  IF right < hLen /\ Better(A[right + 1], best, Node_Rank) THEN right ELSE l

\* The positions entry i takes as it sinks.
SiftPath(A, hLen, i, Node_Rank) ==
  LET Path[j \in 0 .. hLen - 1] ==
        LET d == Down(A, hLen, A[i + 1], j, Node_Rank)
        IN  IF d = j THEN <<j>> ELSE <<j>> \o Path[d]
  IN  Path[i]

\* The sift of AdjustHeap: every entry on the path moves up one place, and the
\* entry that sinks takes the last.
AdjustHeap(A, hLen, i, Node_Rank) ==
  LET path == SiftPath(A, hLen, i, Node_Rank)
  IN  [p \in DOMAIN A |->
         IF p - 1 \notin Range(path) THEN A[p]
         ELSE LET k == CHOOSE m \in DOMAIN path : path[m] = p - 1
              IN  IF k = Len(path) THEN A[i + 1] ELSE A[path[k + 1] + 1]]

\* Faulty: the root is left where it is.
FaultyBuildHeap(A, hLen, Node_Rank) ==
  LET Built[i \in 1 .. hLen \div 2 + 1] ==
        IF i >= hLen \div 2 THEN A ELSE AdjustHeap(Built[i + 1], hLen, i, Node_Rank)
  IN  Built[1]

\* Every inner position is adjusted, from the last to the root.
BuildHeap(A, hLen, Node_Rank) ==
  LET Built[i \in 0 .. hLen \div 2] ==
        IF i = hLen \div 2 THEN A ELSE AdjustHeap(Built[i + 1], hLen, i, Node_Rank)
  IN  Built[0]

\* Faulty: the root overwrites the last entry, which is lost.
FaultygetMax(A, hLen, renew, Node_Rank) ==
  IF renew
    THEN LET B == BuildHeap(A, hLen, Node_Rank) IN [B EXCEPT ![hLen] = B[1]]
    ELSE AdjustHeap(A, hLen, 0, Node_Rank)

\* getMax: when the gains were renewed the heap is built and its root changes
\* places with the last entry; otherwise only the root is adjusted.
getMax(A, hLen, renew, Node_Rank) ==
  IF renew
    THEN LET B == BuildHeap(A, hLen, Node_Rank)
         IN  [B EXCEPT ![hLen] = B[1], ![1] = B[hLen]]
    ELSE AdjustHeap(A, hLen, 0, Node_Rank)

=============================================================================
