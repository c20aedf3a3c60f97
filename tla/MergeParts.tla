----------------------------- MODULE MergeParts -----------------------------
(***************************************************************************)
(* CTestCaseCpp::mergeParts after dfsForWriteParts, and the numbering of   *)
(* the parts in doWriting, on top of module SplitTree: a testcase from its *)
(* hypergraph to partition.txt.  Parts of the split tree that share more   *)
(* than one edge are merged: mapForLastPart leads from a part that was     *)
(* merged to the part it was merged into, in chains.                       *)
(***************************************************************************)
EXTENDS SplitTree

VARIABLES
  mapForLastPart, \* a function on the parts that were merged
  label           \* what doWriting writes to partition.txt, vertex by vertex

mergeVars == <<mapForLastPart, label>>
vars      == <<splitVars, mergeVars>>

Init == SplitInit /\ mapForLastPart = <<>> /\ label = <<>>

Parts == 0 .. partnum - 1

\* The edges and the vertices of pHyper.
Edges == DOMAIN tree[1].eind
nvtxs == tree[1].n

\* Faulty: a chain is followed one step only.
FaultyChainEnds(map, n) == [k \in 0 .. n - 1 |-> IF k \in DOMAIN map THEN map[k] ELSE k]

\* The end of the chain of each of n parts.
ChainEnds(map, n) ==
  LET End[k \in 0 .. n - 1] == IF k \in DOMAIN map THEN End[map[k]] ELSE k
  IN  End

\* The part a part has become.
LastPart == ChainEnds(mapForLastPart, partnum)

\* Faulty: merges are not looked up.
FaultyPartsOf(e) == {part[v] : v \in Range(tree[1].eind[e])}

\* The parts an edge touches, after the merges so far.
PartsOf(e) == {LastPart[part[v]] : v \in Range(tree[1].eind[e])}

\* EdgesBetweenParts[i][j]
EdgesBetweenParts(i, j) == Cardinality({e \in Edges : {i, j} \subseteq PartsOf(e)})

\* The entries above the diagonal.
Pairs == {p \in Parts \X Parts : p[1] < p[2]}

Count(p) == EdgesBetweenParts(p[1], p[2])

\* The search for the largest entry: rows before columns, the first one wins.
FirstMost(p, S) ==
  \A q \in S : \/ Count(q) < Count(p)
               \/ /\ Count(q) = Count(p)
                  /\ (p[1] < q[1] \/ (p[1] = q[1] /\ p[2] <= q[2]))

\* Faulty: the larger number is kept.
FaultyMerged(map, p) ==
  [k \in DOMAIN map \cup {p[1]} |-> IF k \in DOMAIN map THEN map[k] ELSE p[2]]

\* map::insert of (n, m): an entry that is already there stays.
Merged(map, p) ==
  [k \in DOMAIN map \cup {p[2]} |-> IF k \in DOMAIN map THEN map[k] ELSE p[1]]

\* The entries the second search looks at: not in the row and not in the column
\* of the first result.
Others(p) == {q \in Pairs : q[1] # p[1] /\ q[2] # p[2]}

\* One round of the loop: the pair with the most common edges is merged, then
\* the best pair of the others, by the counts from before the first merge.
MergeRound ==
  /\ pc = "merge" /\ pMyGraph # 0
  /\ \E p \in Pairs :
       /\ FirstMost(p, Pairs) /\ Count(p) > 1
       /\ \/ \E q \in Others(p) :
               /\ FirstMost(q, Others(p)) /\ Count(q) > 1
               /\ mapForLastPart' = Merged(Merged(mapForLastPart, p), q)
          \/ /\ \A q \in Others(p) : Count(q) <= 1
             /\ mapForLastPart' = Merged(mapForLastPart, p)
  /\ UNCHANGED <<splitVars, label>>

\* Faulty: one common edge too many is put up with.
FaultyNoneLeft == \A p \in Pairs : Count(p) <= 2

NoneLeft == \A p \in Pairs : Count(p) <= 1

\* No pair has more than one common edge: the loop breaks.
EndMerge ==
  /\ pc = "merge" /\ pMyGraph # 0 /\ NoneLeft
  /\ pc' = "write"
  /\ UNCHANGED <<tree, subGraph, pMyGraph, part, partnum, mergeVars>>

\* pMyGraph was never set, as the root was not worth splitting.  Reading what it
\* points to ends the process, follows a ring of garbage for ever, or goes well by
\* luck, and one part leaves nothing to merge.
WildGraph ==
  /\ pc = "merge" /\ pMyGraph = 0
  /\ pc' \in {"write", "crash", "hang"}
  /\ UNCHANGED <<tree, subGraph, pMyGraph, part, partnum, mergeVars>>

\* Faulty: every vertex whose part is not the previous one's gets a new number.
FaultyWriteLine ==
  /\ pc = "write" /\ Len(label) < nvtxs
  /\ LET v == Len(label)
     IN  label' = Append(label,
                    IF v = 0 THEN 0
                    ELSE IF LastPart[part[v]] = LastPart[part[v - 1]] THEN label[v] ELSE label[v] + 1)
  /\ UNCHANGED <<splitVars, mapForLastPart>>

\* One line of partition.txt: a part met before keeps its number, a new one gets
\* the next (mapForWrite and iCnt).
WriteLine ==
  /\ pc = "write" /\ Len(label) < nvtxs
  /\ LET v     == Len(label)
         known == {u \in 0 .. v - 1 : LastPart[part[u]] = LastPart[part[v]]}
     IN  label' = Append(label,
                    IF known # {} THEN label[(CHOOSE u \in known : TRUE) + 1]
                                  ELSE Cardinality({LastPart[part[u]] : u \in 0 .. v - 1}))
  /\ UNCHANGED <<splitVars, mapForLastPart>>

EndWrite ==
  /\ pc = "write" /\ Len(label) = nvtxs
  /\ pc' = "done"
  /\ UNCHANGED <<tree, subGraph, pMyGraph, part, partnum, mergeVars>>

\* partition.txt is closed, or it will never be.
Closed == pc \in {"done", "crash", "hang"} /\ UNCHANGED vars

Next ==
  \/ SplitStep /\ UNCHANGED mergeVars
  \/ MergeRound \/ EndMerge \/ WildGraph \/ WriteLine \/ EndWrite \/ Closed

Spec == Init /\ [][Next]_vars

\* Sequential code that nothing blocks.
FairSpec == Spec /\ WF_vars(Next)

-----------------------------------------------------------------------------
(***************************************************************************)
(* Properties.                                                             *)
(***************************************************************************)

\* A merged part leads to a part with a smaller number.
Descends(map) == \A k \in DOMAIN map : k \in Nat /\ map[k] \in 0 .. k - 1

\* Every chain of mapForLastPart leads to smaller and smaller part numbers, so
\* the loops that follow it (in mergeParts and in doWriting) come to an end.
ChainsDescend == Descends(mapForLastPart)

\* mergeParts leaves its loop only when no two parts share more than one edge, and
\* its insert does nothing where an entry is already there: a pair it would merge is
\* of two parts neither of which was merged into another one before, so that no
\* round is in vain and the loop comes to an end.
NoRoundInVain ==
  pc = "merge" => \A p \in Pairs : Count(p) > 1 => {p[1], p[2]} \cap DOMAIN mapForLastPart = {}

\* In the end the parts written have at most one edge in common, two by two.
PartsApart ==
  pc = "done" =>
    \A a, b \in Range(label) :
      a # b => Cardinality({e \in Edges : {a, b} \subseteq {label[v + 1] : v \in Range(tree[1].eind[e])}}) <= 1

\* From the hypergraph to the file: the numbers written are 0, 1, 2, ... in the
\* order the parts first occur; classes that no split has parted get the same
\* number, and so do exactly those whose parts were merged.
LabelsInOrder ==
  /\ \A v \in 1 .. Len(label) : \A c \in 0 .. label[v] - 1 : \E u \in 1 .. v - 1 : label[u] = c
  /\ \A u, v \in 1 .. Len(label) :
       /\ label[u] = label[v] <=> LastPart[part[u - 1]] = LastPart[part[v - 1]]
       /\ (\E i \in Range(LeafSeq(tree)[1]) : {u - 1, v - 1} \subseteq Under(tree, i)) => label[u] = label[v]

\* The cutting of a testcase ends, although mergeParts leaves its loop only when no
\* two parts share more than one edge and the second pair of a round is chosen by
\* counts that the first merge has made stale; partition.txt has a line for every
\* class, unless the hypergraph was too small to be split.
PartitionWritten ==
  <>(\/ pc = "done" /\ Len(label) = nvtxs
     \/ pc \in {"crash", "hang"} /\ nvtxs < END_NUM)

=============================================================================
