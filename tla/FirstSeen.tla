----------------------------- MODULE FirstSeen ------------------------------
(***************************************************************************)
(* How the graph code collects vertices and edges: the idiom "push it      *)
(* unless a map says it was pushed before" (ExitInList, NodeExist,         *)
(* mapForG1), and the entries of a list that pass a test.                  *)
(***************************************************************************)
EXTENDS Integers, Sequences

\* The elements of s in the order they first occur.
FirstSeen(s) ==
  LET Seen[k \in 0 .. Len(s)] ==
        IF k = 0 THEN <<>>
        ELSE LET seen == Seen[k - 1]
             IN  IF \E j \in DOMAIN seen : seen[j] = s[k] THEN seen ELSE Append(seen, s[k])
  IN  Seen[Len(s)]

\* The entries of s that are in S, in the order of s.
Among(s, S) ==
  LET Passed[k \in 0 .. Len(s)] ==
        IF k = 0 THEN <<>>
        ELSE IF s[k] \in S THEN Append(Passed[k - 1], s[k]) ELSE Passed[k - 1]
  IN  Passed[Len(s)]

=============================================================================
