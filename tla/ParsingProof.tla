---------------------------- MODULE ParsingProof ----------------------------
(***************************************************************************)
(* What doReading, doParsing and createHypergraph do, for every set of     *)
(* files and every order in which they are found.                          *)
(*                                                                         *)
(* ReadInv and ParseInv say which shape the program's data have; GraphShape*)
(* is part of them and WalkNarrows follows.  WalkInv says that the queue   *)
(* of findsymbol is that of a breadth-first search through the headers,    *)
(* with which NearestDeclaration is inductive.  FirstInv (hmap has the     *)
(* first header of each name) and CallsInv (the callers that are listed    *)
(* are those of the uses looked at) give EdgesFromCalls.                   *)
(***************************************************************************)
EXTENDS Parsing, SeqLemmas

-----------------------------------------------------------------------------
(***************************************************************************)
(* Sorted: the order of std::map.                                          *)
(***************************************************************************)

\* A finite set of numbers has a largest one, if any.
LEMMA Largest ==
  ASSUME NEW S, S \subseteq Int, IsFiniteSet(S), S # {}
  PROVE  \E x \in S : \A y \in S : y <= x
<1> DEFINE Has(A) == \E x \in A : \A y \in A : y <= x
           T == {m \in Nat : \A A \in SUBSET Int : IsFiniteSet(A) /\ A # {} /\ Cardinality(A) = m => Has(A)}
<1>1. 0 \in T
  BY FS_EmptySet
<1>2. ASSUME NEW m \in Nat, m \in T
      PROVE  m + 1 \in T
  <2> SUFFICES ASSUME NEW A \in SUBSET Int, IsFiniteSet(A), A # {}, Cardinality(A) = m + 1
               PROVE  Has(A)
    OBVIOUS
  <2>1. PICK a \in A : TRUE
    OBVIOUS
  <2> DEFINE B == A \ {a}
  <2>2. IsFiniteSet(B) /\ Cardinality(B) = (m + 1) - 1
    BY <2>1, FS_RemoveElement
  <2>3. CASE B = {}
    <3>1. \A y \in A : y = a
      BY <2>3
    <3>2. a \in Int
      OBVIOUS
    <3> QED
      BY <3>1, <3>2
  <2>4. CASE B # {}
    <3>1. Cardinality(B) = m /\ B \in SUBSET Int
      BY <2>2
    <3>2. Has(B)
      BY <1>2, <2>2, <2>4, <3>1
    <3>3. PICK x \in B : \A y \in B : y <= x
      BY <3>2
    <3>4. a \in Int /\ x \in Int /\ x \in A /\ A = B \cup {a}
      OBVIOUS
    <3>5. CASE a <= x
      BY <3>3, <3>4, <3>5
    <3>6. CASE x < a
      <4>1. \A y \in B : y \in Int /\ y <= a
        BY <3>3, <3>4, <3>6
      <4> QED
        BY <3>4, <4>1
    <3> QED
      BY <3>4, <3>5, <3>6
  <2> QED
    BY <2>3, <2>4
<1>3. \A m \in Nat : m \in T
  <2> HIDE DEF T
  <2> QED
    BY <1>1, <1>2, NatSetInduction
<1>4. Cardinality(S) \in Nat
  BY FS_CardinalityType
<1> QED
  BY <1>3, <1>4

\* The elements of S, each once, in their order.
Rising(S) == {s \in [1 .. Cardinality(S) -> S] : \A i, j \in DOMAIN s : i < j => s[i] < s[j]}

\* A finite set of numbers can be sorted.
LEMMA RisingExists ==
  ASSUME NEW S, S \subseteq Int, IsFiniteSet(S)
  PROVE  Rising(S) # {}
<1> DEFINE T == {m \in Nat : \A A \in SUBSET Int : IsFiniteSet(A) /\ Cardinality(A) = m => Rising(A) # {}}
<1>1. 0 \in T
  <2> SUFFICES ASSUME NEW A \in SUBSET Int, IsFiniteSet(A), Cardinality(A) = 0 PROVE Rising(A) # {}
    OBVIOUS
  <2> DEFINE s == [i \in 1 .. 0 |-> i]
  <2>1. s \in [1 .. Cardinality(A) -> A] /\ DOMAIN s = {}
    OBVIOUS
  <2>2. s \in Rising(A)
    BY <2>1 DEF Rising
  <2> QED
    BY <2>2
<1>2. ASSUME NEW m \in Nat, m \in T
      PROVE  m + 1 \in T
  <2> SUFFICES ASSUME NEW A \in SUBSET Int, IsFiniteSet(A), Cardinality(A) = m + 1
               PROVE  Rising(A) # {}
    OBVIOUS
  <2>0. A # {}
    BY FS_EmptySet
  <2>1. PICK a \in A : \A y \in A : y <= a
    BY <2>0, Largest
  <2> DEFINE B == A \ {a}
  <2>2. IsFiniteSet(B) /\ Cardinality(B) = (m + 1) - 1
    BY FS_RemoveElement
  <2>3. Cardinality(B) = m /\ B \in SUBSET Int
    BY <2>2
  <2>4. PICK r : r \in Rising(B)
    BY <1>2, <2>2, <2>3
  <2>5. r \in [1 .. m -> B] /\ \A i, j \in 1 .. m : i < j => r[i] < r[j]
    BY <2>3, <2>4 DEF Rising
  <2> DEFINE s == [i \in 1 .. m + 1 |-> IF i = m + 1 THEN a ELSE r[i]]
  <2>6. s \in [1 .. m + 1 -> A]
    <3>1. \A i \in 1 .. m + 1 : i # m + 1 => i \in 1 .. m
      OBVIOUS
    <3>2. \A i \in 1 .. m : r[i] \in A
      BY <2>5
    <3> QED
      BY <3>1, <3>2
  <2>7. ASSUME NEW i \in 1 .. m + 1, NEW j \in 1 .. m + 1, i < j
        PROVE  s[i] < s[j]
    <3>1. i \in 1 .. m /\ s[i] = r[i]
      BY <2>7
    <3>2. CASE j = m + 1
      <4>1. r[i] \in B
        BY <2>5, <3>1
      <4>2. r[i] # a /\ r[i] <= a /\ r[i] \in Int /\ a \in Int
        BY <2>1, <4>1
      <4> QED
        BY <3>1, <3>2, <4>2
    <3>3. CASE j # m + 1
      <4>1. j \in 1 .. m /\ s[j] = r[j]
        BY <3>3
      <4> QED
        BY <2>5, <2>7, <3>1, <4>1
    <3> QED
      BY <3>2, <3>3
  <2> HIDE DEF s
  <2>8. s \in Rising(A)
    <3>1. DOMAIN s = 1 .. m + 1
      BY <2>6
    <3> QED
      BY <2>6, <2>7, <3>1 DEF Rising
  <2> QED
    BY <2>8
<1>3. \A m \in Nat : m \in T
  <2> HIDE DEF T
  <2> QED
    BY <1>1, <1>2, NatSetInduction
<1>4. Cardinality(S) \in Nat
  BY FS_CardinalityType
<1> QED
  BY <1>3, <1>4

\* What the loops over a std::map meet.
LEMMA SortedIs ==
  ASSUME NEW S, S \subseteq Int, IsFiniteSet(S)
  PROVE  /\ Sorted(S) \in Seq(S) /\ Len(Sorted(S)) = Cardinality(S) /\ Cardinality(S) \in Nat
         /\ DOMAIN Sorted(S) = 1 .. Len(Sorted(S))
         /\ IsInjective(Sorted(S))
<1> DEFINE n == Cardinality(S)
           Rises(s) == \A i, j \in DOMAIN s : i < j => s[i] < s[j]
<1>1. n \in Nat
  BY FS_CardinalityType
<1>2. PICK r : r \in Rising(S)
  BY RisingExists
<1> HIDE DEF n
<1>3. r \in [1 .. n -> S] /\ Rises(r)
  BY <1>2 DEF Rising, n
<1>4. \A i, j \in 1 .. n : i # j => i < j \/ j < i
  BY <1>1
<1>5. \A i \in 1 .. n : r[i] \in Int
  BY <1>3
<1>6. r \in SetToSeqs(S)
  <2>1. \A i, j \in 1 .. n : i # j => r[i] # r[j]
    BY <1>3, <1>4, <1>5
  <2> QED
    BY <1>3, <2>1 DEF SetToSeqs, n
<1>7. Sorted(S) = CHOOSE s \in SetToSeqs(S) : Rises(s)
  BY DEF Sorted
<1> HIDE DEF Rises
<1>8. Sorted(S) \in SetToSeqs(S)
  BY <1>3, <1>6, <1>7
<1>9. Sorted(S) \in [1 .. n -> S] /\ \A i, j \in 1 .. n : i # j => Sorted(S)[i] # Sorted(S)[j]
  BY <1>8 DEF SetToSeqs, n
<1>10. Sorted(S) \in Seq(S) /\ Len(Sorted(S)) = n
  BY <1>1, <1>9, LenIs
<1>11. IsInjective(Sorted(S))
  BY <1>9 DEF IsInjective
<1> QED
  BY <1>1, <1>9, <1>10, <1>11 DEF n

\* The loop meets everything.
LEMMA SortedAll ==
  ASSUME NEW S, S \subseteq Int, IsFiniteSet(S)
  PROVE  ToSet(Sorted(S)) = S
<1> DEFINE s == Sorted(S)
<1>1. s \in Seq(S) /\ Len(s) = Cardinality(S) /\ DOMAIN s = 1 .. Len(s) /\ IsInjective(s)
  BY SortedIs
<1> HIDE DEF s
<1>2. s \in Lists(S)
  BY <1>1 DEF Lists
<1>3. Cardinality(ToSet(s)) = Cardinality(S)
  BY <1>1, <1>2, ListCardinality
<1>4. ToSet(s) \subseteq S
  BY <1>1, ElementOfSeq DEF ToSet
<1>5. ToSet(s) = S
  BY <1>3, <1>4, FS_Subset
<1> QED
  BY <1>5 DEF s

-----------------------------------------------------------------------------
(***************************************************************************)
(* What a file is, and what CReadH and CReadCpp make of it.                *)
(***************************************************************************)

\* A set of numbers that are not negative has a smallest one, if any.
LEMMA Smallest ==
  ASSUME NEW I, I \subseteq Nat, I # {}
  PROVE  Min(I) \in I /\ \A y \in I : Min(I) <= y
<1>0. IsWellFoundedOn(OpToRel(<, Nat), Nat)
  BY NatLessThanWellFounded
<1>1. PICK x \in I : \A y \in I : ~ (<<y, x>> \in OpToRel(<, Nat))
  BY <1>0, WFMin
<1>2. \A y \in I : ~ (y < x)
  BY <1>1 DEF OpToRel
<1>3. \A y \in I : y \in Nat /\ x \in Nat /\ x <= y
  BY <1>2
<1> QED
  BY <1>3 DEF Min

\* A body, or a whole file, is a sequence.
IsText(b) == b \in Seq(Range(b))

\* The body of a method.
IsBody(b) == IsText(b) /\ \A ph \in Range(b) : ph.sym \in {"->", ".", ""}

\* What the files of a testcase are made of.
IsItem(it) ==
  /\ it.kind \in {"include", "class"} => it.name \in Int
  /\ it.kind = "method" => it.class \in Int /\ IsBody(it.body)

\* A file the scanners can read.
IsFile(text) == IsText(text) /\ \A it \in Range(text) : IsItem(it)

\* What passes a test is a text again.
LEMMA ItemsAre ==
  ASSUME NEW text, IsFile(text), NEW kind
  PROVE  /\ IsFile(Items(text, kind)) /\ Range(Items(text, kind)) \subseteq Range(text)
         /\ \A it \in Range(Items(text, kind)) : it.kind = kind
         /\ Len(Items(text, kind)) \in Nat
         /\ DOMAIN Items(text, kind) = 1 .. Len(Items(text, kind))
         /\ \A i \in DOMAIN Items(text, kind) : Items(text, kind)[i] \in Range(Items(text, kind))
<1> DEFINE X == Range(text)
           S == {it \in X : it.kind = kind}
           s == Among(text, S)
<1>1. text \in Seq(X)
  BY DEF IsFile, IsText
<1>2. Items(text, kind) = s
  BY DEF Items
<1> HIDE DEF X, S
<1>3. s \in Seq(X) /\ Range(s) = X \cap S
  BY <1>1, AmongType DEF X
<1>4. Len(s) \in Nat /\ DOMAIN s = 1 .. Len(s)
  BY <1>3, LenProperties
<1>5. s \in Seq(Range(s))
  BY <1>3, SeqOfRange
<1> HIDE DEF s
<1>6. \A i \in DOMAIN s : s[i] \in Range(s)
  BY DEF Range
<1>7. Range(s) \subseteq X /\ \A it \in Range(s) : it.kind = kind
  BY <1>3 DEF S
<1>8. IsFile(s)
  BY <1>5, <1>7 DEF IsFile, IsText, X
<1> QED
  BY <1>2, <1>4, <1>6, <1>7, <1>8 DEF X

\* Where the text before the first class, or method, ends.
LEMMA FirstItemIs ==
  ASSUME NEW text, IsFile(text), NEW kind
  PROVE  FirstItem(text, kind) \in 0 .. Len(text) /\ Len(text) \in Nat
<1> DEFINE I == {i \in 1 .. Len(text) : text[i].kind = kind}
<1>1. Len(text) \in Nat
  BY LenProperties DEF IsFile, IsText
<1>2. FirstItem(text, kind) = IF I # {} THEN Min(I) ELSE 0
  BY DEF FirstItem, SelectInSeq
<1>3. I \subseteq 1 .. Len(text) /\ I \subseteq Nat
  BY <1>1
<1> HIDE DEF I
<1>4. I # {} => Min(I) \in 1 .. Len(text)
  BY <1>3, Smallest
<1> QED
  BY <1>1, <1>2, <1>4

\* The include files are names.
LEMMA HeadfileIs ==
  ASSUME NEW text, IsFile(text), NEW k \in 0 .. Len(text), Len(text) \in Nat
  PROVE  getheadfile(text, k) \in Seq(Int)
<1> DEFINE X == Range(text)
           r == SubSeq(text, 1, k)
           found == Items(r, "include")
<1>1. text \in Seq(X)
  BY DEF IsFile, IsText
<1>2. r \in Seq(X)
  <2> HIDE DEF X
  <2> QED
    BY <1>1, SubSeqProperties
<1>3. Range(r) \subseteq X
  <2> HIDE DEF X, r
  <2> QED
    BY <1>2, LenProperties, ElementOfSeq DEF Range
<1> HIDE DEF r
<1>4. r \in Seq(Range(r))
  <2> HIDE DEF X
  <2> QED
    BY <1>2, SeqOfRange
<1>5. IsFile(r)
  BY <1>3, <1>4 DEF IsFile, IsText
<1>6. /\ IsFile(found) /\ Len(found) \in Nat /\ DOMAIN found = 1 .. Len(found)
      /\ \A it \in Range(found) : it.kind = "include"
      /\ \A i \in DOMAIN found : found[i] \in Range(found)
  BY <1>5, ItemsAre
<1>7. getheadfile(text, k) = [i \in DOMAIN found |-> found[i].name]
  BY DEF getheadfile, r
<1> HIDE DEF found
<1>8. \A it \in Range(found) : it.name \in Int
  BY <1>6 DEF IsFile, IsItem
<1>9. [i \in DOMAIN found |-> found[i].name] \in [1 .. Len(found) -> Int]
  BY <1>6, <1>8
<1> QED
  BY <1>6, <1>7, <1>9, LenIs

\* A header as readEachfile keeps it.
Header(H) == H.headfile \in Seq(Int) /\ DOMAIN H.classdef \subseteq Int /\ IsText(H.globalStr)

\* CReadH on a file.
LEMMA HeaderIs ==
  ASSUME NEW text, IsFile(text)
  PROVE  Header(CReadH(text))
<1> DEFINE k == FirstItem(text, "class")
           defs == Items(text, "class")
<1>1. k \in 0 .. Len(text) /\ Len(text) \in Nat
  BY FirstItemIs
<1>2. getheadfile(text, k) \in Seq(Int)
  <2> HIDE DEF k
  <2> QED
    BY <1>1, HeadfileIs
<1>3. DOMAIN getclass(text) = {defs[i].name : i \in DOMAIN defs}
  BY DEF getclass
<1>4. IsFile(defs) /\ (\A it \in Range(defs) : it.kind = "class") /\ \A i \in DOMAIN defs : defs[i] \in Range(defs)
  BY ItemsAre
<1> HIDE DEF defs
<1>5. \A it \in Range(defs) : it.name \in Int
  BY <1>4 DEF IsFile, IsItem
<1>6. DOMAIN getclass(text) \subseteq Int
  BY <1>3, <1>4, <1>5
<1>7. /\ CReadH(text).headfile = getheadfile(text, k) /\ CReadH(text).classdef = getclass(text)
      /\ CReadH(text).globalStr = Items(text, "phrase")
  BY DEF CReadH, findGlobal
<1>8. IsText(Items(text, "phrase"))
  BY ItemsAre DEF IsFile
<1> QED
  BY <1>2, <1>6, <1>7, <1>8 DEF Header

\* The methods of the classes of a source.
Methods(map) ==
  /\ IsFiniteSet(DOMAIN map) /\ DOMAIN map \subseteq Int
  /\ \A c \in DOMAIN map : IsText(map[c]) /\ \A b \in Range(map[c]) : IsBody(b)

\* A source as readEachfile keeps it.
Source(s) == s.headfile \in Seq(Int) /\ Methods(s.cppclass) /\ IsText(s.globalStr)

\* CReadCpp on a file.
LEMMA SourceIs ==
  ASSUME NEW text, IsFile(text)
  PROVE  Source(CReadCpp(text))
<1> DEFINE k == FirstItem(text, "method")
           methods == Items(text, "method")
           M == Range(methods)
           C == {methods[i].class : i \in DOMAIN methods}
           Of(c) == Among(methods, {m \in M : m.class = c})
           map == findclasses(text)
<1>1. k \in 0 .. Len(text) /\ Len(text) \in Nat
  BY FirstItemIs
<1>2. getheadfile(text, k) \in Seq(Int)
  <2> HIDE DEF k
  <2> QED
    BY <1>1, HeadfileIs
<1>3. map = [c \in C |-> [i \in DOMAIN Of(c) |-> Of(c)[i].body]]
  BY DEF findclasses
<1>4. /\ IsFile(methods) /\ Len(methods) \in Nat /\ DOMAIN methods = 1 .. Len(methods)
      /\ (\A it \in M : it.kind = "method") /\ \A i \in DOMAIN methods : methods[i] \in M
  BY ItemsAre
<1> HIDE DEF methods, map
<1>5. \A it \in M : it.class \in Int /\ IsBody(it.body)
  BY <1>4 DEF IsFile, IsItem
<1>6. C \subseteq Int
  BY <1>4, <1>5
<1>7. IsFiniteSet(C)
  <2> DEFINE f == [i \in 1 .. Len(methods) |-> methods[i].class]
  <2>1. f \in Surjection(1 .. Len(methods), C)
    BY <1>4 DEF Surjection
  <2>2. IsFiniteSet(1 .. Len(methods))
    BY <1>4, FS_Interval
  <2> HIDE DEF f, C
  <2> QED
    BY <2>1, <2>2, FS_Surjection
<1>8. ASSUME NEW c \in C
      PROVE  IsText(map[c]) /\ \A b \in Range(map[c]) : IsBody(b)
  <2> DEFINE S == {m \in M : m.class = c}
             s == Among(methods, S)
             B == {m.body : m \in M}
             bs == [i \in DOMAIN s |-> s[i].body]
  <2>1. methods \in Seq(M)
    BY <1>4 DEF IsFile, IsText
  <2> HIDE DEF S, M
  <2>2. s \in Seq(M)
    BY <2>1, AmongType
  <2>3. Len(s) \in Nat /\ DOMAIN s = 1 .. Len(s) /\ s \in [1 .. Len(s) -> M]
    BY <2>2, LenProperties
  <2>4. map[c] = bs
    BY <1>3 DEF S
  <2> HIDE DEF s
  <2>5. bs \in [1 .. Len(s) -> B]
    BY <2>3
  <2>6. bs \in Seq(B)
    BY <2>3, <2>5, LenIs
  <2>7. Range(bs) \subseteq B
    BY <2>5 DEF Range
  <2>8. \A b \in B : IsBody(b)
    BY <1>5
  <2> HIDE DEF bs, B
  <2>9. bs \in Seq(Range(bs))
    BY <2>6, SeqOfRange
  <2> QED
    BY <2>4, <2>7, <2>8, <2>9 DEF IsText
<1>9. DOMAIN map = C
  BY <1>3
<1>10. Methods(map)
  BY <1>6, <1>7, <1>8, <1>9 DEF Methods
<1>11. /\ CReadCpp(text).headfile = getheadfile(text, k) /\ CReadCpp(text).cppclass = map
       /\ CReadCpp(text).globalStr = Items(text, "phrase")
  BY DEF CReadCpp, findGlobal, map
<1>12. IsText(Items(text, "phrase"))
  BY ItemsAre DEF IsFile
<1> QED
  BY <1>2, <1>10, <1>11, <1>12 DEF Source

-----------------------------------------------------------------------------
(***************************************************************************)
(* Reading.                                                                *)
(***************************************************************************)

\* The files of all testcases.
Files == UNION Projects

\* Files can be read.
LEMMA FilesAre ==
  \A f \in Files : f.name \in Int /\ IsFile(f.text)
<1> SUFFICES ASSUME NEW files \in Projects, NEW f \in files
             PROVE  f.name \in Int /\ IsFile(f.text)
  BY DEF Files
<1>1. /\ f.name \in Int /\ f.text \in Seq(Range(f.text))
      /\ \A it \in Range(f.text) :
           /\ it.kind \in {"include", "class"} => it.name \in Int
           /\ it.kind = "method" =>
                /\ it.class \in Int /\ it.body \in Seq(Range(it.body))
                /\ \A ph \in Range(it.body) : ph.sym \in {"->", ".", ""}
  BY ProjectsAssumption
<1> QED
  BY <1>1 DEF IsFile, IsText, IsItem, IsBody

\* What readEachfile has put into hmap.
Headers(map) == IsFiniteSet(DOMAIN map) /\ DOMAIN map \subseteq Int /\ \A h \in DOMAIN map : Header(map[h])

\* What readEachfile has put into the list of sources.
Sources(list) == IsText(list) /\ \A s \in Range(list) : Source(s)

\* Reading: the files found, how far they were scanned, what was found in them.
ReadInv ==
  /\ unseen \subseteq Files
  /\ aryh \in Seq(Files) /\ arycpp \in Seq(Files)
  /\ nread \in 0 .. Len(aryh) + Len(arycpp)
  /\ Headers(hmap)
  /\ Sources(head)

\* A header is inserted.
LEMMA InsertHeader ==
  ASSUME NEW map, Headers(map), NEW name \in Int, NEW H, Header(H)
  PROVE  Headers(Insert(map, name, H))
<1> DEFINE M == Insert(map, name, H)
<1>1. DOMAIN M = DOMAIN map \cup {name}
  BY DEF Insert
<1>2. \A h \in DOMAIN M : M[h] = IF h \in DOMAIN map THEN map[h] ELSE H
  BY DEF Insert
<1> HIDE DEF M
<1>3. IsFiniteSet(DOMAIN M)
  BY <1>1, FS_AddElement DEF Headers
<1>4. \A h \in DOMAIN M : Header(M[h])
  BY <1>1, <1>2 DEF Headers
<1>5. DOMAIN M \subseteq Int
  BY <1>1 DEF Headers
<1> QED
  BY <1>3, <1>4, <1>5 DEF Headers, M

\* A source is put in front of the list.
LEMMA SourceInFront ==
  ASSUME NEW list, Sources(list), NEW S, Source(S)
  PROVE  Sources(<<S>> \o list)
<1> DEFINE X == Range(list) \cup {S}
           r == <<S>> \o list
<1>1. \A s \in X : Source(s)
  BY DEF Sources
<1>2. list \in Seq(Range(list))
  BY DEF Sources, IsText
<1>3. list \in Seq(X) /\ <<S>> \in Seq(X)
  <2>1. list \in [1 .. Len(list) -> Range(list)] /\ Len(list) \in Nat
    BY <1>2, LenProperties
  <2>2. list \in [1 .. Len(list) -> X]
    BY <2>1
  <2>3. list \in Seq(X)
    BY <2>1, <2>2, LenIs
  <2> QED
    BY <2>3
<1> HIDE DEF X
<1>4. r \in Seq(X)
  BY <1>3, ConcatProperties
<1> HIDE DEF r
<1>5. r \in Seq(Range(r))
  BY <1>4, SeqOfRange
<1>6. Range(r) \subseteq X
  BY <1>4, LenProperties, ElementOfSeq DEF Range
<1> QED
  BY <1>1, <1>5, <1>6 DEF Sources, IsText, r

\* The initial state.
LEMMA InitReads == ReadInit => ReadInv
<1> SUFFICES ASSUME ReadInit PROVE ReadInv
  OBVIOUS
<1>1. unseen \in Projects /\ aryh = <<>> /\ arycpp = <<>> /\ nread = 0 /\ hmap = <<>> /\ head = <<>>
  BY DEF ReadInit
<1>2. unseen \subseteq Files
  BY <1>1 DEF Files
<1>3. aryh \in Seq(Files) /\ arycpp \in Seq(Files) /\ nread \in 0 .. Len(aryh) + Len(arycpp)
  BY <1>1
<1>4. DOMAIN hmap = {}
  BY <1>1
<1>5. Headers(hmap)
  BY <1>4, FS_EmptySet DEF Headers
<1>6. Range(head) = {} /\ head \in Seq({})
  BY <1>1 DEF Range
<1>7. Sources(head)
  BY <1>6 DEF Sources, IsText
<1> QED
  BY <1>2, <1>3, <1>5, <1>7 DEF ReadInv

\* A step of the reading.
LEMMA NextReads == ReadInv /\ ReadNext => ReadInv'
<1> SUFFICES ASSUME ReadInv, ReadNext PROVE ReadInv'
  OBVIOUS
<1> DEFINE lh == Len(aryh)
           lc == Len(arycpp)
<1>0. /\ unseen \subseteq Files /\ aryh \in Seq(Files) /\ arycpp \in Seq(Files)
      /\ nread \in 0 .. lh + lc /\ Headers(hmap) /\ Sources(head)
  BY DEF ReadInv
<1>1. lh \in Nat /\ lc \in Nat /\ DOMAIN aryh = 1 .. lh /\ DOMAIN arycpp = 1 .. lc
  BY <1>0, LenProperties
<1>2. ASSUME NEW f \in unseen, dfsFolder(f) PROVE ReadInv'
  <2>1. /\ unseen' = unseen \ {f}
        /\ aryh' = IF IsH(f) THEN Append(aryh, f) ELSE aryh
        /\ arycpp' = IF IsCpp(f) THEN Append(arycpp, f) ELSE arycpp
        /\ nread' = nread /\ hmap' = hmap /\ head' = head
    BY <1>2 DEF dfsFolder
  <2>2. f \in Files
    BY <1>0
  <2>3. aryh' \in Seq(Files) /\ Len(aryh') \in {lh, lh + 1}
    BY <1>0, <2>1, <2>2, AppendProperties
  <2>4. arycpp' \in Seq(Files) /\ Len(arycpp') \in {lc, lc + 1}
    BY <1>0, <2>1, <2>2, AppendProperties
  <2>5. nread' \in 0 .. Len(aryh') + Len(arycpp')
    <3> HIDE DEF lh, lc
    <3>1. Len(aryh') \in Nat /\ Len(aryh') >= lh
      BY <1>1, <2>3
    <3>2. Len(arycpp') \in Nat /\ Len(arycpp') >= lc
      BY <1>1, <2>4
    <3>3. nread' \in Nat /\ nread' <= lh + lc
      BY <1>0, <1>1, <2>1
    <3> QED
      BY <1>1, <3>1, <3>2, <3>3
  <2>6. Headers(hmap)' /\ Sources(head)'
    BY <1>0, <2>1
  <2>7. unseen' \subseteq Files
    BY <1>0, <2>1
  <2> QED
    BY <2>3, <2>4, <2>5, <2>6, <2>7 DEF ReadInv
<1>6. ASSUME NEW d, NoFolder(d) PROVE ReadInv'
  <2>1. /\ unseen' \subseteq unseen
        /\ UNCHANGED <<aryh, arycpp, nread, hmap, head>>
    BY <1>6 DEF NoFolder
  <2> QED
    BY <1>0, <2>1 DEF ReadInv
<1>3. CASE EndFolder \/ Unreadable
  <2>1. UNCHANGED readVars
    BY <1>3 DEF EndFolder, Unreadable
  <2>2. UNCHANGED <<unseen, aryh, arycpp, nread, hmap, head>>
    BY <2>1 DEF readVars
  <2> QED
    BY <1>0, <2>2 DEF ReadInv
<1>4. CASE ReadHeader
  <2> DEFINE f == aryh[nread + 1]
             H == CReadH(f.text)
  <2>1. /\ nread < lh /\ hmap' = Insert(hmap, f.name, H) /\ nread' = nread + 1
        /\ unseen' = unseen /\ aryh' = aryh /\ arycpp' = arycpp /\ head' = head
    BY <1>4 DEF ReadHeader
  <2> HIDE DEF lh, lc
  <2>2. nread + 1 \in 1 .. lh /\ nread + 1 \in 0 .. lh + lc
    BY <1>0, <1>1, <2>1
  <2>3. f \in Files
    BY <1>0, <2>2, ElementOfSeq DEF lh
  <2>4. Header(H)
    BY <2>3, FilesAre, HeaderIs
  <2> HIDE DEF H
  <2>7. f.name \in Int
    BY <2>3, FilesAre
  <2> HIDE DEF f
  <2>5. Headers(hmap')
    BY <1>0, <2>1, <2>4, <2>7, InsertHeader
  <2>6. nread' \in 0 .. Len(aryh') + Len(arycpp')
    BY <2>1, <2>2 DEF lh, lc
  <2> QED
    BY <1>0, <2>1, <2>5, <2>6 DEF ReadInv
<1>5. CASE ReadSource
  <2> DEFINE i == nread - lh + 1
             f == arycpp[i]
             S == CReadCpp(f.text)
  <2>1. /\ nread >= lh /\ nread # lh + lc /\ head' = <<S>> \o head /\ nread' = nread + 1
        /\ unseen' = unseen /\ aryh' = aryh /\ arycpp' = arycpp /\ hmap' = hmap
    BY <1>5 DEF ReadSource, AllRead
  <2> HIDE DEF lh, lc
  <2>2. i \in 1 .. lc /\ nread + 1 \in 0 .. lh + lc
    BY <1>0, <1>1, <2>1
  <2> HIDE DEF i
  <2>3. f \in Files
    BY <1>0, <2>2, ElementOfSeq DEF lc
  <2>4. Source(S)
    BY <2>3, FilesAre, SourceIs
  <2> HIDE DEF f, S
  <2>5. Sources(head')
    BY <1>0, <2>1, <2>4, SourceInFront
  <2>6. nread' \in 0 .. Len(aryh') + Len(arycpp')
    BY <2>1, <2>2 DEF lh, lc
  <2> QED
    BY <1>0, <2>1, <2>5, <2>6 DEF ReadInv
<1> QED
  BY <1>2, <1>3, <1>4, <1>5, <1>6 DEF ReadNext

-----------------------------------------------------------------------------
(***************************************************************************)
(* The uses doParsing comes to.                                            *)
(***************************************************************************)

\* Uses in the sources D, of methods with bodies in W.
UsesIn(D, W) == [cpp : D, class : Int, body : W, at : Int]

\* The use of the variable in front of the k-th symbol of b.
UseAt(i, c, b, k) == [cpp |-> i, class |-> c, body |-> b, at |-> k]

\* The uses in a body that are followed by one of the symbols.
UsesAt(i, c, b, symbols) == {UseAt(i, c, b, k) : k \in {k \in DOMAIN b : b[k].sym \in symbols}}

\* The uses in one method.
LEMMA UsesAre ==
  ASSUME NEW D, NEW i \in D, NEW c \in Int, NEW W, NEW b \in W, IsText(b), NEW symbol
  PROVE  /\ Uses(i, c, b, symbol) \in Seq(UsesIn(D, W))
         /\ ToSet(Uses(i, c, b, symbol)) = UsesAt(i, c, b, {symbol})
<1> DEFINE I == {k \in DOMAIN b : b[k].sym = symbol}
           ats == Sorted(I)
<1>1. Len(b) \in Nat /\ DOMAIN b = 1 .. Len(b)
  BY LenProperties DEF IsText
<1>2. IsFiniteSet(I) /\ I \subseteq Int
  <2>1. IsFiniteSet(1 .. Len(b)) /\ I \subseteq 1 .. Len(b)
    BY <1>1, FS_Interval
  <2> QED
    BY <1>1, <2>1, FS_Subset
<1>3. Uses(i, c, b, symbol) = [u \in DOMAIN ats |-> [cpp |-> i, class |-> c, body |-> b, at |-> ats[u]]]
  BY DEF Uses
<1> HIDE DEF I
<1>4. ats \in Seq(I) /\ DOMAIN ats = 1 .. Len(ats)
  BY <1>2, SortedIs
<1>5. Len(ats) \in Nat /\ \A u \in 1 .. Len(ats) : ats[u] \in Int
  BY <1>2, <1>4, LenProperties, ElementOfSeq
<1> HIDE DEF ats
<1>6. [u \in 1 .. Len(ats) |-> [cpp |-> i, class |-> c, body |-> b, at |-> ats[u]]]
        \in [1 .. Len(ats) -> UsesIn(D, W)]
  BY <1>5 DEF UsesIn
<1>7. Uses(i, c, b, symbol) \in Seq(UsesIn(D, W))
  BY <1>3, <1>4, <1>5, <1>6, LenIs
<1>8. ToSet(ats) = I /\ ToSet(ats) = {ats[u] : u \in 1 .. Len(ats)}
  BY <1>2, <1>4, SortedAll DEF ats, ToSet
<1>9. ToSet(Uses(i, c, b, symbol)) = {UseAt(i, c, b, ats[u]) : u \in 1 .. Len(ats)}
  BY <1>3, <1>4 DEF ToSet, UseAt
<1>10. {UseAt(i, c, b, ats[u]) : u \in 1 .. Len(ats)} = {UseAt(i, c, b, k) : k \in I}
  BY <1>8
<1>11. UsesAt(i, c, b, {symbol}) = {UseAt(i, c, b, k) : k \in I}
  BY DEF I, UsesAt
<1> QED
  BY <1>7, <1>9, <1>10, <1>11

\* The bodies of all methods of all sources.
Written == UNION {UNION {Range(head[i].cppclass[c]) : c \in DOMAIN head[i].cppclass} : i \in DOMAIN head}

\* The use findsymbol looks at names a source and a class.
Pending == UsesIn(DOMAIN head, Written)

\* The uses in a method, in a class of a source, in a source, and all of them.
InMethod(i, c, b) == UsesAt(i, c, b, {"->", "."})
InClass(i, c) == UNION {InMethod(i, c, head[i].cppclass[c][m]) : m \in DOMAIN head[i].cppclass[c]}
InFile(i) == UNION {InClass(i, c) : c \in DOMAIN head[i].cppclass}
InFiles == UNION {InFile(i) : i \in DOMAIN head}

\* doParsing's loops come to all uses.
LEMMA AllUsesAre ==
  ASSUME Sources(head)
  PROVE  AllUses \in Seq(Pending) /\ ToSet(AllUses) = InFiles
<1> DEFINE P == Pending
           OfMethod(i, c, body) == Uses(i, c, body, "->") \o Uses(i, c, body, ".")
           OfClass(i, c) == FlattenSeq([m \in DOMAIN head[i].cppclass[c] |->
                                          OfMethod(i, c, head[i].cppclass[c][m])])
           OfFile(i) == LET cs == Sorted(DOMAIN head[i].cppclass)
                        IN  FlattenSeq([k \in DOMAIN cs |-> OfClass(i, cs[k])])
<1>1. Len(head) \in Nat /\ DOMAIN head = 1 .. Len(head)
  BY LenProperties DEF Sources, IsText
<1>2. \A i \in DOMAIN head : Methods(head[i].cppclass)
  BY DEF Sources, Range, Source
<1>3. ASSUME NEW i \in DOMAIN head, NEW c \in DOMAIN head[i].cppclass
      PROVE  OfClass(i, c) \in Seq(P) /\ ToSet(OfClass(i, c)) = InClass(i, c)
  <2> DEFINE bs == head[i].cppclass[c]
             ms == [m \in DOMAIN bs |-> OfMethod(i, c, bs[m])]
  <2>1. c \in Int /\ IsText(bs) /\ \A b \in Range(bs) : IsText(b)
    BY <1>2 DEF Methods, IsBody
  <2>2. Len(bs) \in Nat /\ DOMAIN bs = 1 .. Len(bs)
    BY <2>1, LenProperties DEF IsText
  <2>3. Range(bs) \subseteq Written
    BY DEF Written
  <2>4. \A m \in DOMAIN bs : bs[m] \in Range(bs)
    BY DEF Range
  <2> HIDE DEF bs
  <2>5. ASSUME NEW m \in DOMAIN bs
        PROVE  OfMethod(i, c, bs[m]) \in Seq(P) /\ ToSet(OfMethod(i, c, bs[m])) = InMethod(i, c, bs[m])
    <3> DEFINE x == bs[m]
               W == Written
               D == DOMAIN head
               a == Uses(i, c, x, "->")
               b == Uses(i, c, x, ".")
    <3>1. x \in W /\ IsText(x) /\ P = UsesIn(D, W) /\ i \in D /\ c \in Int
      BY <2>1, <2>3, <2>4 DEF Pending
    <3> HIDE DEF P, x, W, D
    <3>2. /\ a \in Seq(P) /\ ToSet(a) = UsesAt(i, c, x, {"->"})
          /\ b \in Seq(P) /\ ToSet(b) = UsesAt(i, c, x, {"."})
      <4>1. /\ Uses(i, c, x, "->") \in Seq(UsesIn(D, W))
            /\ ToSet(Uses(i, c, x, "->")) = UsesAt(i, c, x, {"->"})
        BY <3>1, UsesAre
      <4>2. /\ Uses(i, c, x, ".") \in Seq(UsesIn(D, W))
            /\ ToSet(Uses(i, c, x, ".")) = UsesAt(i, c, x, {"."})
        BY <3>1, UsesAre
      <4> QED
        BY <3>1, <4>1, <4>2
    <3> HIDE DEF a, b
    <3>3. a \o b \in Seq(P) /\ ToSet(a \o b) = ToSet(a) \cup ToSet(b)
      BY <3>2, ConcatProperties, ConcatSet
    <3>4. UsesAt(i, c, x, {"->", "."}) = UsesAt(i, c, x, {"->"}) \cup UsesAt(i, c, x, {"."})
      BY DEF UsesAt
    <3>5. InMethod(i, c, x) = ToSet(a) \cup ToSet(b)
      BY <3>2, <3>4 DEF InMethod
    <3> QED
      BY <3>3, <3>5 DEF a, b, x
  <2> HIDE DEF OfMethod, P
  <2>6. ms \in [1 .. Len(bs) -> Seq(P)]
    BY <2>2, <2>5
  <2>7. ms \in Seq(Seq(P))
    BY <2>2, <2>6, LenIs
  <2>8. OfClass(i, c) = FlattenSeq(ms)
    BY DEF bs
  <2>9. Len(ms) = Len(bs) /\ \A m \in 1 .. Len(bs) : ToSet(ms[m]) = InMethod(i, c, bs[m])
    BY <2>2, <2>5, <2>6, LenIs
  <2>10. InClass(i, c) = UNION {InMethod(i, c, bs[m]) : m \in 1 .. Len(bs)}
    BY <2>2 DEF InClass, bs
  <2> HIDE DEF ms, OfClass
  <2>11. FlattenSeq(ms) \in Seq(P) /\ ToSet(FlattenSeq(ms)) = UNION {ToSet(ms[m]) : m \in 1 .. Len(ms)}
    BY <2>7, FlattenSeqType
  <2>12. UNION {ToSet(ms[m]) : m \in 1 .. Len(bs)} = UNION {InMethod(i, c, bs[m]) : m \in 1 .. Len(bs)}
    BY <2>9
  <2> QED
    BY <2>8, <2>9, <2>10, <2>11, <2>12
<1>4. ASSUME NEW i \in DOMAIN head
      PROVE  OfFile(i) \in Seq(P) /\ ToSet(OfFile(i)) = InFile(i)
  <2> DEFINE C == DOMAIN head[i].cppclass
             cs == Sorted(C)
             fs == [k \in DOMAIN cs |-> OfClass(i, cs[k])]
  <2>1. IsFiniteSet(C) /\ C \subseteq Int
    BY <1>2 DEF Methods
  <2>2. \A c \in C : OfClass(i, c) \in Seq(P) /\ ToSet(OfClass(i, c)) = InClass(i, c)
    BY <1>3
  <2>3. OfFile(i) = FlattenSeq(fs)
    OBVIOUS
  <2>8. InFile(i) = UNION {InClass(i, c) : c \in C}
    BY DEF InFile
  <2> HIDE DEF C, OfClass, P, OfFile
  <2>4. cs \in Seq(C) /\ DOMAIN cs = 1 .. Len(cs)
    BY <2>1, SortedIs
  <2>5. Len(cs) \in Nat /\ \A k \in 1 .. Len(cs) : cs[k] \in C
    BY <2>4, LenProperties, ElementOfSeq
  <2>9. C = {cs[k] : k \in 1 .. Len(cs)}
    BY <2>1, <2>4, SortedAll DEF ToSet
  <2> HIDE DEF cs
  <2>6. fs \in [1 .. Len(cs) -> Seq(P)]
    BY <2>2, <2>4, <2>5
  <2>7. fs \in Seq(Seq(P))
    BY <2>5, <2>6, LenIs
  <2>10. Len(fs) = Len(cs) /\ \A k \in 1 .. Len(cs) : ToSet(fs[k]) = InClass(i, cs[k])
    BY <2>2, <2>4, <2>5, <2>6, LenIs
  <2> HIDE DEF fs
  <2>11. FlattenSeq(fs) \in Seq(P) /\ ToSet(FlattenSeq(fs)) = UNION {ToSet(fs[k]) : k \in 1 .. Len(fs)}
    BY <2>7, FlattenSeqType
  <2>12. UNION {ToSet(fs[k]) : k \in 1 .. Len(cs)} = UNION {InClass(i, cs[k]) : k \in 1 .. Len(cs)}
    BY <2>10
  <2>13. UNION {InClass(i, cs[k]) : k \in 1 .. Len(cs)} = UNION {InClass(i, c) : c \in C}
    BY <2>9
  <2> QED
    BY <2>3, <2>8, <2>10, <2>11, <2>12, <2>13
<1> DEFINE all == [i \in DOMAIN head |-> OfFile(i)]
<1>5. AllUses = FlattenSeq(all)
  BY DEF AllUses
<1> HIDE DEF OfFile, P
<1>6. all \in [1 .. Len(head) -> Seq(P)]
  BY <1>1, <1>4
<1>7. all \in Seq(Seq(P))
  BY <1>1, <1>6, LenIs
<1>8. Len(all) = Len(head) /\ \A i \in 1 .. Len(head) : ToSet(all[i]) = InFile(i)
  BY <1>1, <1>4, <1>6, LenIs
<1> HIDE DEF all
<1>9. FlattenSeq(all) \in Seq(P) /\ ToSet(FlattenSeq(all)) = UNION {ToSet(all[i]) : i \in 1 .. Len(all)}
  BY <1>7, FlattenSeqType
<1>10. UNION {ToSet(all[i]) : i \in 1 .. Len(head)} = InFiles
  BY <1>1, <1>8 DEF InFiles
<1> QED
  BY <1>5, <1>8, <1>9, <1>10 DEF P

-----------------------------------------------------------------------------
(***************************************************************************)
(* The callers of a class, and the numbering of the classes.               *)
(***************************************************************************)

\* calledrelation: classes that are called, each with its callers; no caller is
\* listed twice, and no class calls itself.
Relation(map) ==
  /\ IsFiniteSet(DOMAIN map) /\ DOMAIN map \subseteq Int
  /\ \A c \in DOMAIN map : map[c] \in Lists(Int) /\ Len(map[c]) > 0 /\ c \notin ToSet(map[c])

\* A caller is added.
LEMMA AddCallerKeeps ==
  ASSUME NEW map, Relation(map), NEW class \in Int, NEW caller \in Int, caller # class
  PROVE  Relation(AddCaller(map, class, caller))
<1> DEFINE M == AddCaller(map, class, caller)
<1>1. DOMAIN M = DOMAIN map \cup {class}
  BY DEF AddCaller
<1>2. \A c \in DOMAIN M :
        M[c] = IF c # class THEN map[c]
               ELSE IF c \notin DOMAIN map THEN <<caller>>
               ELSE IF caller \in Range(map[c]) THEN map[c] ELSE Append(map[c], caller)
  BY DEF AddCaller
<1> HIDE DEF M
<1>3. IsFiniteSet(DOMAIN M) /\ DOMAIN M \subseteq Int
  BY <1>1, FS_AddElement DEF Relation
<1>4. ASSUME NEW c \in DOMAIN M
      PROVE  M[c] \in Lists(Int) /\ Len(M[c]) > 0 /\ c \notin ToSet(M[c])
  <2>1. CASE M[c] = map[c] /\ c \in DOMAIN map
    BY <2>1 DEF Relation
  <2>2. CASE c = class /\ M[c] = <<caller>>
    <3>1. <<caller>> \in Seq(Int) /\ Len(<<caller>>) = 1 /\ DOMAIN <<caller>> = {1} /\ <<caller>>[1] = caller
      OBVIOUS
    <3>2. IsInjective(<<caller>>)
      BY <3>1 DEF IsInjective
    <3>3. ToSet(<<caller>>) = {caller}
      BY <3>1 DEF ToSet
    <3> QED
      BY <2>2, <3>1, <3>2, <3>3 DEF Lists
  <2>3. CASE c = class /\ c \in DOMAIN map /\ caller \notin Range(map[c]) /\ M[c] = Append(map[c], caller)
    <3> DEFINE s == map[c]
    <3>1. s \in Lists(Int) /\ s \in Seq(Int) /\ c \notin ToSet(s)
      BY <2>3 DEF Relation, Lists
    <3>2. \A j \in DOMAIN s : s[j] # caller
      BY <2>3 DEF Range
    <3> HIDE DEF s
    <3>3. Append(s, caller) \in Lists(Int) /\ ToSet(Append(s, caller)) = ToSet(s) \cup {caller}
      <4>1. Append(s, caller) \in Lists(Int)
        BY <3>1, <3>2, ListAppend
      <4>2. Range(Append(s, caller)) = Range(s) \cup {caller}
        BY <3>1, AppendRange
      <4> QED
        BY <4>1, <4>2 DEF ToSet, Range
    <3>4. Len(Append(s, caller)) = Len(s) + 1 /\ Len(s) \in Nat
      BY <3>1, AppendProperties, LenProperties
    <3> QED
      BY <2>3, <3>1, <3>3, <3>4 DEF s
  <2> QED
    BY <1>1, <1>2, <2>1, <2>2, <2>3
<1> QED
  BY <1>3, <1>4 DEF Relation, M

\* A class in front of its callers.
LEMMA CalledInFront ==
  ASSUME NEW c \in Int, NEW s \in Lists(Int), Len(s) > 0, c \notin ToSet(s)
  PROVE  <<c>> \o s \in Lists(Int) /\ Len(<<c>> \o s) > 1
<1> DEFINE r == <<c>> \o s
           l == Len(s)
<1>1. s \in Seq(Int) /\ IsInjective(s)
  BY DEF Lists
<1>2. l \in Nat /\ DOMAIN s = 1 .. l
  BY <1>1, LenProperties
<1>3. <<c>> \in Seq(Int) /\ Len(<<c>>) = 1 /\ <<c>>[1] = c
  OBVIOUS
<1>4. r \in Seq(Int) /\ Len(r) = 1 + l
  BY <1>1, <1>3, ConcatProperties
<1>5. \A i \in 1 .. 1 + l : r[i] = IF i <= 1 THEN <<c>>[i] ELSE s[i - 1]
  BY <1>1, <1>3, ConcatProperties
<1>6. DOMAIN r = 1 .. 1 + l
  BY <1>4, LenProperties
<1> HIDE DEF r, l
<1>7. \A i \in 1 .. 1 + l : i # 1 => i - 1 \in 1 .. l /\ ~ (i <= 1) /\ i = (i - 1) + 1
  BY <1>2
<1>8. \A i \in 1 .. 1 + l : i # 1 => r[i] = s[i - 1] /\ r[i] \in ToSet(s)
  BY <1>2, <1>5, <1>7 DEF ToSet
<1>9. r[1] = c
  BY <1>2, <1>3, <1>5
<1>10. ASSUME NEW i \in 1 .. 1 + l, NEW j \in 1 .. 1 + l, r[i] = r[j]
       PROVE  i = j
  <2>1. CASE i = 1
    BY <1>8, <1>9, <1>10, <2>1
  <2>2. CASE j = 1
    BY <1>8, <1>9, <1>10, <2>2
  <2>3. CASE i # 1 /\ j # 1
    <3>1. s[i - 1] = s[j - 1] /\ i - 1 \in DOMAIN s /\ j - 1 \in DOMAIN s
      BY <1>2, <1>7, <1>8, <1>10, <2>3
    <3>2. i - 1 = j - 1
      BY <1>1, <3>1 DEF IsInjective
    <3> QED
      BY <1>7, <2>3, <3>2
  <2> QED
    BY <2>1, <2>2, <2>3
<1>11. IsInjective(r)
  BY <1>6, <1>10 DEF IsInjective
<1>12. 1 + l > 1
  BY <1>2 DEF l
<1> QED
  BY <1>4, <1>11, <1>12 DEF Lists, r

\* classtonum: the position of a class among the vertices, from 0.
Numbering(names) == [c \in ToSet(names) |-> SelectInSeq(names, LAMBDA d : d = c) - 1]

\* num numbers the names from 0 on.
Numbers(names, num) ==
  /\ num \in [ToSet(names) -> 0 .. Len(names) - 1]
  /\ \A c \in ToSet(names) : names[num[c] + 1] = c
  /\ \A i \in 1 .. Len(names) : num[names[i]] = i - 1

\* classtonum does.
LEMMA NumberingIs ==
  ASSUME NEW names \in Lists(Int)
  PROVE  Numbers(names, Numbering(names))
<1> DEFINE n == Len(names)
           num == Numbering(names)
           C == ToSet(names)
<1>1. names \in Seq(Int) /\ IsInjective(names)
  BY DEF Lists
<1>2. n \in Nat /\ DOMAIN names = 1 .. n
  BY <1>1, LenProperties
<1>3. ASSUME NEW c \in C
      PROVE  num[c] \in 0 .. n - 1 /\ names[num[c] + 1] = c
  <2> DEFINE I == {i \in 1 .. n : names[i] = c}
  <2>1. num[c] = SelectInSeq(names, LAMBDA d : d = c) - 1
    BY DEF Numbering
  <2>2. SelectInSeq(names, LAMBDA d : d = c) = IF I # {} THEN Min(I) ELSE 0
    BY DEF SelectInSeq
  <2>3. I # {}
    BY <1>2 DEF ToSet
  <2>4. I \subseteq Nat
    BY <1>2
  <2>5. Min(I) \in I
    <3> HIDE DEF I
    <3> QED
      BY <2>3, <2>4, Smallest
  <2>6. Min(I) \in 1 .. n /\ names[Min(I)] = c
    BY <2>5
  <2> HIDE DEF I, num, n
  <2>7. num[c] = Min(I) - 1
    BY <2>1, <2>2, <2>3
  <2> DEFINE m == Min(I)
  <2> HIDE DEF m
  <2>8. m \in 1 .. n /\ num[c] = m - 1
    BY <2>6, <2>7 DEF m
  <2>9. num[c] \in 0 .. n - 1 /\ num[c] + 1 = m
    BY <1>2, <2>8
  <2> QED
    BY <2>6, <2>9 DEF m
<1>4. DOMAIN num = C /\ num = [c \in C |-> num[c]]
  BY DEF Numbering
<1> HIDE DEF num, n
<1>5. num \in [C -> 0 .. n - 1]
  BY <1>3, <1>4
<1>6. ASSUME NEW i \in 1 .. n
      PROVE  num[names[i]] = i - 1
  <2> DEFINE k == num[names[i]]
  <2>1. names[i] \in C
    BY <1>2 DEF ToSet
  <2> HIDE DEF C
  <2>2. k \in 0 .. n - 1 /\ names[k + 1] = names[i]
    BY <1>3, <2>1
  <2> HIDE DEF k
  <2>3. k + 1 \in 1 .. n
    BY <1>2, <2>2
  <2>4. k + 1 = i
    BY <1>1, <1>2, <2>2, <2>3 DEF IsInjective
  <2> QED
    BY <1>2, <2>2, <2>4 DEF k
<1> QED
  BY <1>3, <1>5, <1>6 DEF Numbers, num, n

\* The edge of a list of classes.
EdgeOf(s, num, n, m) ==
  /\ m \in Lists(0 .. n - 1) /\ m \in Seq(0 .. n - 1) /\ Len(m) = Len(s)
  /\ ToSet(m) = {num[c] : c \in ToSet(s)}
  /\ Cardinality(ToSet(m)) = Len(m)

\* Classes numbered apart are vertices apart.
LEMMA EdgeIs ==
  ASSUME NEW names \in Lists(Int), NEW num, Numbers(names, num),
         NEW s \in Lists(Int), ToSet(s) \subseteq ToSet(names)
  PROVE  EdgeOf(s, num, Len(names), Mapped(s, num))
<1> DEFINE n == Len(names)
           l == Len(s)
           m == Mapped(s, num)
           C == ToSet(names)
           V == 0 .. n - 1
<1>1. s \in Seq(Int) /\ IsInjective(s)
  BY DEF Lists
<1>2. l \in Nat /\ DOMAIN s = 1 .. l
  BY <1>1, LenProperties
<1>3. \A j \in 1 .. l : s[j] \in ToSet(s)
  BY <1>2 DEF ToSet
<1>4. ToSet(s) = {s[j] : j \in 1 .. l}
  BY <1>2 DEF ToSet
<1>5. num \in [C -> V] /\ \A c \in C : names[num[c] + 1] = c
  BY DEF Numbers
<1>6. m = [j \in 1 .. l |-> num[s[j]]]
  BY <1>2 DEF Mapped
<1> HIDE DEF l, m, C, V
<1>7. ToSet(s) \subseteq C
  BY DEF C
<1>8. m \in [1 .. l -> V]
  BY <1>3, <1>5, <1>6, <1>7
<1>9. m \in Seq(V) /\ Len(m) = l
  BY <1>2, <1>8, LenIs
<1>10. DOMAIN m = 1 .. l /\ \A j \in 1 .. l : m[j] = num[s[j]]
  BY <1>6
<1>11. ASSUME NEW i \in 1 .. l, NEW j \in 1 .. l, m[i] = m[j]
       PROVE  i = j
  <2>1. num[s[i]] = num[s[j]] /\ s[i] \in C /\ s[j] \in C
    BY <1>3, <1>7, <1>10, <1>11
  <2>2. s[i] = s[j]
    BY <1>5, <2>1
  <2> QED
    BY <1>1, <1>2, <2>2 DEF IsInjective
<1>12. IsInjective(m)
  BY <1>10, <1>11 DEF IsInjective
<1>13. m \in Lists(V)
  BY <1>9, <1>12 DEF Lists
<1>14. Cardinality(ToSet(m)) = Len(m)
  BY <1>13, ListCardinality
<1>15. ToSet(m) = {num[c] : c \in ToSet(s)}
  <2>1. ToSet(m) = {m[j] : j \in 1 .. l}
    BY <1>10 DEF ToSet
  <2> QED
    BY <1>4, <1>10, <2>1
<1> QED
  BY <1>9, <1>13, <1>14, <1>15 DEF EdgeOf, l, m, V

-----------------------------------------------------------------------------
(***************************************************************************)
(* createHypergraph.                                                       *)
(***************************************************************************)

\* The lists of classes the edges come from.
Listed(lists) ==
  /\ lists \in Seq(Seq(Int)) /\ Len(lists) \in Nat /\ DOMAIN lists = 1 .. Len(lists)
  /\ \A e \in 1 .. Len(lists) : lists[e] \in Lists(Int) /\ Len(lists[e]) > 1

\* The vertices are the classes in the lists.
LEMMA VertexListIs ==
  ASSUME NEW lists, Listed(lists)
  PROVE  /\ VertexList(lists) \in Lists(Int)
         /\ ToSet(VertexList(lists)) = UNION {ToSet(lists[e]) : e \in 1 .. Len(lists)}
<1> DEFINE flat == FlattenSeq(lists)
<1>1. flat \in Seq(Int) /\ ToSet(flat) = UNION {ToSet(lists[e]) : e \in 1 .. Len(lists)}
  BY FlattenSeqType DEF Listed
<1>2. VertexList(lists) = FirstSeen(flat)
  BY DEF VertexList
<1> HIDE DEF flat
<1>3. FirstSeen(flat) \in Lists(Int) /\ ToSet(FirstSeen(flat)) = ToSet(flat)
  BY <1>1, FirstSeenLists
<1> QED
  BY <1>1, <1>2, <1>3

\* The graph of lists of classes has the shape the cutting code takes for granted.
LEMMA RootOfLists ==
  ASSUME NEW lists, Listed(lists), NEW names, names = VertexList(lists), NEW num, num = Numbering(names),
         NEW G, G = [n    |-> Len(names),
                     eind |-> [e \in DOMAIN lists |-> Mapped(lists[e], num)],
                     w    |-> [e \in DOMAIN lists |-> 1]]
  PROVE  IsRoot(G)
<1> DEFINE n == Len(names)
           V == 0 .. n - 1
           L == Len(lists)
           eind == [e \in DOMAIN lists |-> Mapped(lists[e], num)]
           On(e) == {G.eind[e][j] : j \in DOMAIN G.eind[e]}
<1>1. /\ L \in Nat /\ DOMAIN lists = 1 .. L
      /\ \A e \in 1 .. L : lists[e] \in Lists(Int) /\ Len(lists[e]) > 1
  BY DEF Listed
<1>2. names \in Lists(Int) /\ ToSet(names) = UNION {ToSet(lists[e]) : e \in 1 .. L}
  BY VertexListIs
<1>3. Numbers(names, num)
  BY <1>2, NumberingIs
<1>4. n \in Nat /\ DOMAIN names = 1 .. n
  BY <1>2, LenProperties DEF Lists
<1>5. G.n = n /\ G.eind = eind /\ G.w = [e \in DOMAIN lists |-> 1]
  OBVIOUS
<1>6. DOMAIN G.eind = 1 .. L /\ \A e \in 1 .. L : G.eind[e] = Mapped(lists[e], num)
  BY <1>1, <1>5
<1> HIDE DEF L, n, eind
<1>7. ASSUME NEW e \in 1 .. L
      PROVE  EdgeOf(lists[e], num, n, G.eind[e])
  <2>1. ToSet(lists[e]) \subseteq ToSet(names) /\ lists[e] \in Lists(Int)
    BY <1>1, <1>2
  <2>2. EdgeOf(lists[e], num, Len(names), Mapped(lists[e], num))
    BY <1>2, <1>3, <2>1, EdgeIs
  <2> QED
    BY <1>6, <2>2 DEF n
<1>8. \A e \in 1 .. L : On(e) = ToSet(G.eind[e])
  BY DEF ToSet
<1>9. G.eind \in Seq(Seq(V))
  <2>1. \A e \in 1 .. L : G.eind[e] \in Seq(V)
    BY <1>7 DEF EdgeOf
  <2>2. G.eind = [e \in 1 .. L |-> G.eind[e]]
    BY <1>1, <1>5 DEF eind
  <2> DEFINE f == G.eind
  <2> HIDE DEF f, V
  <2>3. f \in [1 .. L -> Seq(V)]
    BY <2>1, <2>2 DEF f
  <2>4. f \in Seq(Seq(V))
    BY <1>1, <2>3, LenIs
  <2> QED
    BY <2>4 DEF f
<1>10. \A e \in 1 .. L : Len(G.eind[e]) > 1 /\ Cardinality(On(e)) = Len(G.eind[e])
  BY <1>1, <1>7, <1>8 DEF EdgeOf
<1>11. UNION {On(e) : e \in 1 .. L} = V
  <2>1. \A e \in 1 .. L : On(e) = {num[c] : c \in ToSet(lists[e])}
    BY <1>7, <1>8 DEF EdgeOf
  <2>2. \A e \in 1 .. L : On(e) \subseteq V
    <3>1. num \in [ToSet(names) -> V]
      BY <1>3 DEF Numbers, n
    <3> HIDE DEF On, V
    <3> QED
      BY <1>2, <2>1, <3>1
  <2>3. ASSUME NEW v \in V
        PROVE  \E e \in 1 .. L : v \in On(e)
    <3>1. v + 1 \in 1 .. n /\ (v + 1) - 1 = v
      BY <1>4
    <3> DEFINE c == names[v + 1]
    <3>2. c \in ToSet(names)
      BY <1>4, <3>1 DEF ToSet
    <3>3. num[c] = (v + 1) - 1
      BY <1>3, <3>1 DEF Numbers, n
    <3> HIDE DEF c, On
    <3>4. PICK e \in 1 .. L : c \in ToSet(lists[e])
      BY <1>2, <3>2
    <3>5. v \in On(e)
      BY <2>1, <3>1, <3>3, <3>4
    <3> QED
      BY <3>5
  <2> HIDE DEF On, V
  <2> QED
    BY <2>2, <2>3
<1>12. G.w = [e \in DOMAIN G.eind |-> 1]
  BY <1>1, <1>5, <1>6
<1> QED
  BY <1>4, <1>5, <1>6, <1>9, <1>10, <1>11, <1>12 DEF IsRoot

\* createHypergraph's edges: the classes that are called, by name, each with its
\* callers; the graph of such lists.
CalledOnes == Sorted(DOMAIN calledrelation)
ListsOf == [e \in DOMAIN CalledOnes |-> <<CalledOnes[e]>> \o calledrelation[CalledOnes[e]]]
GraphOf(lists) ==
  [n    |-> Len(VertexList(lists)),
   eind |-> [e \in DOMAIN lists |-> Mapped(lists[e], Numbering(VertexList(lists)))],
   w    |-> [e \in DOMAIN lists |-> 1]]

\* The vertices of that graph are numbered as the classes first occur in the lists.
LEMMA OrderOfLists ==
  ASSUME NEW lists, Listed(lists)
  PROVE  InOrder(GraphOf(lists))
<1> DEFINE flat == FlattenSeq(lists)
           names == VertexList(lists)
           num == Numbering(names)
           G == GraphOf(lists)
           L == Len(lists)
<1> SUFFICES InOrder(G)
  OBVIOUS
<1>1. /\ lists \in Seq(Seq(Int)) /\ DOMAIN lists = 1 .. L
      /\ \A e \in 1 .. L : lists[e] \in Seq(Int)
  BY DEF Listed, Lists
<1>2. names \in Lists(Int) /\ ToSet(names) = UNION {ToSet(lists[e]) : e \in 1 .. L}
  BY VertexListIs
<1>3. Numbers(names, num)
  BY <1>2, NumberingIs
<1>4. flat \in Seq(Int) /\ names = FirstSeen(flat)
  BY <1>1, FlattenSeqType DEF VertexList
<1>5. DOMAIN G.eind = 1 .. L /\ \A e \in 1 .. L : G.eind[e] = Mapped(lists[e], num)
  BY <1>1 DEF GraphOf
<1> HIDE DEF names, num, G, L
<1>6. \A e \in 1 .. L : /\ DOMAIN G.eind[e] = DOMAIN lists[e]
                        /\ \A j \in DOMAIN lists[e] : G.eind[e][j] = num[lists[e][j]]
  <2> SUFFICES ASSUME NEW e \in 1 .. L
               PROVE  /\ DOMAIN G.eind[e] = DOMAIN lists[e]
                      /\ \A j \in DOMAIN lists[e] : G.eind[e][j] = num[lists[e][j]]
    OBVIOUS
  <2>1. G.eind[e] = [j \in DOMAIN lists[e] |-> num[lists[e][j]]]
    BY <1>5 DEF Mapped
  <2> QED
    BY <2>1
<1>7. KeepsOrder(flat, names, Len(flat))
  BY <1>4, FirstSeenOrder
<1> SUFFICES ASSUME NEW e \in DOMAIN G.eind, NEW j \in DOMAIN G.eind[e], NEW v \in 0 .. G.eind[e][j] - 1
             PROVE  \/ \E i \in 1 .. j - 1 : G.eind[e][i] = v
                    \/ \E d \in 1 .. e - 1 : \E i \in DOMAIN G.eind[d] : G.eind[d][i] = v
  BY DEF InOrder
<1>8. e \in 1 .. L /\ j \in DOMAIN lists[e]
  BY <1>5, <1>6
<1>9. DOMAIN lists[e] = 1 .. Len(lists[e]) /\ Len(lists[e]) \in Nat
  BY <1>1, <1>8, LenProperties
<1>10. L \in Nat
  BY <1>1, LenProperties DEF L
<1> DEFINE c == lists[e][j]
           q == num[c] + 1
           p == v + 1
<1>11. c \in ToSet(names) /\ G.eind[e][j] = num[c]
  <2>1. c \in ToSet(lists[e])
    BY <1>8 DEF ToSet
  <2> QED
    BY <1>2, <1>6, <1>8, <2>1
<1>12. q \in 1 .. Len(names) /\ names[q] = c /\ p \in 1 .. q - 1 /\ p \in 1 .. Len(names)
  <2>1. num[c] \in 0 .. Len(names) - 1 /\ names[num[c] + 1] = c
    BY <1>3, <1>11 DEF Numbers
  <2>2. Len(names) \in Nat
    BY <1>2, LenProperties DEF Lists
  <2> QED
    BY <1>11, <2>1, <2>2
<1>13. num[names[p]] = v
  <2>1. num[names[p]] = p - 1
    BY <1>3, <1>12 DEF Numbers
  <2> QED
    BY <2>1
<1>14. PICK k \in 1 .. Len(flat) : flat[k] = c /\ \A i \in 1 .. k - 1 : flat[i] \in AheadOf(lists, e, j)
  <2>1. InPlace(lists, flat, e, j)
    BY <1>1, <1>8, <1>9, FlattenSeqOrder DEF L
  <2> QED
    BY <2>1 DEF InPlace
<1> HIDE DEF c, q, p, flat
<1>15. PICK i \in 1 .. k - 1 : flat[i] = names[p]
  BY <1>7, <1>12, <1>14 DEF KeepsOrder
<1>16. names[p] \in AheadOf(lists, e, j)
  BY <1>14, <1>15
<1>17. CASE \E a \in 1 .. j - 1 : lists[e][a] = names[p]
  <2>1. PICK a \in 1 .. j - 1 : lists[e][a] = names[p]
    BY <1>17
  <2>2. a \in DOMAIN lists[e]
    BY <1>8, <1>9
  <2>3. G.eind[e][a] = v
    BY <1>6, <1>8, <1>13, <2>1, <2>2
  <2> QED
    BY <2>3
<1>18. CASE \E d \in 1 .. e - 1 : names[p] \in ToSet(lists[d])
  <2>1. PICK d \in 1 .. e - 1 : names[p] \in ToSet(lists[d])
    BY <1>18
  <2>2. d \in 1 .. L
    BY <1>8, <1>10
  <2>3. PICK a \in DOMAIN lists[d] : lists[d][a] = names[p]
    BY <2>1 DEF ToSet
  <2>4. a \in DOMAIN G.eind[d] /\ G.eind[d][a] = v
    BY <1>6, <1>13, <2>2, <2>3
  <2> QED
    BY <2>4
<1> QED
  BY <1>16, <1>17, <1>18 DEF AheadOf

\* createHypergraph's lists are lists of classes.
LEMMA ListsAre ==
  ASSUME Relation(calledrelation)
  PROVE  /\ Listed(ListsOf) /\ Len(ListsOf) = Len(CalledOnes)
         /\ IsInjective(CalledOnes) /\ DOMAIN CalledOnes = 1 .. Len(CalledOnes)
         /\ ToSet(CalledOnes) = DOMAIN calledrelation
         /\ \A e \in 1 .. Len(CalledOnes) :
              /\ CalledOnes[e] \in DOMAIN calledrelation
              /\ ListsOf[e] = <<CalledOnes[e]>> \o calledrelation[CalledOnes[e]]
<1> DEFINE D == DOMAIN calledrelation
           called == CalledOnes
           lists == ListsOf
<1>1. /\ IsFiniteSet(D) /\ D \subseteq Int
      /\ \A c \in D : calledrelation[c] \in Lists(Int) /\ Len(calledrelation[c]) > 0 /\ c \notin ToSet(calledrelation[c])
  BY DEF Relation
<1>2. called \in Seq(D) /\ DOMAIN called = 1 .. Len(called) /\ IsInjective(called) /\ ToSet(called) = D
  <2> HIDE DEF D
  <2> QED
    BY <1>1, SortedIs, SortedAll DEF CalledOnes, D
<1>3. Len(called) \in Nat /\ \A e \in 1 .. Len(called) : called[e] \in D
  <2> HIDE DEF D
  <2> QED
    BY <1>2, LenProperties, ElementOfSeq
<1>4. lists = [e \in DOMAIN called |-> <<called[e]>> \o calledrelation[called[e]]]
  BY DEF ListsOf
<1> HIDE DEF D, called
<1>5. DOMAIN lists = 1 .. Len(called)
      /\ \A e \in 1 .. Len(called) : lists[e] = <<called[e]>> \o calledrelation[called[e]]
  BY <1>2, <1>4
<1>6. lists = [e \in 1 .. Len(called) |-> lists[e]]
  BY <1>2, <1>4
<1> HIDE DEF lists
<1>7. ASSUME NEW e \in 1 .. Len(called)
      PROVE  lists[e] \in Lists(Int) /\ lists[e] \in Seq(Int) /\ Len(lists[e]) > 1
  <2> DEFINE c == called[e]
             s == calledrelation[c]
  <2>1. c \in D /\ c \in Int /\ s \in Lists(Int) /\ Len(s) > 0 /\ c \notin ToSet(s)
    BY <1>1, <1>3
  <2>2. lists[e] = <<c>> \o s
    BY <1>5
  <2> HIDE DEF c, s
  <2>3. lists[e] \in Lists(Int) /\ Len(lists[e]) > 1
    BY <2>1, <2>2, CalledInFront
  <2> QED
    BY <2>3 DEF Lists
<1>8. lists \in [1 .. Len(called) -> Seq(Int)]
  BY <1>6, <1>7
<1>9. lists \in Seq(Seq(Int)) /\ Len(lists) = Len(called)
  BY <1>3, <1>8, LenIs
<1>10. Listed(lists)
  BY <1>3, <1>5, <1>7, <1>9 DEF Listed
<1> QED
  BY <1>2, <1>3, <1>5, <1>9, <1>10 DEF called, lists, D

\* createHypergraph makes their graph.
LEMMA ModelOfLists ==
  ASSUME Relation(calledrelation), createHypergraph
  PROVE  vertices' = VertexList(ListsOf) /\ pHyper' = GraphOf(ListsOf)
<1> DEFINE called == CalledOnes
           lists == ListsOf
           names == VertexList(lists)
           num == Numbering(names)
           Number(c) == SelectInSeq(names, LAMBDA d : d = c) - 1
<1>1. /\ vertices' = names
      /\ pHyper' = [n    |-> Len(names),
                    eind |-> [e \in DOMAIN lists |-> [j \in DOMAIN lists[e] |-> Number(lists[e][j])]],
                    w    |-> [e \in DOMAIN lists |-> 1]]
  BY DEF createHypergraph, ListsOf, CalledOnes
<1>2. \A c \in ToSet(names) : Number(c) = num[c]
  BY DEF Numbering
<1>3. Listed(lists)
  BY ListsAre
<1> HIDE DEF lists, num, Number, names
<1>4. DOMAIN lists = 1 .. Len(lists) /\ ToSet(names) = UNION {ToSet(lists[e]) : e \in 1 .. Len(lists)}
  BY <1>3, VertexListIs DEF names, Listed
<1>5. ASSUME NEW e \in DOMAIN lists
      PROVE  [j \in DOMAIN lists[e] |-> Number(lists[e][j])] = Mapped(lists[e], num)
  <2>1. \A j \in DOMAIN lists[e] : lists[e][j] \in ToSet(lists[e])
    BY DEF ToSet
  <2>2. ToSet(lists[e]) \subseteq ToSet(names)
    BY <1>4
  <2>3. \A j \in DOMAIN lists[e] : Number(lists[e][j]) = num[lists[e][j]]
    BY <1>2, <2>1, <2>2
  <2> QED
    BY <2>3 DEF Mapped
<1>6. pHyper' = [n    |-> Len(names),
                 eind |-> [e \in DOMAIN lists |-> Mapped(lists[e], num)],
                 w    |-> [e \in DOMAIN lists |-> 1]]
  BY <1>1, <1>5
<1> QED
  BY <1>1, <1>6 DEF GraphOf, names, num, lists

\* A list of one.
LEMMA OneElement ==
  ASSUME NEW x
  PROVE  ToSet(<<x>>) = {x}
<1>1. DOMAIN <<x>> = {1} /\ <<x>>[1] = x
  OBVIOUS
<1> QED
  BY <1>1 DEF ToSet

\* In the graph g with the vertices names, every class that rel says is called has
\* one edge, with that class and its callers.
Edges(g, names, rel) ==
  LET Of(e) == names[g.eind[e][1] + 1]
      On(e) == {names[v + 1] : v \in Range(g.eind[e])}
  IN  /\ \A e \in DOMAIN g.eind : Of(e) \in DOMAIN rel /\ On(e) = {Of(e)} \cup ToSet(rel[Of(e)])
      /\ \A t \in DOMAIN rel : \E e \in DOMAIN g.eind : Of(e) = t
      /\ \A e, f \in DOMAIN g.eind : Of(e) = Of(f) => e = f

\* That is so of the graph createHypergraph makes.
LEMMA ModelEdges ==
  ASSUME Relation(calledrelation), createHypergraph
  PROVE  Edges(pHyper', vertices', calledrelation)
<1> DEFINE lists == ListsOf
           G == GraphOf(lists)
           names == VertexList(lists)
           num == Numbering(names)
           called == CalledOnes
           m == Len(called)
           Of(e) == names[G.eind[e][1] + 1]
           On(e) == {names[v + 1] : v \in Range(G.eind[e])}
<1>1. /\ vertices' = names /\ pHyper' = G /\ Listed(lists) /\ Len(lists) = m
      /\ IsInjective(called) /\ DOMAIN called = 1 .. m /\ ToSet(called) = DOMAIN calledrelation
      /\ \A e \in 1 .. m : /\ called[e] \in DOMAIN calledrelation
                           /\ lists[e] = <<called[e]>> \o calledrelation[called[e]]
  BY ModelOfLists, ListsAre
<1> HIDE DEF lists, called
<1>2. names \in Lists(Int) /\ ToSet(names) = UNION {ToSet(lists[e]) : e \in 1 .. m}
  BY <1>1, VertexListIs
<1>3. Numbers(names, num)
  BY <1>2, NumberingIs
<1>4. DOMAIN lists = 1 .. m
  BY <1>1 DEF Listed
<1>5. DOMAIN G.eind = 1 .. m /\ \A e \in 1 .. m : G.eind[e] = Mapped(lists[e], num)
  BY <1>4 DEF GraphOf
<1> HIDE DEF names, num, G, m
<1>6. ASSUME NEW e \in 1 .. m
      PROVE  Of(e) = called[e] /\ On(e) = {called[e]} \cup ToSet(calledrelation[called[e]])
  <2> DEFINE c == called[e]
             s == calledrelation[c]
             l == lists[e]
             r == G.eind[e]
  <2>1. c \in Int /\ s \in Seq(Int) /\ l = <<c>> \o s
    BY <1>1 DEF Relation, Lists
  <2>2. l \in Lists(Int) /\ ToSet(l) \subseteq ToSet(names) /\ r = Mapped(l, num)
    BY <1>1, <1>2, <1>5 DEF Listed
  <2> HIDE DEF c, s, l, r
  <2>3. ToSet(l) = {c} \cup ToSet(s)
    <3> DEFINE u == <<c>>
    <3>1. u \in Seq(Int) /\ ToSet(u) = {c} /\ l = u \o s
      BY <2>1, OneElement
    <3> HIDE DEF u
    <3>2. ToSet(u \o s) = ToSet(u) \cup ToSet(s)
      BY <2>1, <3>1, ConcatSet
    <3> QED
      BY <3>1, <3>2
  <2>4. 1 \in DOMAIN l /\ l[1] = c
    <3>1. <<c>> \in Seq(Int) /\ Len(<<c>>) = 1 /\ <<c>>[1] = c /\ Len(s) \in Nat
      BY <2>1, LenProperties
    <3>2. l \in Seq(Int) /\ Len(l) = 1 + Len(s) /\ \A i \in 1 .. 1 + Len(s) : l[i] = IF i <= 1 THEN <<c>>[i] ELSE s[i - 1]
      BY <2>1, <3>1, ConcatProperties
    <3>3. DOMAIN l = 1 .. 1 + Len(s) /\ 1 \in 1 .. 1 + Len(s)
      BY <3>1, <3>2, LenProperties
    <3> QED
      BY <3>1, <3>2, <3>3
  <2>5. ToSet(r) = {num[x] : x \in ToSet(l)}
    BY <1>2, <1>3, <2>2, EdgeIs DEF EdgeOf
  <2>6. \A x \in ToSet(l) : names[num[x] + 1] = x
    BY <1>3, <2>2 DEF Numbers
  <2>7. r[1] = num[c] /\ c \in ToSet(l)
    BY <2>2, <2>3, <2>4 DEF Mapped
  <2>8. Range(r) = ToSet(r)
    BY DEF Range, ToSet
  <2>9. {names[v + 1] : v \in Range(r)} = ToSet(l)
    BY <2>5, <2>6, <2>8
  <2>10. names[r[1] + 1] = c
    BY <2>6, <2>7
  <2> QED
    BY <2>3, <2>9, <2>10 DEF r, c, s
<1> HIDE DEF Of, On
<1>7. \A e \in 1 .. m : Of(e) \in DOMAIN calledrelation /\ On(e) = {Of(e)} \cup ToSet(calledrelation[Of(e)])
  BY <1>1, <1>6
<1>8. \A t \in DOMAIN calledrelation : \E e \in 1 .. m : Of(e) = t
  BY <1>1, <1>6 DEF ToSet
<1>9. \A e, f \in 1 .. m : Of(e) = Of(f) => e = f
  BY <1>1, <1>6 DEF IsInjective
<1>10. Edges(G, names, calledrelation)
  BY <1>5, <1>7, <1>8, <1>9 DEF Edges, Of, On
<1> QED
  BY <1>1, <1>10

\* It is a root, numbered in order, and no two edges begin with the same class.
LEMMA ModelIsRoot ==
  ASSUME Relation(calledrelation), createHypergraph
  PROVE  IsRoot(pHyper') /\ InOrder(pHyper') /\ OneEdgePerClass(pHyper') /\ Len(vertices') = pHyper'.n
<1> DEFINE lists == ListsOf
           G == GraphOf(lists)
<1>1. vertices' = VertexList(lists) /\ pHyper' = G /\ Listed(lists)
  BY ModelOfLists, ListsAre
<1> HIDE DEF lists
<1>2. G.n = Len(VertexList(lists))
  BY DEF GraphOf
<1>3. InOrder(G)
  BY <1>1, OrderOfLists
<1> HIDE DEF G
<1>4. IsRoot(G)
  BY <1>1, RootOfLists DEF G, GraphOf
<1>5. OneEdgePerClass(pHyper')
  <2>1. \A d, e \in DOMAIN pHyper'.eind : pHyper'.eind[d][1] = pHyper'.eind[e][1] => d = e
    BY ModelEdges DEF Edges
  <2> QED
    BY <2>1 DEF OneEdgePerClass
<1> QED
  BY <1>1, <1>2, <1>3, <1>4, <1>5

-----------------------------------------------------------------------------
(***************************************************************************)
(* Parsing: the shape of the data, and the end of a walk.                  *)
(***************************************************************************)

\* The inductive invariant: what was read has its shape, every use still to be
\* looked at names a source and a class, the queue holds file names, the callers
\* are lists, and the graph is a root.
ParseInv ==
  /\ ReadInv
  /\ pc \in {"folder", "read", "exit", "crash"} => todo = <<>>
  /\ pc \in {"walk", "relate"} => todo # <<>>
  /\ todo \in Seq(Pending)
  /\ allheadfile \in Seq(Int)
  /\ Relation(calledrelation)
  /\ GraphShape

\* The initial state.
LEMMA InitParses == Init => ParseInv
<1> SUFFICES ASSUME Init PROVE ParseInv
  OBVIOUS
<1>1. ReadInit /\ todo = <<>> /\ allheadfile = <<>> /\ calledrelation = <<>>
  BY DEF Init
<1>2. ReadInv /\ pc = "folder"
  BY <1>1, InitReads DEF ReadInit
<1>3. DOMAIN calledrelation = {}
  BY <1>1
<1>4. Relation(calledrelation)
  BY <1>3, FS_EmptySet DEF Relation
<1>5. todo \in Seq(Pending) /\ allheadfile \in Seq(Int)
  BY <1>1
<1> QED
  BY <1>1, <1>2, <1>4, <1>5 DEF ParseInv, GraphShape

\* What parsing leaves alone keeps its shape.
LEMMA ReadStays ==
  ASSUME ReadInv, UNCHANGED readVars
  PROVE  ReadInv' /\ Pending' = Pending /\ hmap' = hmap /\ head' = head
<1>1. UNCHANGED <<unseen, aryh, arycpp, nread, hmap, head>>
  BY DEF readVars
<1>2. ReadInv'
  BY <1>1 DEF ReadInv
<1>3. Written' = Written
  BY <1>1 DEF Written
<1>4. Pending' = Pending
  BY <1>1, <1>3 DEF Pending
<1> QED
  BY <1>1, <1>2, <1>4

\* The source and the class of the use at hand.
LEMMA UseIs ==
  ASSUME ReadInv, todo \in Seq(Pending), todo # <<>>
  PROVE  /\ Use.cpp \in DOMAIN head /\ Use.class \in Int /\ Tail(todo) \in Seq(Pending)
         /\ head[Use.cpp].headfile \in Seq(Int)
<1>1. Use \in Pending
  BY ElementOfSeq, EmptySeq, LenProperties DEF Use
<1>2. Use.cpp \in DOMAIN head /\ Use.class \in Int
  BY <1>1 DEF Pending, UsesIn
<1>3. Tail(todo) \in Seq(Pending)
  BY HeadTailProperties
<1>4. \A i \in DOMAIN head : head[i].headfile \in Seq(Int)
  BY DEF ReadInv, Sources, Range, Source
<1> QED
  BY <1>2, <1>3, <1>4

\* The new include files of a header are as many as its names that were never
\* in the queue.
LEMMA NewIncludesAre ==
  ASSUME ReadInv, NEW h \in DOMAIN hmap
  PROVE  /\ hmap[h].headfile \in Seq(Int)
         /\ NewIncludes(h) \in Seq(Int) /\ NewIncludes(h) \in Lists(Int)
         /\ ToSet(NewIncludes(h)) = Range(hmap[h].headfile) \ donemap
         /\ IsFiniteSet(Range(hmap[h].headfile) \ donemap)
         /\ Len(NewIncludes(h)) = Cardinality(Range(hmap[h].headfile) \ donemap)
<1> DEFINE s == hmap[h].headfile
           S == Range(s) \ donemap
           r == Among(s, S)
           m == NewIncludes(h)
<1>1. s \in Seq(Int)
  BY DEF ReadInv, Headers, Header
<1>2. m = FirstSeen(r)
  BY DEF NewIncludes
<1> HIDE DEF s
<1>3. r \in Seq(Int) /\ Range(r) = Range(s) \cap S
  BY <1>1, AmongType
<1>4. ToSet(r) = S
  BY <1>3 DEF ToSet, Range
<1> HIDE DEF r, m, S
<1>5. m \in Lists(Int) /\ ToSet(m) = ToSet(r)
  BY <1>2, <1>3, FirstSeenLists
<1>6. IsFiniteSet(ToSet(m)) /\ Cardinality(ToSet(m)) = Len(m)
  BY <1>5, ListCardinality
<1>7. m \in Seq(Int)
  BY <1>5 DEF Lists
<1> QED
  BY <1>1, <1>4, <1>5, <1>6, <1>7 DEF s, S, m

\* The queue after a file was taken from it.
LEMMA EnqueueIs ==
  ASSUME ReadInv, allheadfile \in Seq(Int), allheadfile # <<>>
  PROVE  /\ Tail(allheadfile) \in Seq(Int) /\ Len(Tail(allheadfile)) = Len(allheadfile) - 1
         /\ Len(allheadfile) \in Nat
         /\ \A h \in DOMAIN hmap :
              /\ Enqueue(h) \in Seq(Int)
              /\ Len(Enqueue(h)) = (Len(allheadfile) - 1) + Len(NewIncludes(h))
<1>1. Tail(allheadfile) \in Seq(Int) /\ Len(Tail(allheadfile)) = Len(allheadfile) - 1 /\ Len(allheadfile) \in Nat
  BY HeadTailProperties, LenProperties
<1>2. ASSUME NEW h \in DOMAIN hmap
      PROVE  /\ Enqueue(h) \in Seq(Int)
             /\ Len(Enqueue(h)) = (Len(allheadfile) - 1) + Len(NewIncludes(h))
  <2> DEFINE t == Tail(allheadfile)
             m == NewIncludes(h)
  <2>1. m \in Seq(Int) /\ Enqueue(h) = t \o m
    BY NewIncludesAre DEF Enqueue
  <2> HIDE DEF t, m
  <2>2. t \o m \in Seq(Int) /\ Len(t \o m) = Len(t) + Len(m)
    BY <1>1, <2>1, ConcatProperties DEF t
  <2> QED
    BY <1>1, <2>1, <2>2 DEF t, m
<1> QED
  BY <1>1, <1>2

\* A step preserves the invariant.
LEMMA NextParses == ParseInv /\ [Next]_vars => ParseInv'
<1> SUFFICES ASSUME ParseInv, [Next]_vars PROVE ParseInv'
  OBVIOUS
<1>0. /\ ReadInv
      /\ pc \in {"folder", "read", "exit", "crash"} => todo = <<>>
      /\ pc \in {"walk", "relate"} => todo # <<>>
      /\ todo \in Seq(Pending) /\ allheadfile \in Seq(Int) /\ Relation(calledrelation) /\ GraphShape
  BY DEF ParseInv
<1>1. CASE ReadNext /\ UNCHANGED parseVars
  <2>1. ReadInv'
    BY <1>0, <1>1, NextReads
  <2>2. todo' = todo /\ allheadfile' = allheadfile /\ calledrelation' = calledrelation
    BY <1>1 DEF parseVars
  <2>3. pc \in {"folder", "read"} /\ pc' \in {"folder", "read", "exit", "crash"}
    BY <1>1 DEF ReadNext, dfsFolder, NoFolder, EndFolder, ReadHeader, ReadSource, Unreadable
  <2>4. todo' = <<>>
    BY <1>0, <2>2, <2>3
  <2>5. todo' \in Seq(Pending')
    BY <2>4
  <2> QED
    BY <1>0, <2>1, <2>2, <2>3, <2>4, <2>5 DEF ParseInv, GraphShape
<1>2. CASE StartParsing
  <2>1. /\ UNCHANGED readVars /\ todo' = AllUses /\ pc' = "symbol"
        /\ allheadfile' = allheadfile /\ calledrelation' = calledrelation
    BY <1>2 DEF StartParsing
  <2>2. ReadInv' /\ Pending' = Pending
    BY <1>0, <2>1, ReadStays
  <2>3. todo' \in Seq(Pending')
    BY <1>0, <2>1, <2>2, AllUsesAre DEF ReadInv
  <2> QED
    BY <1>0, <2>1, <2>2, <2>3 DEF ParseInv, GraphShape
<1>3. CASE NoVariable
  <2>1. /\ UNCHANGED readVars /\ todo # <<>> /\ todo' = Tail(todo) /\ pc = "symbol" /\ pc' = "symbol"
        /\ allheadfile' = allheadfile /\ calledrelation' = calledrelation
    BY <1>3 DEF NoVariable
  <2>2. ReadInv' /\ Pending' = Pending
    BY <1>0, <2>1, ReadStays
  <2>3. todo' \in Seq(Pending')
    BY <1>0, <2>1, <2>2, UseIs
  <2> QED
    BY <1>0, <2>1, <2>2, <2>3 DEF ParseInv, GraphShape
<1>4. CASE findsymbol
  <2>1. /\ UNCHANGED readVars /\ todo # <<>> /\ todo' = todo /\ pc' \in {"relate", "walk"}
        /\ allheadfile' \in {allheadfile, FirstSeen(head[Use.cpp].headfile)}
        /\ calledrelation' = calledrelation
    BY <1>4 DEF findsymbol
  <2>2. ReadInv' /\ Pending' = Pending
    BY <1>0, <2>1, ReadStays
  <2>3. head[Use.cpp].headfile \in Seq(Int)
    BY <1>0, <2>1, UseIs
  <2>4. FirstSeen(head[Use.cpp].headfile) \in Seq(Int)
    BY <2>3, FirstSeenLists DEF Lists
  <2>5. allheadfile' \in Seq(Int)
    BY <1>0, <2>1, <2>4
  <2> QED
    BY <1>0, <2>1, <2>2, <2>5 DEF ParseInv, GraphShape
<1>5. CASE WalkHeader
  <2>1. /\ UNCHANGED readVars /\ pc = "walk" /\ allheadfile # <<>> /\ todo' = todo /\ pc' \in {"relate", "walk"}
        /\ calledrelation' = calledrelation
    BY <1>5 DEF WalkHeader
  <2>2. allheadfile' = Tail(allheadfile) \/ \E h \in DOMAIN hmap : allheadfile' = Enqueue(h)
    BY <1>5 DEF WalkHeader
  <2>3. ReadInv' /\ Pending' = Pending
    BY <1>0, <2>1, ReadStays
  <2>4. allheadfile' \in Seq(Int)
    BY <1>0, <2>1, <2>2, EnqueueIs
  <2> QED
    BY <1>0, <2>1, <2>3, <2>4 DEF ParseInv, GraphShape
<1>6. CASE WalkEnds
  <2>1. UNCHANGED readVars /\ pc = "walk" /\ pc' = "relate"
    BY <1>6 DEF WalkEnds
  <2>2. todo' = todo /\ allheadfile' = allheadfile /\ calledrelation' = calledrelation
    BY <1>6 DEF WalkEnds, parseVars
  <2>3. ReadInv' /\ Pending' = Pending
    BY <1>0, <2>1, ReadStays
  <2> QED
    BY <1>0, <2>1, <2>2, <2>3 DEF ParseInv, GraphShape
<1>7. CASE Relate
  <2> DEFINE t == TrueType(typeofname)
  <2>1. /\ UNCHANGED readVars /\ pc = "relate" /\ pc' = "symbol" /\ todo' = Tail(todo)
        /\ allheadfile' = allheadfile
        /\ calledrelation' =
             IF typeofname # NoWord /\ t # Use.class /\ \E h \in DOMAIN hmap : t \in DOMAIN hmap[h].classdef
               THEN AddCaller(calledrelation, t, Use.class) ELSE calledrelation
    BY <1>7 DEF Relate
  <2>2. ReadInv' /\ Pending' = Pending
    BY <1>0, <2>1, ReadStays
  <2>3. todo # <<>> /\ Use.class \in Int /\ Tail(todo) \in Seq(Pending)
    BY <1>0, <2>1, UseIs
  <2>4. \A h \in DOMAIN hmap : DOMAIN hmap[h].classdef \subseteq Int
    BY <1>0 DEF ReadInv, Headers, Header
  <2> HIDE DEF t
  <2>5. Relation(calledrelation')
    <3>1. CASE t # Use.class /\ \E h \in DOMAIN hmap : t \in DOMAIN hmap[h].classdef
      <4>1. t \in Int
        BY <2>4, <3>1
      <4>2. Relation(AddCaller(calledrelation, t, Use.class))
        BY <1>0, <2>3, <3>1, <4>1, AddCallerKeeps
      <4> QED
        BY <1>0, <2>1, <4>2
    <3>2. CASE ~ (t # Use.class /\ \E h \in DOMAIN hmap : t \in DOMAIN hmap[h].classdef)
      BY <1>0, <2>1, <3>2
    <3> QED
      BY <3>1, <3>2
  <2> QED
    BY <1>0, <2>1, <2>2, <2>3, <2>5 DEF ParseInv, GraphShape
<1>8. CASE createHypergraph
  <2>1. /\ UNCHANGED readVars /\ pc' = "modelled" /\ todo' = todo
        /\ allheadfile' = allheadfile /\ calledrelation' = calledrelation
    BY <1>8 DEF createHypergraph
  <2>2. ReadInv' /\ Pending' = Pending
    BY <1>0, <2>1, ReadStays
  <2>3. GraphShape'
    BY <1>0, <1>8, ModelIsRoot DEF GraphShape
  <2> QED
    BY <1>0, <2>1, <2>2, <2>3 DEF ParseInv
<1>9. CASE UNCHANGED vars
  <2>1. UNCHANGED readVars /\ UNCHANGED <<pc, todo, allheadfile, calledrelation, pHyper, vertices>>
    BY <1>9 DEF vars, parseVars
  <2>2. ReadInv' /\ Pending' = Pending
    BY <1>0, <2>1, ReadStays
  <2> QED
    BY <1>0, <2>1, <2>2 DEF ParseInv, GraphShape
<1> QED
  BY <1>1, <1>2, <1>3, <1>4, <1>5, <1>6, <1>7, <1>8, <1>9 DEF Next, Over

\* The invariant holds.
LEMMA ParseHolds == Spec => []ParseInv
BY InitParses, NextParses, PTL DEF Spec

\* createHypergraph hands over what the cutting code takes for granted, numbered in
\* order and with one edge for each class that is called, whatever the testcase.
THEOREM ParsingGraphShape == Spec => []GraphShape
<1>1. ParseInv => GraphShape
  BY DEF ParseInv
<1> QED
  BY <1>1, ParseHolds, PTL

\* The include files that occur in the sources and headers are finitely many.
LEMMA MentionedFinite ==
  ASSUME ReadInv
  PROVE  IsFiniteSet(Mentioned) /\ \A h \in DOMAIN hmap : Range(hmap[h].headfile) \subseteq Mentioned
<1> DEFINE A == {Range(hmap[h].headfile) : h \in DOMAIN hmap}
           B == {Range(head[i].headfile) : i \in DOMAIN head}
           H == DOMAIN hmap
           N == DOMAIN head
<1>1. IsFiniteSet(H) /\ \A h \in H : hmap[h].headfile \in Seq(Int)
  BY DEF ReadInv, Headers, Header
<1>2. \A i \in N : head[i].headfile \in Seq(Int)
  BY DEF ReadInv, Sources, Range, Source
<1>3. IsFiniteSet(N)
  <2>1. Len(head) \in Nat /\ N = 1 .. Len(head)
    BY LenProperties DEF ReadInv, Sources, IsText
  <2> QED
    BY <2>1, FS_Interval
<1>4. \A s \in Seq(Int) : IsFiniteSet(Range(s))
  <2> SUFFICES ASSUME NEW s \in Seq(Int) PROVE IsFiniteSet(Range(s))
    OBVIOUS
  <2>1. Len(s) \in Nat /\ DOMAIN s = 1 .. Len(s)
    BY LenProperties
  <2>2. IsFiniteSet(1 .. Len(s))
    BY <2>1, FS_Interval
  <2>3. s \in Surjection(1 .. Len(s), Range(s))
    BY <2>1 DEF Surjection, Range
  <2> QED
    BY <2>2, <2>3, FS_Surjection
<1>5. IsFiniteSet(A)
  <2> DEFINE f == [h \in H |-> Range(hmap[h].headfile)]
  <2>1. f \in Surjection(H, A)
    BY DEF Surjection
  <2> HIDE DEF f, A, H
  <2> QED
    BY <1>1, <2>1, FS_Surjection
<1>6. IsFiniteSet(B)
  <2> DEFINE f == [i \in N |-> Range(head[i].headfile)]
  <2>1. f \in Surjection(N, B)
    BY DEF Surjection
  <2> HIDE DEF f, B, N
  <2> QED
    BY <1>3, <2>1, FS_Surjection
<1>7. \A S \in A \cup B : IsFiniteSet(S)
  BY <1>1, <1>2, <1>4
<1>8. Mentioned = UNION (A \cup B)
  BY DEF Mentioned
<1>9. \A h \in H : Range(hmap[h].headfile) \subseteq UNION (A \cup B)
  OBVIOUS
<1> HIDE DEF A, B
<1>10. IsFiniteSet(A \cup B)
  BY <1>5, <1>6, FS_Union
<1>11. IsFiniteSet(UNION (A \cup B))
  BY <1>7, <1>10, FS_UNION
<1> QED
  BY <1>8, <1>9, <1>11

\* A file taken from the queue leaves fewer that can still come.
LEMMA WalkStep ==
  ASSUME ParseInv, WalkHeader, pc' = "walk"
  PROVE  WalkLeft' < WalkLeft
<1> DEFINE h == Head(allheadfile)
           M == Mentioned
           R == M \ donemap
           q == Len(allheadfile)
<1>1. /\ UNCHANGED readVars /\ pc = "walk" /\ allheadfile # <<>>
      /\ \/ h \in DOMAIN hmap /\ allheadfile' = Enqueue(h) /\ donemap' = donemap \cup Range(hmap[h].headfile)
         \/ allheadfile' = Tail(allheadfile) /\ donemap' = donemap
  BY DEF WalkHeader
<1>2. ReadInv /\ allheadfile \in Seq(Int)
  BY DEF ParseInv
<1>3. hmap' = hmap /\ head' = head
  BY <1>1, <1>2, ReadStays
<1>4. Mentioned' = M
  BY <1>3 DEF Mentioned
<1>5. IsFiniteSet(M) /\ \A g \in DOMAIN hmap : Range(hmap[g].headfile) \subseteq M
  BY <1>2, MentionedFinite
<1>6. q \in Nat /\ Len(Tail(allheadfile)) = q - 1
      /\ \A g \in DOMAIN hmap : Len(Enqueue(g)) = (q - 1) + Len(NewIncludes(g))
  BY <1>1, <1>2, EnqueueIs
<1>7. WalkLeft = Cardinality(R) + q /\ WalkLeft' = Cardinality(M \ donemap') + Len(allheadfile')
  BY <1>4 DEF WalkLeft
<1> HIDE DEF M, q, h
<1>8. IsFiniteSet(R) /\ Cardinality(R) \in Nat
  BY <1>5, FS_Subset, FS_CardinalityType
<1>9. CASE h \in DOMAIN hmap /\ allheadfile' = Enqueue(h) /\ donemap' = donemap \cup Range(hmap[h].headfile)
  <2> DEFINE F == Range(hmap[h].headfile)
             S == F \ donemap
             c == Cardinality(S)
             d == Cardinality(R \ S)
  <2>1. IsFiniteSet(S) /\ Len(NewIncludes(h)) = c
    BY <1>2, <1>9, NewIncludesAre
  <2>2. F \subseteq M
    BY <1>5, <1>9
  <2>3. M \ donemap' = R \ S
    BY <1>9
  <2>4. S \subseteq R
    BY <2>2
  <2> HIDE DEF S, R
  <2>5. c \in Nat /\ d \in Nat
    BY <1>8, <2>1, FS_CardinalityType, FS_Subset, FS_Difference
  <2>6. Cardinality(R) = d + c
    <3>1. R \cap S = S
      BY <2>4
    <3>2. Cardinality(R \ S) = Cardinality(R) - Cardinality(R \cap S)
      BY <1>8, <2>1, FS_Difference
    <3> QED
      BY <1>8, <2>5, <3>1, <3>2
  <2>7. Len(allheadfile') = (q - 1) + c
    BY <1>6, <1>9, <2>1
  <2>8. WalkLeft = (d + c) + q
    BY <1>7, <2>6
  <2>9. WalkLeft' = d + ((q - 1) + c)
    BY <1>7, <2>3, <2>7
  <2> HIDE DEF c, d
  <2> QED
    BY <1>6, <2>5, <2>8, <2>9
<1>10. CASE allheadfile' = Tail(allheadfile) /\ donemap' = donemap
  <2> DEFINE c == Cardinality(R)
  <2>1. WalkLeft = c + q /\ WalkLeft' = c + (q - 1)
    BY <1>6, <1>7, <1>10
  <2> HIDE DEF c, R
  <2> QED
    BY <1>6, <1>8, <2>1 DEF c
<1> QED
  BY <1>1, <1>9, <1>10

\* The walk through the include files narrows with every file, whatever the
\* testcase and however its files include each other.
THEOREM ParsingWalkNarrows == Spec => WalkNarrows
<1>1. ParseInv /\ [Next]_vars => [pc = "walk" /\ pc' = "walk" => WalkLeft' < WalkLeft]_vars
  <2> SUFFICES ASSUME ParseInv, Next, pc = "walk", pc' = "walk"
               PROVE  WalkLeft' < WalkLeft
    OBVIOUS
  <2>1. WalkHeader
    BY DEF Next, ReadNext, dfsFolder, NoFolder, EndFolder, ReadHeader, ReadSource, Unreadable, StartParsing,
           NoVariable, findsymbol, WalkEnds, Relate, createHypergraph, Over
  <2> QED
    BY <2>1, WalkStep
<1> QED
  BY <1>1, ParseHolds, PTL DEF Spec, WalkNarrows

-----------------------------------------------------------------------------
(***************************************************************************)
(* Breadth-first search with a queue.                                      *)
(***************************************************************************)

\* A list without its first entry.
LEMMA ListTail ==
  ASSUME NEW X, NEW s \in Lists(X), s # <<>>
  PROVE  /\ Tail(s) \in Lists(X) /\ Len(s) \in Nat /\ Len(s) > 0 /\ Len(Tail(s)) = Len(s) - 1
         /\ \A i \in 1 .. Len(s) - 1 : Tail(s)[i] = s[i + 1]
         /\ ToSet(Tail(s)) = ToSet(s) \ {Head(s)} /\ Head(s) \in ToSet(s) /\ Head(s) = s[1]
<1> DEFINE t == Tail(s)
           l == Len(s)
           x == Head(s)
<1>1. s \in Seq(X) /\ IsInjective(s)
  BY DEF Lists
<1>2. l \in Nat /\ l > 0 /\ DOMAIN s = 1 .. l
  BY <1>1, LenProperties, EmptySeq
<1>3. t \in Seq(X) /\ Len(t) = l - 1 /\ \A i \in 1 .. l - 1 : t[i] = s[i + 1]
  BY <1>1, HeadTailProperties
<1>4. x = s[1]
  BY <1>1, HeadTailProperties
<1>5. DOMAIN t = 1 .. l - 1
  BY <1>3, LenProperties
<1> HIDE DEF t, l, x
<1>6. \A i \in 1 .. l - 1 : i + 1 \in 1 .. l /\ i + 1 # 1 /\ (i + 1) - 1 = i
  BY <1>2
<1>7. \A i \in 1 .. l : i = 1 \/ (i - 1 \in 1 .. l - 1 /\ (i - 1) + 1 = i)
  BY <1>2
<1>8. 1 \in 1 .. l
  BY <1>2
<1>9. IsInjective(t)
  <2> SUFFICES ASSUME NEW i \in 1 .. l - 1, NEW j \in 1 .. l - 1, t[i] = t[j] PROVE i = j
    BY <1>5 DEF IsInjective
  <2>1. s[i + 1] = s[j + 1] /\ i + 1 \in 1 .. l /\ j + 1 \in 1 .. l
    BY <1>3, <1>6
  <2>2. i + 1 = j + 1
    BY <1>1, <1>2, <2>1 DEF IsInjective
  <2> QED
    BY <1>6, <2>2
<1>10. \A i \in 1 .. l - 1 : t[i] \in ToSet(s) /\ t[i] # x
  <2> SUFFICES ASSUME NEW i \in 1 .. l - 1 PROVE t[i] \in ToSet(s) /\ t[i] # x
    OBVIOUS
  <2>1. t[i] = s[i + 1] /\ i + 1 \in 1 .. l /\ i + 1 # 1
    BY <1>3, <1>6
  <2>2. s[i + 1] # s[1]
    BY <1>1, <1>2, <1>8, <2>1 DEF IsInjective
  <2> QED
    BY <1>2, <1>4, <2>1, <2>2 DEF ToSet
<1>11. \A i \in 1 .. l : s[i] = x \/ s[i] \in ToSet(t)
  <2> SUFFICES ASSUME NEW i \in 1 .. l, i # 1 PROVE s[i] \in ToSet(t)
    BY <1>4
  <2>1. i - 1 \in 1 .. l - 1 /\ t[i - 1] = s[(i - 1) + 1] /\ (i - 1) + 1 = i
    BY <1>3, <1>7
  <2> QED
    BY <1>5, <2>1 DEF ToSet
<1>12. ToSet(t) = ToSet(s) \ {x}
  <2>1. ToSet(t) = {t[i] : i \in 1 .. l - 1} /\ ToSet(s) = {s[i] : i \in 1 .. l}
    BY <1>2, <1>5 DEF ToSet
  <2> QED
    BY <1>10, <1>11, <2>1
<1>13. x \in ToSet(s)
  BY <1>2, <1>4, <1>8 DEF ToSet
<1> QED
  BY <1>2, <1>3, <1>4, <1>9, <1>12, <1>13 DEF Lists, t, l, x

\* Two lists without a common entry make a list.
LEMMA ListConcat ==
  ASSUME NEW X, NEW s \in Lists(X), NEW t \in Lists(X), ToSet(s) \cap ToSet(t) = {}
  PROVE  /\ s \o t \in Lists(X) /\ ToSet(s \o t) = ToSet(s) \cup ToSet(t)
         /\ Len(s \o t) = Len(s) + Len(t) /\ Len(s) \in Nat /\ Len(t) \in Nat
         /\ \A i \in 1 .. Len(s) : (s \o t)[i] = s[i]
         /\ \A i \in Len(s) + 1 .. Len(s) + Len(t) : (s \o t)[i] \in ToSet(t)
<1> DEFINE r == s \o t
           l == Len(s)
           m == Len(t)
<1>1. s \in Seq(X) /\ IsInjective(s) /\ t \in Seq(X) /\ IsInjective(t)
  BY DEF Lists
<1>2. l \in Nat /\ m \in Nat /\ DOMAIN s = 1 .. l /\ DOMAIN t = 1 .. m
  BY <1>1, LenProperties
<1>3. /\ r \in Seq(X) /\ Len(r) = l + m
      /\ \A i \in 1 .. l + m : r[i] = IF i <= l THEN s[i] ELSE t[i - l]
  BY <1>1, ConcatProperties
<1>4. ToSet(r) = ToSet(s) \cup ToSet(t)
  BY <1>1, ConcatSet
<1>5. DOMAIN r = 1 .. l + m
  BY <1>3, LenProperties
<1> HIDE DEF r, l, m
<1>6. \A i \in 1 .. l + m : i \in 1 .. l \/ (~ (i <= l) /\ i - l \in 1 .. m /\ i = (i - l) + l)
  BY <1>2
<1>7. \A i \in 1 .. l : i \in 1 .. l + m /\ i <= l
  BY <1>2
<1>8. \A i \in l + 1 .. l + m : i \in 1 .. l + m /\ ~ (i \in 1 .. l)
  BY <1>2
<1>9. \A i \in 1 .. l : r[i] = s[i] /\ r[i] \in ToSet(s)
  BY <1>2, <1>3, <1>7 DEF ToSet
<1>10. \A i \in 1 .. l + m : ~ (i \in 1 .. l) => r[i] = t[i - l] /\ r[i] \in ToSet(t)
  BY <1>2, <1>3, <1>6 DEF ToSet
<1>11. ASSUME NEW i \in 1 .. l + m, NEW j \in 1 .. l + m, r[i] = r[j]
       PROVE  i = j
  <2>1. CASE i \in 1 .. l /\ j \in 1 .. l
    BY <1>1, <1>2, <1>9, <1>11, <2>1 DEF IsInjective
  <2>2. CASE ~ (i \in 1 .. l) /\ ~ (j \in 1 .. l)
    <3>1. t[i - l] = t[j - l] /\ i - l \in 1 .. m /\ j - l \in 1 .. m
      BY <1>6, <1>10, <1>11, <2>2
    <3>2. i - l = j - l
      BY <1>1, <1>2, <3>1 DEF IsInjective
    <3>3. i = (i - l) + l /\ j = (j - l) + l
      BY <1>6, <2>2
    <3> QED
      BY <3>2, <3>3
  <2>3. CASE i \in 1 .. l /\ ~ (j \in 1 .. l)
    BY <1>9, <1>10, <1>11, <2>3
  <2>4. CASE ~ (i \in 1 .. l) /\ j \in 1 .. l
    BY <1>9, <1>10, <1>11, <2>4
  <2> QED
    BY <2>1, <2>2, <2>3, <2>4
<1>12. IsInjective(r)
  BY <1>5, <1>11 DEF IsInjective
<1>13. \A i \in l + 1 .. l + m : r[i] \in ToSet(t)
  BY <1>8, <1>10
<1> QED
  BY <1>2, <1>3, <1>4, <1>9, <1>12, <1>13 DEF Lists, r, l, m

-----------------------------------------------------------------------------

\* Of the headers D, those that some file in S includes.
Under(D, inc, S) == (UNION {inc[h] : h \in S}) \cap D

\* near[d] are the headers at include distance d.
Distances(D, inc, near) ==
  /\ IsFiniteSet(D)
  /\ near \in [0 .. Cardinality(D) -> SUBSET D]
  /\ \A d \in 1 .. Cardinality(D) : near[d] = Under(D, inc, near[d - 1])

\* The headers that were in the queue and no longer are.
Searched(D, queue, seen) == (seen \ ToSet(queue)) \cap D

\* How far a breadth-first search has come: all headers nearer than d were
\* searched; the first k files of the queue are at distance d, with all others at
\* that distance searched; the rest is one further.  Every distance took a header.
Reached(D, inc, near, queue, seen, d, k) ==
  /\ queue \in Lists(Int) /\ ToSet(queue) \subseteq seen
  /\ d \in 0 .. Cardinality(D) /\ k \in 0 .. Len(queue)
  /\ \A j \in 0 .. d - 1 : near[j] \subseteq Searched(D, queue, seen)
  /\ near[d] \subseteq Searched(D, queue, seen) \cup {queue[i] : i \in 1 .. k}
  /\ \A i \in 1 .. k : queue[i] \in D => queue[i] \in near[d]
  /\ \A i \in k + 1 .. Len(queue) : queue[i] \in D => queue[i] \in Under(D, inc, near[d])
  /\ \A h \in Searched(D, queue, seen) : inc[h] \subseteq seen
  /\ Cardinality(Searched(D, queue, seen)) >= d
  /\ k < Len(queue) => Cardinality(Searched(D, queue, seen)) > d

\* What was searched is among the headers.
LEMMA SearchedSize ==
  ASSUME NEW D, IsFiniteSet(D), NEW queue, NEW seen
  PROVE  LET S == Searched(D, queue, seen)
         IN  /\ IsFiniteSet(S) /\ Cardinality(S) \in Nat /\ Cardinality(D) \in Nat
             /\ Cardinality(S) <= Cardinality(D)
<1> DEFINE S == Searched(D, queue, seen)
<1>1. S \subseteq D
  BY DEF Searched
<1> HIDE DEF S
<1>2. IsFiniteSet(S) /\ Cardinality(S) <= Cardinality(D)
  BY <1>1, FS_Subset
<1> QED
  BY <1>2, FS_CardinalityType DEF S

\* When the files at distance d are through, those at the next one begin.
LEMMA NextDistance ==
  ASSUME NEW D, NEW inc, NEW near, Distances(D, inc, near), NEW queue, NEW seen, NEW d,
         Reached(D, inc, near, queue, seen, d, 0), queue # <<>>
  PROVE  Reached(D, inc, near, queue, seen, d + 1, Len(queue))
<1> DEFINE S == Searched(D, queue, seen)
           N == Cardinality(D)
           l == Len(queue)
           c == Cardinality(S)
<1>1. /\ queue \in Lists(Int) /\ ToSet(queue) \subseteq seen /\ d \in 0 .. N
      /\ \A j \in 0 .. d - 1 : near[j] \subseteq S
      /\ near[d] \subseteq S \cup {queue[i] : i \in 1 .. 0}
      /\ \A i \in 0 + 1 .. l : queue[i] \in D => queue[i] \in Under(D, inc, near[d])
      /\ \A h \in S : inc[h] \subseteq seen
      /\ 0 < l => c > d
  BY DEF Reached
<1>2. l \in Nat /\ l > 0 /\ DOMAIN queue = 1 .. l
  BY <1>1, LenProperties, EmptySeq DEF Lists
<1>3. c \in Nat /\ N \in Nat /\ c <= N
  BY SearchedSize DEF Distances
<1>4. ToSet(queue) = {queue[i] : i \in 1 .. l}
  BY <1>2 DEF ToSet
<1>5. S = (seen \ ToSet(queue)) \cap D
  BY DEF Searched
<1> HIDE DEF S, N, l, c
<1>6. d + 1 \in 0 .. N /\ d + 1 \in 1 .. N /\ c >= d + 1 /\ (d + 1) - 1 = d
  BY <1>1, <1>2, <1>3
<1>7. near[d + 1] = Under(D, inc, near[d])
  BY <1>6 DEF Distances, N
<1>8. near[d] \subseteq S
  BY <1>1
<1>9. \A j \in 0 .. (d + 1) - 1 : near[j] \subseteq S
  <2>1. \A j \in 0 .. (d + 1) - 1 : j \in 0 .. d - 1 \/ j = d
    BY <1>1
  <2> QED
    BY <1>1, <1>8, <2>1
<1>10. near[d + 1] \subseteq S \cup {queue[i] : i \in 1 .. l}
  <2>1. Under(D, inc, near[d]) \subseteq seen \cap D
    <3> DEFINE W == near[d]
    <3> HIDE DEF W
    <3>1. \A h \in W : inc[h] \subseteq seen
      BY <1>1, <1>8 DEF W
    <3>2. Under(D, inc, W) \subseteq seen \cap D
      BY <3>1 DEF Under
    <3> QED
      BY <3>2 DEF W
  <2> QED
    BY <1>4, <1>5, <1>7, <2>1
<1>11. \A i \in 1 .. l : queue[i] \in D => queue[i] \in near[d + 1]
  BY <1>1, <1>7
<1>12. l \in 0 .. l /\ ~ (l < l) /\ l + 1 .. l = {}
  BY <1>2
<1> QED
  BY <1>1, <1>6, <1>9, <1>10, <1>11, <1>12 DEF Reached, S, N, l, c

\* A file that is no header is passed over.
LEMMA PassedOver ==
  ASSUME NEW D, NEW inc, NEW near, Distances(D, inc, near), NEW queue, NEW seen, NEW d, NEW k,
         Reached(D, inc, near, queue, seen, d, k), queue # <<>>, k # 0, Head(queue) \notin D
  PROVE  /\ Reached(D, inc, near, Tail(queue), seen, d, k - 1)
         /\ Searched(D, Tail(queue), seen) = Searched(D, queue, seen)
<1> DEFINE S == Searched(D, queue, seen)
           t == Tail(queue)
           l == Len(queue)
<1>1. /\ queue \in Lists(Int) /\ ToSet(queue) \subseteq seen /\ d \in 0 .. Cardinality(D) /\ k \in 0 .. l
      /\ \A j \in 0 .. d - 1 : near[j] \subseteq S
      /\ near[d] \subseteq S \cup {queue[i] : i \in 1 .. k}
      /\ \A i \in 1 .. k : queue[i] \in D => queue[i] \in near[d]
      /\ \A i \in k + 1 .. l : queue[i] \in D => queue[i] \in Under(D, inc, near[d])
      /\ \A h \in S : inc[h] \subseteq seen
      /\ Cardinality(S) >= d /\ (k < l => Cardinality(S) > d)
  BY DEF Reached
<1>2. /\ t \in Lists(Int) /\ l \in Nat /\ l > 0 /\ Len(t) = l - 1
      /\ \A i \in 1 .. l - 1 : t[i] = queue[i + 1]
      /\ ToSet(t) = ToSet(queue) \ {Head(queue)} /\ Head(queue) = queue[1]
  BY <1>1, ListTail
<1>3. Searched(D, t, seen) = S
  BY <1>2 DEF Searched
<1>4. near[d] \subseteq D
  BY <1>1 DEF Distances
<1> HIDE DEF S, t, l
<1>5. /\ k - 1 \in 0 .. Len(t) /\ (k - 1 < Len(t) => k < l)
      /\ \A i \in 1 .. k - 1 : i \in 1 .. l - 1 /\ i + 1 \in 1 .. k
      /\ \A i \in (k - 1) + 1 .. Len(t) : i \in 1 .. l - 1 /\ i + 1 \in k + 1 .. l
      /\ \A i \in 1 .. k : i = 1 \/ (i - 1 \in 1 .. k - 1 /\ (i - 1) + 1 = i)
  BY <1>1, <1>2
<1>6. near[d] \subseteq S \cup {t[i] : i \in 1 .. k - 1}
  <2> SUFFICES ASSUME NEW h \in near[d], h \notin S PROVE \E i \in 1 .. k - 1 : h = t[i]
    OBVIOUS
  <2>1. PICK i \in 1 .. k : h = queue[i]
    BY <1>1
  <2>2. i # 1
    BY <1>2, <1>4, <2>1
  <2>3. i - 1 \in 1 .. k - 1 /\ (i - 1) + 1 = i
    BY <1>5, <2>2
  <2>4. t[i - 1] = h
    BY <1>2, <1>5, <2>1, <2>3
  <2> QED
    BY <2>3, <2>4
<1>7. \A i \in 1 .. k - 1 : t[i] \in D => t[i] \in near[d]
  BY <1>1, <1>2, <1>5
<1>8. \A i \in (k - 1) + 1 .. Len(t) : t[i] \in D => t[i] \in Under(D, inc, near[d])
  BY <1>1, <1>2, <1>5
<1>9. ToSet(t) \subseteq seen
  BY <1>1, <1>2
<1> QED
  BY <1>1, <1>2, <1>3, <1>5, <1>6, <1>7, <1>8, <1>9 DEF Reached, t, S

\* The header h is taken from the queue; what it includes and was never in the
\* queue goes to its end.
Taken(D, inc, queue, seen, h, new, all) ==
  /\ queue # <<>> /\ h = Head(queue) /\ h \in D
  /\ new \in Lists(Int) /\ ToSet(new) = inc[h] \ seen
  /\ all = seen \cup inc[h]

\* A header is searched.
LEMMA HeaderSearched ==
  ASSUME NEW D, NEW inc, NEW near, Distances(D, inc, near), NEW queue, NEW seen, NEW d, NEW k,
         Reached(D, inc, near, queue, seen, d, k), k # 0,
         NEW h, NEW new, NEW all, Taken(D, inc, queue, seen, h, new, all)
  PROVE  /\ Reached(D, inc, near, Tail(queue) \o new, all, d, k - 1)
         /\ Searched(D, Tail(queue) \o new, all) = Searched(D, queue, seen) \cup {h}
<1> DEFINE S == Searched(D, queue, seen)
           t == Tail(queue)
           l == Len(queue)
           m == Len(new)
           r == t \o new
           R == Searched(D, r, all)
           c == Cardinality(S)
           U == Under(D, inc, near[d])
<1>0. /\ queue # <<>> /\ h = Head(queue) /\ h \in D
      /\ new \in Lists(Int) /\ ToSet(new) = inc[h] \ seen /\ all = seen \cup inc[h]
  BY DEF Taken
<1>1. /\ queue \in Lists(Int) /\ ToSet(queue) \subseteq seen /\ d \in 0 .. Cardinality(D) /\ k \in 0 .. l
      /\ \A j \in 0 .. d - 1 : near[j] \subseteq S
      /\ near[d] \subseteq S \cup {queue[i] : i \in 1 .. k}
      /\ \A i \in 1 .. k : queue[i] \in D => queue[i] \in near[d]
      /\ \A i \in k + 1 .. l : queue[i] \in D => queue[i] \in U
      /\ \A g \in S : inc[g] \subseteq seen
      /\ c >= d
  BY DEF Reached
<1>2. /\ t \in Lists(Int) /\ l \in Nat /\ l > 0 /\ Len(t) = l - 1
      /\ \A i \in 1 .. l - 1 : t[i] = queue[i + 1]
      /\ ToSet(t) = ToSet(queue) \ {h} /\ h \in ToSet(queue) /\ h = queue[1]
  BY <1>0, <1>1, ListTail
<1>3. ToSet(t) \cap ToSet(new) = {}
  BY <1>0, <1>1, <1>2
<1>4. /\ r \in Lists(Int) /\ ToSet(r) = ToSet(t) \cup ToSet(new) /\ m \in Nat /\ Len(r) = (l - 1) + m
      /\ \A i \in 1 .. l - 1 : r[i] = t[i]
      /\ \A i \in (l - 1) + 1 .. (l - 1) + m : r[i] \in ToSet(new)
  <2> HIDE DEF t, l
  <2>0. t \in Lists(Int)
    BY <1>2
  <2>1. /\ r \in Lists(Int) /\ ToSet(r) = ToSet(t) \cup ToSet(new)
        /\ Len(r) = Len(t) + m /\ m \in Nat
        /\ \A i \in 1 .. Len(t) : r[i] = t[i]
        /\ \A i \in Len(t) + 1 .. Len(t) + m : r[i] \in ToSet(new)
    BY <1>0, <1>3, <2>0, ListConcat
  <2> QED
    BY <1>2, <2>1
<1>5. R = S \cup {h} /\ h \notin S
  BY <1>0, <1>1, <1>2, <1>4 DEF Searched
<1>6. IsFiniteSet(S) /\ c \in Nat
  BY SearchedSize DEF Distances
<1>7. Cardinality(R) = c + 1
  <2> HIDE DEF S, R
  <2> QED
    BY <1>5, <1>6, FS_AddElement
<1>8. h \in near[d]
  <2>1. 1 \in 1 .. k
    BY <1>1, <1>2
  <2> QED
    BY <1>0, <1>1, <1>2, <2>1
<1>9. inc[h] \cap D \subseteq U
  <2> DEFINE W == near[d]
  <2> HIDE DEF W
  <2>1. h \in W
    BY <1>8 DEF W
  <2>2. inc[h] \cap D \subseteq Under(D, inc, W)
    BY <2>1 DEF Under
  <2> QED
    BY <2>2 DEF W
<1>10. ToSet(r) \subseteq all
  BY <1>0, <1>1, <1>2, <1>4
<1> HIDE DEF S, t, l, m, r, R, c, U
<1>11. /\ k - 1 \in 0 .. Len(r) /\ c + 1 >= d /\ c + 1 > d
       /\ \A i \in 1 .. k - 1 : i \in 1 .. l - 1 /\ i + 1 \in 1 .. k
       /\ \A i \in (k - 1) + 1 .. Len(r) :
            (i \in 1 .. l - 1 /\ i + 1 \in k + 1 .. l) \/ i \in (l - 1) + 1 .. (l - 1) + m
       /\ \A i \in 1 .. k : i = 1 \/ (i - 1 \in 1 .. k - 1 /\ (i - 1) + 1 = i)
  BY <1>1, <1>2, <1>4, <1>6
<1>12. near[d] \subseteq R \cup {r[i] : i \in 1 .. k - 1}
  <2> SUFFICES ASSUME NEW g \in near[d], g \notin R PROVE \E i \in 1 .. k - 1 : g = r[i]
    OBVIOUS
  <2>1. PICK i \in 1 .. k : g = queue[i]
    BY <1>1, <1>5
  <2>2. i # 1
    BY <1>2, <1>5, <2>1
  <2>3. i - 1 \in 1 .. k - 1 /\ (i - 1) + 1 = i
    BY <1>11, <2>2
  <2>4. r[i - 1] = g
    BY <1>2, <1>4, <1>11, <2>1, <2>3
  <2> QED
    BY <2>3, <2>4
<1>13. \A i \in 1 .. k - 1 : r[i] \in D => r[i] \in near[d]
  BY <1>1, <1>2, <1>4, <1>11
<1>14. ASSUME NEW i \in (k - 1) + 1 .. Len(r), r[i] \in D
       PROVE  r[i] \in U
  <2>1. CASE i \in 1 .. l - 1 /\ i + 1 \in k + 1 .. l
    BY <1>1, <1>2, <1>4, <1>14, <2>1
  <2>2. CASE i \in (l - 1) + 1 .. (l - 1) + m
    BY <1>0, <1>4, <1>9, <1>14, <2>2
  <2> QED
    BY <1>11, <2>1, <2>2
<1>15. \A j \in 0 .. d - 1 : near[j] \subseteq R
  BY <1>1, <1>5
<1>16. \A g \in R : inc[g] \subseteq all
  BY <1>0, <1>1, <1>5
<1>17. Reached(D, inc, near, r, all, d, k - 1)
  BY <1>1, <1>4, <1>7, <1>10, <1>11, <1>12, <1>13, <1>14, <1>15, <1>16 DEF Reached, R, U
<1> QED
  BY <1>5, <1>17 DEF r, R, S, t

-----------------------------------------------------------------------------
(***************************************************************************)
(* The include files, and what NearestTypes is.                            *)
(***************************************************************************)

\* What each header includes.
Includes == [h \in DOMAIN hmap |-> Range(hmap[h].headfile)]

\* AtDistance is what its recursion says.
LEMMA DistancesAre ==
  ASSUME ReadInv, NEW use, use.cpp \in DOMAIN head
  PROVE  /\ Distances(DOMAIN hmap, Includes, AtDistance(use))
         /\ AtDistance(use)[0] = Range(head[use.cpp].headfile) \cap DOMAIN hmap
         /\ DOMAIN AtDistance(use) = 0 .. Cardinality(DOMAIN hmap)
<1> DEFINE D == DOMAIN hmap
           n == Cardinality(D)
           I == Includes
           first == Range(Known(head[use.cpp].headfile))
           By(S) == UNION {Range(Known(hmap[h].headfile)) : h \in S}
           Near == CHOOSE F : F = [d \in 0 .. n |-> IF d = 0 THEN first ELSE By(F[d - 1])]
           L == SUBSET D
           b == [p \in L \X (1 .. n) |-> By(p[1])]
<1>1. AtDistance(use) = Near
  BY DEF AtDistance
<1>2. IsFiniteSet(D) /\ n \in Nat
  BY FS_CardinalityType DEF ReadInv, Headers
<1>3. \A s \in Seq(Int) : Range(Known(s)) = Range(s) \cap D
  BY AmongType DEF Known
<1>4. first = Range(head[use.cpp].headfile) \cap D
  <2>1. head[use.cpp].headfile \in Seq(Int)
    BY DEF ReadInv, Sources, Range, Source
  <2> QED
    BY <1>3, <2>1
<1>5. ASSUME NEW S \in L
      PROVE  By(S) = Under(D, I, S) /\ By(S) \in L
  <2>1. \A h \in D : hmap[h].headfile \in Seq(Int)
    BY DEF ReadInv, Headers, Header
  <2>2. \A h \in S : Range(Known(hmap[h].headfile)) = I[h] \cap D
    BY <1>3, <2>1 DEF Includes
  <2> HIDE DEF D, I
  <2>3. By(S) = UNION {I[h] \cap D : h \in S}
    BY <2>2
  <2>4. UNION {I[h] \cap D : h \in S} = (UNION {I[h] : h \in S}) \cap D
    OBVIOUS
  <2> QED
    BY <2>3, <2>4 DEF Under
<1>6. first \in L
  BY <1>4
<1> HIDE DEF By, D, n, first, I
<1>7. b \in Bodies(L, n)
  BY <1>5 DEF Bodies
<1>8. PICK f : f \in Courses(L, first, n, b)
  <2> HIDE DEF b, L, Near
  <2> QED
    BY <1>2, <1>6, <1>7, LoopExists
<1>9. f \in [0 .. n -> L] /\ f[0] = first /\ \A i \in 1 .. n : f[i] = b[<<f[i - 1], i>>]
  BY <1>8 DEF Courses
<1>10. \A d \in 0 .. n : d # 0 => d \in 1 .. n /\ d - 1 \in 0 .. n
  BY <1>2
<1>11. f = [d \in 0 .. n |-> IF d = 0 THEN first ELSE By(f[d - 1])]
  <2> HIDE DEF L
  <2>1. ASSUME NEW d \in 0 .. n, d # 0 PROVE f[d] = By(f[d - 1])
    <3>1. <<f[d - 1], d>> \in L \X (1 .. n)
      BY <1>9, <1>10, <2>1
    <3>2. b[<<f[d - 1], d>>] = By(f[d - 1])
      BY <3>1
    <3> QED
      BY <1>9, <1>10, <2>1, <3>2
  <2> HIDE DEF b
  <2>2. \A d \in 0 .. n : f[d] = IF d = 0 THEN first ELSE By(f[d - 1])
    BY <1>9, <2>1
  <2>3. f = [d \in 0 .. n |-> f[d]]
    BY <1>9
  <2> QED
    BY <2>2, <2>3
<1>12. Near = [d \in 0 .. n |-> IF d = 0 THEN first ELSE By(Near[d - 1])]
  <2> HIDE DEF L, b
  <2> QED
    BY <1>11, Zenon
<1> HIDE DEF Near
<1>13. /\ Near = [d \in 0 .. n |-> Near[d]] /\ Near[0] = first
       /\ \A d \in 1 .. n : Near[d] = By(Near[d - 1])
  <2>1. 0 \in 0 .. n /\ \A d \in 1 .. n : d \in 0 .. n /\ d # 0
    BY <1>2
  <2> QED
    BY <1>12, <2>1
<1>14. Near \in [0 .. n -> L]
  <2>1. ASSUME NEW d \in 1 .. n, Near[d - 1] \in L
        PROVE  Near[d] = b[<<Near[d - 1], d>>]
    <3>1. <<Near[d - 1], d>> \in L \X (1 .. n)
      BY <2>1
    <3> HIDE DEF L
    <3> QED
      BY <1>13, <3>1
  <2> HIDE DEF b, L
  <2>2. Follows(L, first, n, b, Near)
    BY <1>13, <2>1 DEF Follows
  <2>3. Near \in Courses(L, first, n, b)
    BY <1>2, <1>6, <1>7, <2>2, LoopFollows
  <2> QED
    BY <2>3 DEF Courses
<1>15. \A d \in 1 .. n : Near[d] = Under(D, I, Near[d - 1])
  <2>1. \A d \in 1 .. n : d - 1 \in 0 .. n
    BY <1>2
  <2>2. \A d \in 1 .. n : Near[d - 1] \in L
    BY <1>14, <2>1
  <2> HIDE DEF L
  <2> QED
    BY <1>5, <1>13, <2>2
<1>16. Distances(D, I, Near)
  BY <1>2, <1>14, <1>15 DEF Distances, n
<1>17. DOMAIN Near = 0 .. n
  BY <1>14
<1> QED
  BY <1>1, <1>4, <1>13, <1>16, <1>17 DEF D, I, n

\* What the header h says about the variable of a use.
Says(use, h) == TypeIn(hmap[h].globalStr, ValueName(use))

\* NearestTypes, case by case: the type is found nearby; no header has one; the
\* nearest header that has one is at distance d.
LEMMA NearestFacts ==
  ASSUME NEW use, NEW n \in Nat, DOMAIN AtDistance(use) = 0 .. n
  PROVE  /\ NearType(use) # NoWord => NearestTypes(use) = {NearType(use)}
         /\ /\ NearType(use) = NoWord
            /\ \A d \in 0 .. n : \A h \in AtDistance(use)[d] : Says(use, h) = NoWord
            => NearestTypes(use) = {}
         /\ \A d \in 0 .. n :
              /\ NearType(use) = NoWord
              /\ \A j \in 0 .. d - 1 : \A h \in AtDistance(use)[j] : Says(use, h) = NoWord
              => \A h \in AtDistance(use)[d] : Says(use, h) # NoWord => Says(use, h) \in NearestTypes(use)
<1> DEFINE Near == AtDistance(use)
           Types(d) == {Says(use, h) : h \in Near[d]} \ {NoWord}
           found == {d \in DOMAIN Near : Types(d) # {}}
<1>1. NearestTypes(use) = IF NearType(use) # NoWord THEN {NearType(use)}
                          ELSE IF found = {} THEN {} ELSE Types(Min(found))
  BY DEF NearestTypes, Says
<1> HIDE DEF Near
<1>2. DOMAIN Near = 0 .. n
  BY DEF Near
<1>3. ASSUME NearType(use) = NoWord, \A d \in 0 .. n : \A h \in Near[d] : Says(use, h) = NoWord
      PROVE  NearestTypes(use) = {}
  <2>1. found = {}
    BY <1>2, <1>3
  <2> QED
    BY <1>1, <1>3, <2>1
<1>4. ASSUME NEW d \in 0 .. n, NearType(use) = NoWord,
             \A j \in 0 .. d - 1 : \A h \in Near[j] : Says(use, h) = NoWord,
             NEW h \in Near[d], Says(use, h) # NoWord
      PROVE  Says(use, h) \in NearestTypes(use)
  <2>1. Says(use, h) \in Types(d)
    BY <1>4
  <2>2. d \in found
    BY <1>2, <2>1
  <2>3. \A j \in 0 .. d - 1 : Types(j) = {}
    BY <1>4
  <2>4. \A j \in found : j \in 0 .. n /\ ~ (j \in 0 .. d - 1)
    BY <1>2, <2>3
  <2> HIDE DEF found, Types
  <2>5. Min(found) \in found /\ Min(found) <= d
    <3>1. found \subseteq Nat
      BY <2>4
    <3> QED
      BY <2>2, <3>1, Smallest
  <2> DEFINE m == Min(found)
  <2> HIDE DEF m
  <2>6. m \in 0 .. n /\ ~ (m \in 0 .. d - 1) /\ m <= d
    BY <2>4, <2>5 DEF m
  <2>7. m = d
    BY <2>6
  <2>8. NearestTypes(use) = Types(m)
    BY <1>1, <1>4, <2>2 DEF m
  <2> QED
    BY <2>1, <2>7, <2>8
<1> QED
  BY <1>1, <1>3, <1>4 DEF Near

-----------------------------------------------------------------------------
(***************************************************************************)
(* The walk of findsymbol.                                                 *)
(***************************************************************************)

\* The search findsymbol is in.
Searching(d, k) == Reached(DOMAIN hmap, Includes, AtDistance(Use), allheadfile, donemap, d, k)

\* The headers it has looked at.
LookedAt == Searched(DOMAIN hmap, allheadfile, donemap)

\* The walk: nothing was found yet, nearby or in a header that was looked at, and
\* the queue is that of a breadth-first search.
WalkInv ==
  /\ pc = "walk" =>
       /\ typeofname = NoWord /\ NearType(Use) = NoWord
       /\ \A h \in LookedAt : Says(Use, h) = NoWord
       /\ Range(head[Use.cpp].headfile) \subseteq donemap
       /\ \E d \in Nat, k \in Nat : Searching(d, k)
  /\ NearestDeclaration

\* What depends on the files only, and on the use at hand, stays.
LEMMA UseStays ==
  ASSUME hmap' = hmap, head' = head, todo' = todo
  PROVE  /\ Includes' = Includes /\ Use' = Use
         /\ AtDistance(Use)' = AtDistance(Use) /\ NearType(Use)' = NearType(Use)
         /\ NearestTypes(Use)' = NearestTypes(Use)
         /\ \A h : Says(Use, h)' = Says(Use, h)
<1>1. Includes' = Includes
  BY DEF Includes
<1>2. Use' = Use
  BY DEF Use
<1>3. AtDistance(Use)' = AtDistance(Use)
  BY <1>2 DEF AtDistance, Known
<1>4. NearType(Use)' = NearType(Use)
  <2>1. TypeInClass(Use)' = TypeInClass(Use)
    BY <1>2 DEF TypeInClass
  <2> QED
    BY <1>2, <2>1 DEF NearType
<1>5. ValueName(Use)' = ValueName(Use)
  BY <1>2 DEF ValueName
<1>6. \A h : Says(Use, h)' = Says(Use, h)
  BY <1>5 DEF Says
<1>7. NearestTypes(Use)' = NearestTypes(Use)
  BY <1>3, <1>4, <1>5 DEF NearestTypes
<1> QED
  BY <1>1, <1>2, <1>3, <1>4, <1>6, <1>7

\* findsymbol puts the include files of the source into the queue.
LEMMA WalkBegins ==
  ASSUME ReadInv, NEW use, use.cpp \in DOMAIN head
  PROVE  LET names == head[use.cpp].headfile
             queue == FirstSeen(names)
         IN  /\ Reached(DOMAIN hmap, Includes, AtDistance(use), queue, Range(names), 0, Len(queue))
             /\ Searched(DOMAIN hmap, queue, Range(names)) = {} /\ Len(queue) \in Nat
<1> DEFINE names == head[use.cpp].headfile
           queue == FirstSeen(names)
           seen == Range(names)
           D == DOMAIN hmap
           near == AtDistance(use)
           l == Len(queue)
<1>1. names \in Seq(Int)
  BY DEF ReadInv, Sources, Range, Source
<1>2. Distances(D, Includes, near) /\ near[0] = seen \cap D
  BY DistancesAre
<1> HIDE DEF names, D, near
<1>3. queue \in Lists(Int) /\ ToSet(queue) = seen
  BY <1>1, FirstSeenLists DEF ToSet, Range
<1> HIDE DEF queue, seen
<1>4. l \in Nat /\ DOMAIN queue = 1 .. l
  BY <1>3, LenProperties DEF Lists
<1>5. ToSet(queue) = {queue[i] : i \in 1 .. l}
  BY <1>4 DEF ToSet
<1>6. Searched(D, queue, seen) = {}
  BY <1>3 DEF Searched
<1>7. Cardinality({}) = 0 /\ Cardinality(D) \in Nat
  BY <1>2, FS_EmptySet, FS_CardinalityType DEF Distances
<1> HIDE DEF l
<1>8. 0 \in 0 .. Cardinality(D) /\ l \in 0 .. l /\ ~ (l < l) /\ l + 1 .. l = {} /\ 0 .. 0 - 1 = {}
  BY <1>4, <1>7
<1>9. near[0] \subseteq {queue[i] : i \in 1 .. l}
  BY <1>2, <1>3, <1>5
<1>10. \A i \in 1 .. l : queue[i] \in D => queue[i] \in near[0]
  BY <1>2, <1>3, <1>5
<1>11. Reached(D, Includes, near, queue, seen, 0, l)
  BY <1>3, <1>6, <1>7, <1>8, <1>9, <1>10 DEF Reached, l
<1> QED
  BY <1>4, <1>6, <1>11 DEF names, queue, seen, D, near, l

\* When the queue is empty, every header that can be reached was searched.
LEMMA WalkExhausts ==
  ASSUME NEW D, NEW inc, NEW near, Distances(D, inc, near), NEW seen, NEW d, NEW k,
         Reached(D, inc, near, <<>>, seen, d, k), near[0] \subseteq seen
  PROVE  \A j \in 0 .. Cardinality(D) : near[j] \subseteq Searched(D, <<>>, seen)
<1> DEFINE S == Searched(D, <<>>, seen)
           N == Cardinality(D)
           T == {j \in Nat : j <= N => near[j] \subseteq S}
<1>1. S = seen \cap D
  BY DEF Searched, ToSet
<1>2. N \in Nat /\ near \in [0 .. N -> SUBSET D]
  BY FS_CardinalityType DEF Distances
<1>3. \A h \in S : inc[h] \subseteq seen
  BY DEF Reached
<1>4. \A j \in 1 .. N : near[j] = Under(D, inc, near[j - 1])
  BY DEF Distances
<1> HIDE DEF S, N
<1>5. 0 \in T
  <2>1. 0 \in 0 .. N
    BY <1>2
  <2> QED
    BY <1>1, <1>2, <2>1
<1>6. ASSUME NEW j \in Nat, j \in T
      PROVE  j + 1 \in T
  <2> SUFFICES ASSUME j + 1 <= N PROVE near[j + 1] \subseteq S
    OBVIOUS
  <2> DEFINE W == near[j]
  <2>1. j + 1 \in 1 .. N /\ (j + 1) - 1 = j /\ W \subseteq S
    BY <1>2, <1>6
  <2>2. near[j + 1] = Under(D, inc, W)
    BY <1>4, <2>1
  <2> HIDE DEF W
  <2>3. \A h \in W : inc[h] \subseteq seen
    BY <1>3, <2>1
  <2>4. Under(D, inc, W) \subseteq seen \cap D
    BY <2>3 DEF Under
  <2> QED
    BY <1>1, <2>2, <2>4
<1>7. \A j \in Nat : j \in T
  <2> HIDE DEF T
  <2> QED
    BY <1>5, <1>6, NatSetInduction
<1>8. \A j \in 0 .. N : near[j] \subseteq S
  BY <1>2, <1>7
<1> QED
  BY <1>8 DEF S, N

\* findsymbol keeps the invariant.
LEMMA FindWalks ==
  ASSUME ParseInv, findsymbol
  PROVE  WalkInv'
<1> DEFINE names == head[Use.cpp].headfile
<1>1. ReadInv /\ todo \in Seq(Pending)
  BY DEF ParseInv
<1>2. /\ UNCHANGED readVars /\ todo # <<>> /\ todo' = todo /\ typeofname' = NearType(Use)
      /\ IF NearType(Use) # NoWord
           THEN pc' = "relate"
           ELSE pc' = "walk" /\ allheadfile' = FirstSeen(names) /\ donemap' = Range(names)
  BY DEF findsymbol
<1>3. hmap' = hmap /\ head' = head
  BY <1>1, <1>2, ReadStays
<1>4. Use.cpp \in DOMAIN head
  BY <1>1, <1>2, UseIs
<1>5. /\ Includes' = Includes /\ Use' = Use
      /\ AtDistance(Use)' = AtDistance(Use) /\ NearType(Use)' = NearType(Use)
      /\ NearestTypes(Use)' = NearestTypes(Use)
  BY <1>2, <1>3, UseStays
<1>6. CASE NearType(Use) # NoWord
  <2>1. Cardinality(DOMAIN hmap) \in Nat /\ DOMAIN AtDistance(Use) = 0 .. Cardinality(DOMAIN hmap)
    BY <1>1, <1>4, DistancesAre, FS_CardinalityType DEF Distances
  <2>2. NearestTypes(Use) = {NearType(Use)}
    BY <1>6, <2>1, NearestFacts
  <2>3. NearestTypes(Use)' # {} /\ typeofname' \in NearestTypes(Use)'
    BY <1>2, <1>5, <2>2
  <2>4. NearestDeclaration'
    BY <2>3 DEF NearestDeclaration
  <2>5. pc' # "walk"
    BY <1>2, <1>6
  <2> QED
    BY <2>4, <2>5 DEF WalkInv
<1>7. CASE NearType(Use) = NoWord
  <2> DEFINE queue == FirstSeen(names)
  <2>1. /\ Reached(DOMAIN hmap, Includes, AtDistance(Use), queue, Range(names), 0, Len(queue))
        /\ Searched(DOMAIN hmap, queue, Range(names)) = {} /\ Len(queue) \in Nat
    BY <1>1, <1>4, WalkBegins
  <2>2. pc' = "walk" /\ allheadfile' = queue /\ donemap' = Range(names)
    BY <1>2, <1>7
  <2>3. Searching(0, Len(queue))'
    BY <1>3, <1>5, <2>1, <2>2 DEF Searching
  <2>4. LookedAt' = {}
    BY <1>3, <2>1, <2>2 DEF LookedAt
  <2>5. Range(head[Use.cpp].headfile)' \subseteq donemap'
    BY <1>3, <1>5, <2>2
  <2>6. \E d \in Nat, k \in Nat : Searching(d, k)'
    BY <2>1, <2>3
  <2> QED
    BY <1>2, <1>5, <1>7, <2>2, <2>4, <2>5, <2>6 DEF WalkInv, NearestDeclaration
<1> QED
  BY <1>6, <1>7

\* In a walk with files in the queue, the first one is at the distance reached.
LEMMA SearchingOn ==
  ASSUME ParseInv, WalkInv, pc = "walk", allheadfile # <<>>
  PROVE  \E d \in Nat, k \in Nat \ {0} : Searching(d, k)
<1> DEFINE D == DOMAIN hmap
           near == AtDistance(Use)
<1>1. PICK d \in Nat, k \in Nat : Searching(d, k)
  BY DEF WalkInv
<1>2. CASE k # 0
  BY <1>1, <1>2
<1>3. CASE k = 0
  <2>1. Use.cpp \in DOMAIN head
    BY UseIs DEF ParseInv
  <2>2. Distances(D, Includes, near)
    BY <2>1, DistancesAre DEF ParseInv
  <2>3. Reached(D, Includes, near, allheadfile, donemap, d, 0)
    BY <1>1, <1>3 DEF Searching
  <2> HIDE DEF D, near
  <2>4. Reached(D, Includes, near, allheadfile, donemap, d + 1, Len(allheadfile))
    BY <2>2, <2>3, NextDistance
  <2>5. Len(allheadfile) \in Nat \ {0} /\ d + 1 \in Nat
    BY LenProperties, EmptySeq DEF ParseInv
  <2>6. Searching(d + 1, Len(allheadfile))
    BY <2>4 DEF Searching, D, near
  <2> QED
    BY <2>5, <2>6
<1> QED
  BY <1>2, <1>3

\* WalkHeader keeps the invariant.
LEMMA HeaderWalks ==
  ASSUME ParseInv, WalkInv, WalkHeader
  PROVE  WalkInv'
<1> DEFINE D == DOMAIN hmap
           near == AtDistance(Use)
           h == Head(allheadfile)
           N == Cardinality(D)
<1>1. ReadInv /\ todo \in Seq(Pending) /\ todo # <<>>
  BY DEF ParseInv, WalkHeader
<1>2. /\ UNCHANGED readVars /\ pc = "walk" /\ allheadfile # <<>> /\ todo' = todo
      /\ \/ /\ h \in D /\ Says(Use, h) # NoWord
            /\ typeofname' = Says(Use, h) /\ pc' = "relate"
         \/ /\ h \in D /\ Says(Use, h) = NoWord
            /\ typeofname' = NoWord /\ pc' = "walk" /\ allheadfile' = Enqueue(h)
            /\ donemap' = donemap \cup Range(hmap[h].headfile)
         \/ /\ h \notin D
            /\ typeofname' = NoWord /\ pc' = "walk" /\ allheadfile' = Tail(allheadfile) /\ donemap' = donemap
  BY DEF WalkHeader, Says
<1>3. hmap' = hmap /\ head' = head
  BY <1>1, <1>2, ReadStays
<1>4. Use.cpp \in DOMAIN head
  BY <1>1, UseIs
<1>5. /\ Includes' = Includes /\ Use' = Use
      /\ AtDistance(Use)' = near /\ NearType(Use)' = NearType(Use)
      /\ NearestTypes(Use)' = NearestTypes(Use)
      /\ \A g : Says(Use, g)' = Says(Use, g)
  BY <1>2, <1>3, UseStays
<1>6. Distances(D, Includes, near) /\ DOMAIN near = 0 .. N /\ N \in Nat
  BY <1>1, <1>4, DistancesAre, FS_CardinalityType DEF Distances
<1>7. /\ NearType(Use) = NoWord
      /\ \A g \in LookedAt : Says(Use, g) = NoWord
      /\ Range(head[Use.cpp].headfile) \subseteq donemap
  BY <1>2 DEF WalkInv
<1>8. PICK d \in Nat, k \in Nat \ {0} : Searching(d, k)
  BY <1>2, SearchingOn
<1>9. Reached(D, Includes, near, allheadfile, donemap, d, k)
  BY <1>8 DEF Searching
<1>10. k - 1 \in Nat
  OBVIOUS
<1>11. CASE h \in D /\ Says(Use, h) # NoWord
  <2>1. typeofname' = Says(Use, h) /\ pc' = "relate"
    BY <1>2, <1>11
  <2>2. h = allheadfile[1] /\ allheadfile \in Lists(Int)
    BY <1>2, <1>9, ListTail DEF Reached
  <2>3. /\ d \in 0 .. N /\ k \in 0 .. Len(allheadfile)
        /\ \A j \in 0 .. d - 1 : near[j] \subseteq LookedAt
        /\ \A i \in 1 .. k : allheadfile[i] \in D => allheadfile[i] \in near[d]
    BY <1>9 DEF Reached, LookedAt
  <2>4. 1 \in 1 .. k
    OBVIOUS
  <2>5. h \in near[d]
    BY <1>11, <2>2, <2>3, <2>4
  <2>6. \A j \in 0 .. d - 1 : \A g \in near[j] : Says(Use, g) = NoWord
    BY <1>7, <2>3
  <2>7. Says(Use, h) \in NearestTypes(Use)
    <3> HIDE DEF N, h
    <3> QED
      BY <1>6, <1>7, <1>11, <2>3, <2>5, <2>6, NearestFacts
  <2>8. typeofname' \in NearestTypes(Use)' /\ pc' # "walk"
    BY <1>5, <2>1, <2>7
  <2> QED
    BY <2>8 DEF WalkInv, NearestDeclaration
<1>12. CASE h \in D /\ Says(Use, h) = NoWord
  <2> DEFINE new == NewIncludes(h)
             all == donemap \cup Includes[h]
  <2>1. /\ typeofname' = NoWord /\ pc' = "walk" /\ allheadfile' = Tail(allheadfile) \o new
        /\ donemap' = all
    BY <1>2, <1>12 DEF Enqueue, Includes
  <2>2. new \in Lists(Int) /\ ToSet(new) = Includes[h] \ donemap
    BY <1>1, <1>12, NewIncludesAre DEF Includes
  <2>3. /\ Reached(D, Includes, near, Tail(allheadfile) \o new, all, d, k - 1)
        /\ Searched(D, Tail(allheadfile) \o new, all) = Searched(D, allheadfile, donemap) \cup {h}
    <3> DEFINE I == Includes
    <3>1. allheadfile # <<>> /\ k # 0 /\ h \in D /\ h = Head(allheadfile)
      BY <1>2, <1>12
    <3> HIDE DEF D, near, new, h, I
    <3>2. Distances(D, I, near) /\ Reached(D, I, near, allheadfile, donemap, d, k)
      BY <1>6, <1>9 DEF I
    <3>3. new \in Lists(Int) /\ ToSet(new) = I[h] \ donemap
      BY <2>2 DEF I
    <3>4. Taken(D, I, allheadfile, donemap, h, new, all)
      BY <3>1, <3>3 DEF Taken, I
    <3> HIDE DEF all
    <3>5. /\ Reached(D, I, near, Tail(allheadfile) \o new, all, d, k - 1)
          /\ Searched(D, Tail(allheadfile) \o new, all) = Searched(D, allheadfile, donemap) \cup {h}
      BY <3>1, <3>2, <3>4, HeaderSearched
    <3> QED
      BY <3>5 DEF I
  <2>4. Searching(d, k - 1)'
    BY <1>3, <1>5, <2>1, <2>3 DEF Searching
  <2>5. LookedAt' = LookedAt \cup {h}
    BY <1>3, <2>1, <2>3 DEF LookedAt
  <2>6. \A g \in LookedAt' : Says(Use, g)' = NoWord
    BY <1>5, <1>7, <1>12, <2>5
  <2>7. Range(head[Use.cpp].headfile)' \subseteq donemap'
    BY <1>3, <1>5, <1>7, <2>1
  <2>8. \E e \in Nat, m \in Nat : Searching(e, m)'
    BY <1>10, <2>4
  <2> QED
    BY <1>5, <1>7, <2>1, <2>6, <2>7, <2>8 DEF WalkInv, NearestDeclaration
<1>13. CASE h \notin D
  <2>1. typeofname' = NoWord /\ pc' = "walk" /\ allheadfile' = Tail(allheadfile) /\ donemap' = donemap
    BY <1>2, <1>13
  <2>2. /\ Reached(D, Includes, near, Tail(allheadfile), donemap, d, k - 1)
        /\ Searched(D, Tail(allheadfile), donemap) = Searched(D, allheadfile, donemap)
    <3> HIDE DEF D, near
    <3> QED
      BY <1>2, <1>6, <1>9, <1>13, PassedOver
  <2>3. Searching(d, k - 1)'
    BY <1>3, <1>5, <2>1, <2>2 DEF Searching
  <2>4. LookedAt' = LookedAt
    BY <1>3, <2>1, <2>2 DEF LookedAt
  <2>5. \A g \in LookedAt' : Says(Use, g)' = NoWord
    BY <1>5, <1>7, <2>4
  <2>6. Range(head[Use.cpp].headfile)' \subseteq donemap'
    BY <1>3, <1>5, <1>7, <2>1
  <2>7. \E e \in Nat, m \in Nat : Searching(e, m)'
    BY <1>10, <2>3
  <2> QED
    BY <1>5, <1>7, <2>1, <2>5, <2>6, <2>7 DEF WalkInv, NearestDeclaration
<1> QED
  BY <1>11, <1>12, <1>13

\* WalkEnds keeps the invariant.
LEMMA EndWalks ==
  ASSUME ParseInv, WalkInv, WalkEnds
  PROVE  WalkInv'
<1> DEFINE D == DOMAIN hmap
           near == AtDistance(Use)
           N == Cardinality(D)
<1>1. ReadInv /\ todo \in Seq(Pending) /\ todo # <<>>
  BY DEF ParseInv, WalkEnds
<1>2. UNCHANGED readVars /\ pc = "walk" /\ pc' = "relate" /\ allheadfile = <<>> /\ todo' = todo /\ typeofname' = typeofname
  BY DEF WalkEnds, parseVars
<1>3. hmap' = hmap /\ head' = head
  BY <1>1, <1>2, ReadStays
<1>4. Use.cpp \in DOMAIN head
  BY <1>1, UseIs
<1>5. NearestTypes(Use)' = NearestTypes(Use)
  BY <1>2, <1>3, UseStays
<1>6. /\ Distances(D, Includes, near) /\ DOMAIN near = 0 .. N /\ N \in Nat
      /\ near[0] = Range(head[Use.cpp].headfile) \cap D
  BY <1>1, <1>4, DistancesAre, FS_CardinalityType DEF Distances
<1>7. /\ typeofname = NoWord /\ NearType(Use) = NoWord
      /\ \A g \in LookedAt : Says(Use, g) = NoWord
      /\ Range(head[Use.cpp].headfile) \subseteq donemap
  BY <1>2 DEF WalkInv
<1>8. PICK d \in Nat, k \in Nat : Searching(d, k)
  BY <1>2 DEF WalkInv
<1>9. Reached(D, Includes, near, <<>>, donemap, d, k)
  BY <1>2, <1>8 DEF Searching
<1>10. near[0] \subseteq donemap
  BY <1>6, <1>7
<1>11. \A j \in 0 .. N : near[j] \subseteq Searched(D, <<>>, donemap)
  <2> HIDE DEF D, near
  <2> QED
    BY <1>6, <1>9, <1>10, WalkExhausts
<1>12. LookedAt = Searched(D, <<>>, donemap)
  BY <1>2 DEF LookedAt
<1>13. \A j \in 0 .. N : \A g \in near[j] : Says(Use, g) = NoWord
  <2> HIDE DEF D, near, N
  <2> QED
    BY <1>7, <1>11, <1>12
<1>14. NearestTypes(Use) = {}
  <2> HIDE DEF N
  <2> QED
    BY <1>6, <1>7, <1>13, NearestFacts
<1> QED
  BY <1>2, <1>5, <1>7, <1>14 DEF WalkInv, NearestDeclaration

\* A step preserves the invariant.
LEMMA NextWalks == ParseInv /\ WalkInv /\ [Next]_vars => WalkInv'
<1> SUFFICES ASSUME ParseInv, WalkInv, [Next]_vars PROVE WalkInv'
  OBVIOUS
<1>1. CASE pc' \notin {"walk", "relate"}
  BY <1>1 DEF WalkInv, NearestDeclaration
<1>2. CASE UNCHANGED vars
  <2>1. UNCHANGED <<pc, hmap, head, todo, typeofname, allheadfile, donemap>>
    BY <1>2 DEF vars, readVars, parseVars
  <2>2. /\ Includes' = Includes /\ Use' = Use
        /\ AtDistance(Use)' = AtDistance(Use) /\ NearType(Use)' = NearType(Use)
        /\ NearestTypes(Use)' = NearestTypes(Use)
        /\ \A g : Says(Use, g)' = Says(Use, g)
    BY <2>1, UseStays
  <2>3. NearestDeclaration'
    BY <2>1, <2>2 DEF WalkInv, NearestDeclaration
  <2>4. CASE pc = "walk"
    <3>1. PICK d \in Nat, k \in Nat : Searching(d, k)
      BY <2>4 DEF WalkInv
    <3>2. Searching(d, k)'
      BY <2>1, <2>2, <3>1 DEF Searching
    <3>3. LookedAt' = LookedAt
      BY <2>1 DEF LookedAt
    <3>4. \A g \in LookedAt' : Says(Use, g)' = NoWord
      BY <2>2, <2>4, <3>3 DEF WalkInv
    <3>5. typeofname' = NoWord /\ NearType(Use)' = NoWord /\ Range(head[Use.cpp].headfile)' \subseteq donemap'
      BY <2>1, <2>2, <2>4 DEF WalkInv
    <3>6. \E e \in Nat, m \in Nat : Searching(e, m)'
      BY <3>2
    <3> QED
      BY <2>3, <3>4, <3>5, <3>6 DEF WalkInv
  <2>5. CASE pc # "walk"
    BY <2>1, <2>3, <2>5 DEF WalkInv
  <2> QED
    BY <2>4, <2>5
<1>3. CASE findsymbol
  BY <1>3, FindWalks
<1>4. CASE WalkHeader
  BY <1>4, HeaderWalks
<1>5. CASE WalkEnds
  BY <1>5, EndWalks
<1>6. CASE ReadNext \/ StartParsing \/ NoVariable \/ Relate \/ createHypergraph
  <2>1. pc' \notin {"walk", "relate"}
    BY <1>6 DEF ReadNext, dfsFolder, NoFolder, EndFolder, ReadHeader, ReadSource, Unreadable, StartParsing,
                NoVariable, Relate, createHypergraph
  <2> QED
    BY <1>1, <2>1
<1> QED
  BY <1>2, <1>3, <1>4, <1>5, <1>6 DEF Next, Over

\* However the include files are tangled, findsymbol ends with the declaration
\* nearest to the use, or with none if no header that can be reached has one.
THEOREM ParsingNearestDeclaration == Spec => []NearestDeclaration
<1>1. Init => WalkInv
  BY DEF Init, ReadInit, WalkInv, NearestDeclaration
<1>2. WalkInv => NearestDeclaration
  BY DEF WalkInv
<1> QED
  BY <1>1, <1>2, NextWalks, ParseHolds, PTL DEF Spec

-----------------------------------------------------------------------------
(***************************************************************************)
(* The uses and the typedefs, as EdgesFromCalls sees them.                 *)
(***************************************************************************)

\* The uses EdgesFromCalls speaks of are those doParsing's loops come to, without
\* the ones that have no variable.
LEMMA UseSetIs ==
  ASSUME Sources(head)
  PROVE  UseSet = {use \in InFiles : ValueName(use) # NoWord}
<1> DEFINE Box(i, c, b) == [cpp : {i}, class : {c}, body : {b}, at : DOMAIN b]
           BoxC(i, c) == UNION {Box(i, c, head[i].cppclass[c][m]) : m \in DOMAIN head[i].cppclass[c]}
           BoxF(i) == UNION {BoxC(i, c) : c \in DOMAIN head[i].cppclass}
           Boxes == UNION {BoxF(i) : i \in DOMAIN head}
<1>0. UseSet = {use \in Boxes : use.body[use.at].sym # "" /\ ValueName(use) # NoWord}
  BY DEF UseSet
<1>1. \A i \in DOMAIN head : \A c \in DOMAIN head[i].cppclass : \A m \in DOMAIN head[i].cppclass[c] :
        IsBody(head[i].cppclass[c][m])
  BY DEF Sources, Range, Source, Methods
<1>2. ASSUME NEW i, NEW c, NEW b, IsBody(b)
      PROVE  \A use : use \in InMethod(i, c, b) <=> (use \in Box(i, c, b) /\ use.body[use.at].sym # "")
  <2>1. \A k \in DOMAIN b : b[k].sym \in {"->", "."} <=> b[k].sym # ""
    BY <1>2 DEF IsBody, Range
  <2>2. ASSUME NEW use \in InMethod(i, c, b)
        PROVE  use \in Box(i, c, b) /\ use.body[use.at].sym # ""
    <3>1. PICK k \in DOMAIN b : b[k].sym \in {"->", "."} /\ use = UseAt(i, c, b, k)
      BY DEF InMethod, UsesAt
    <3> QED
      BY <2>1, <3>1 DEF UseAt
  <2>3. ASSUME NEW use \in Box(i, c, b), use.body[use.at].sym # ""
        PROVE  use \in InMethod(i, c, b)
    <3>1. use = UseAt(i, c, b, use.at) /\ use.at \in DOMAIN b /\ use.body = b
      BY DEF UseAt
    <3>2. b[use.at].sym \in {"->", "."}
      BY <2>1, <2>3, <3>1
    <3> QED
      BY <3>1, <3>2 DEF InMethod, UsesAt
  <2> QED
    BY <2>2, <2>3
<1> HIDE DEF Box, BoxC, BoxF, Boxes
<1>3. ASSUME NEW use \in UseSet
      PROVE  use \in InFiles /\ ValueName(use) # NoWord
  <2>1. PICK i \in DOMAIN head : use \in BoxF(i)
    BY <1>0 DEF Boxes
  <2>2. PICK c \in DOMAIN head[i].cppclass : use \in BoxC(i, c)
    BY <2>1 DEF BoxF
  <2>3. PICK m \in DOMAIN head[i].cppclass[c] : use \in Box(i, c, head[i].cppclass[c][m])
    BY <2>2 DEF BoxC
  <2>4. use.body[use.at].sym # "" /\ ValueName(use) # NoWord
    BY <1>0
  <2>5. use \in InMethod(i, c, head[i].cppclass[c][m])
    BY <1>1, <1>2, <2>3, <2>4
  <2>6. use \in InClass(i, c)
    BY <2>5 DEF InClass
  <2>7. use \in InFile(i)
    BY <2>6 DEF InFile
  <2> QED
    BY <2>4, <2>7 DEF InFiles
<1>4. ASSUME NEW use \in InFiles, ValueName(use) # NoWord
      PROVE  use \in UseSet
  <2>1. PICK i \in DOMAIN head : use \in InFile(i)
    BY DEF InFiles
  <2>2. PICK c \in DOMAIN head[i].cppclass : use \in InClass(i, c)
    BY <2>1 DEF InFile
  <2>3. PICK m \in DOMAIN head[i].cppclass[c] : use \in InMethod(i, c, head[i].cppclass[c][m])
    BY <2>2 DEF InClass
  <2>4. use \in Box(i, c, head[i].cppclass[c][m]) /\ use.body[use.at].sym # ""
    BY <1>1, <1>2, <2>3
  <2>5. use \in BoxC(i, c)
    BY <2>4 DEF BoxC
  <2>6. use \in BoxF(i)
    BY <2>5 DEF BoxF
  <2>7. use \in Boxes
    BY <2>6 DEF Boxes
  <2> QED
    BY <1>0, <1>4, <2>4, <2>7
<1> QED
  BY <1>3, <1>4

-----------------------------------------------------------------------------

\* A phrase that is a typedef, where its type is, and the names it gives it.
IsDef(ph)   == Len(ph.words) > 2 /\ ph.words[1] = Typedef
TypeAt(ph)  == IF ph.words[2] = Class THEN 3 ELSE 2
Aliases(ph) == {ph.words[k] : k \in TypeAt(ph) + 1 .. Len(ph.words)}

\* The types that the typedefs among the phrases E give the name t.
GivenIn(E, t) == {ph.words[TypeAt(ph)] : ph \in {p \in E : IsDef(p) /\ t \in Aliases(p)}}

\* The phrases of texts.
Phrases(texts) == UNION {ToSet(texts[k]) : k \in 1 .. Len(texts)}

\* mapForTypeDef has the names that are given to a type, each with one of its types.
Follow(map, E) ==
  \A t : IF t \in DOMAIN map THEN map[t] \in GivenIn(E, t) ELSE GivenIn(E, t) = {}

\* dealwithTypeDef does.
LEMMA TypedefsFollow ==
  ASSUME NEW X, NEW texts \in Seq(Seq(X))
  PROVE  Follow(dealwithTypeDef(texts), Phrases(texts))
<1> DEFINE all == FlattenSeq(texts)
           E == Phrases(texts)
           D == {ph \in Range(all) : IsDef(ph)}
           defs == Among(all, D)
           First(alias) == defs[SelectInSeq(defs, LAMBDA ph : alias \in Aliases(ph))]
           map == dealwithTypeDef(texts)
<1>1. map = [alias \in UNION {Aliases(ph) : ph \in Range(defs)} |-> First(alias).words[TypeAt(First(alias))]]
  BY DEF dealwithTypeDef, IsDef, TypeAt, Aliases
<1>2. all \in Seq(X) /\ ToSet(all) = E
  BY FlattenSeqType DEF Phrases
<1> HIDE DEF all, E
<1>3. Range(all) = E
  BY <1>2 DEF ToSet, Range
<1> HIDE DEF D
<1>4. defs \in Seq(X) /\ Range(defs) = Range(all) \cap D
  BY <1>2, AmongType
<1>5. Range(defs) = {ph \in E : IsDef(ph)}
  BY <1>3, <1>4 DEF D
<1>6. Len(defs) \in Nat /\ DOMAIN defs = 1 .. Len(defs)
  BY <1>4, LenProperties
<1> HIDE DEF defs, map
<1>7. DOMAIN map = UNION {Aliases(ph) : ph \in Range(defs)}
  BY <1>1
<1>8. ASSUME NEW t \in DOMAIN map
      PROVE  map[t] \in GivenIn(E, t)
  <2> DEFINE I == {i \in 1 .. Len(defs) : t \in Aliases(defs[i])}
             i0 == SelectInSeq(defs, LAMBDA ph : t \in Aliases(ph))
             p == First(t)
  <2>1. i0 = IF I # {} THEN Min(I) ELSE 0
    BY DEF SelectInSeq
  <2>2. PICK ph \in Range(defs) : t \in Aliases(ph)
    BY <1>7
  <2>3. I # {}
    BY <1>6, <2>2 DEF Range
  <2>4. I \subseteq Nat
    BY <1>6
  <2>5. Min(I) \in I
    <3> HIDE DEF I
    <3> QED
      BY <2>3, <2>4, Smallest
  <2>6. i0 \in 1 .. Len(defs) /\ t \in Aliases(defs[i0])
    BY <2>1, <2>3, <2>5
  <2>7. p = defs[i0]
    OBVIOUS
  <2>8. map[t] = p.words[TypeAt(p)]
    BY <1>1, <1>7
  <2> HIDE DEF i0, p
  <2>9. p \in Range(defs) /\ t \in Aliases(p)
    BY <1>6, <2>6, <2>7 DEF Range
  <2>10. p \in E /\ IsDef(p)
    BY <1>5, <2>9
  <2> QED
    BY <2>8, <2>9, <2>10 DEF GivenIn
<1>9. ASSUME NEW t, t \notin DOMAIN map
      PROVE  GivenIn(E, t) = {}
  BY <1>5, <1>7, <1>9 DEF GivenIn
<1> QED
  BY <1>8, <1>9 DEF Follow, map, E

\* The phrases at file level of all headers and sources.
FilePhrases ==
  UNION {Range(text) : text \in {hmap[h].globalStr : h \in DOMAIN hmap} \cup {head[i].globalStr : i \in DOMAIN head}}

\* What a word stands for.
LEMMA MeaningsAre ==
  ASSUME NEW t
  PROVE  Meanings(t) = IF GivenIn(FilePhrases, t) = {} THEN {t} ELSE GivenIn(FilePhrases, t)
<1> DEFINE E == FilePhrases
           defs == {ph.words : ph \in {p \in E : IsDef(p)}}
           From(words) == IF words[2] = Class THEN 3 ELSE 2
           given == {words[From(words)] : words \in {ws \in defs : \E k \in From(ws) + 1 .. Len(ws) : ws[k] = t}}
<1>1. Meanings(t) = IF given = {} THEN {t} ELSE given
  BY DEF Meanings, FilePhrases, IsDef
<1> HIDE DEF E
<1>2. given = GivenIn(E, t)
  BY DEF GivenIn, TypeAt, Aliases
<1> QED
  BY <1>1, <1>2 DEF E

\* A word and what TrueType takes it for.
Meant == \A t : TrueType(t) \in Meanings(t)

\* doParsing begins with all typedefs.
LEMMA StartMeant ==
  ASSUME ReadInv, StartParsing
  PROVE  Meant'
<1> DEFINE names == Sorted(DOMAIN hmap)
           h == [k \in DOMAIN names |-> hmap[names[k]].globalStr]
           s == [i \in DOMAIN head |-> head[i].globalStr]
           texts == h \o s
           H == DOMAIN hmap
           TH == {hmap[g].globalStr : g \in H}
           TS == {head[i].globalStr : i \in DOMAIN head}
           X == FilePhrases
<1>1. UNCHANGED readVars /\ mapForTypeDef' = dealwithTypeDef(texts)
  BY DEF StartParsing
<1>2. hmap' = hmap /\ head' = head
  BY <1>1, ReadStays
<1>3. IsFiniteSet(H) /\ H \subseteq Int /\ \A g \in H : IsText(hmap[g].globalStr)
  BY DEF ReadInv, Headers, Header
<1>4. Len(head) \in Nat /\ DOMAIN head = 1 .. Len(head) /\ \A i \in DOMAIN head : IsText(head[i].globalStr)
  <2>1. head \in Seq(Range(head)) /\ \A x \in Range(head) : IsText(x.globalStr)
    BY DEF ReadInv, Sources, IsText, Source
  <2>2. \A i \in DOMAIN head : head[i] \in Range(head)
    BY DEF Range
  <2>3. Len(head) \in Nat /\ DOMAIN head = 1 .. Len(head)
    BY <2>1, LenProperties
  <2> QED
    BY <2>1, <2>2, <2>3
<1>5. X = UNION {Range(text) : text \in TH \cup TS}
  BY DEF FilePhrases
<1>6. \A text \in TH \cup TS : text \in Seq(X)
  <2> SUFFICES ASSUME NEW text \in TH \cup TS PROVE text \in Seq(X)
    OBVIOUS
  <2>1. text \in Seq(Range(text))
    BY <1>3, <1>4 DEF IsText
  <2>2. Range(text) \subseteq X
    BY <1>5
  <2>3. text \in [1 .. Len(text) -> Range(text)] /\ Len(text) \in Nat
    BY <2>1, LenProperties
  <2> HIDE DEF X
  <2>4. text \in [1 .. Len(text) -> X]
    BY <2>2, <2>3
  <2> QED
    BY <2>3, <2>4, LenIs
<1> HIDE DEF X
<1>7. names \in Seq(H) /\ DOMAIN names = 1 .. Len(names) /\ ToSet(names) = H
  <2> HIDE DEF H
  <2> QED
    BY <1>3, SortedIs, SortedAll DEF H
<1>8. Len(names) \in Nat /\ \A k \in 1 .. Len(names) : names[k] \in H
  BY <1>7, LenProperties, ElementOfSeq
<1>9. TH = {hmap[names[k]].globalStr : k \in 1 .. Len(names)}
  BY <1>7 DEF ToSet
<1> HIDE DEF names, H
<1>10. h \in [1 .. Len(names) -> Seq(X)] /\ TH = {h[k] : k \in 1 .. Len(names)}
  <2>1. h = [k \in 1 .. Len(names) |-> hmap[names[k]].globalStr]
    BY <1>7
  <2>2. \A k \in 1 .. Len(names) : hmap[names[k]].globalStr \in TH
    BY <1>8
  <2> HIDE DEF TH
  <2> QED
    BY <1>6, <1>9, <2>1, <2>2
<1>11. h \in Seq(Seq(X)) /\ Len(h) = Len(names)
  BY <1>8, <1>10, LenIs
<1>12. s \in [1 .. Len(head) -> Seq(X)] /\ TS = {s[i] : i \in 1 .. Len(head)}
  BY <1>4, <1>6
<1>13. s \in Seq(Seq(X)) /\ Len(s) = Len(head)
  BY <1>4, <1>12, LenIs
<1>14. ToSet(h) = TH /\ ToSet(s) = TS
  BY <1>10, <1>12 DEF ToSet
<1> HIDE DEF h, s, TH, TS
<1>15. texts \in Seq(Seq(X)) /\ ToSet(texts) = TH \cup TS
  BY <1>11, <1>13, <1>14, ConcatProperties, ConcatSet
<1>16. DOMAIN texts = 1 .. Len(texts)
  BY <1>15, LenProperties
<1> HIDE DEF texts
<1>17. Phrases(texts) = X
  <2>1. TH \cup TS = {texts[k] : k \in 1 .. Len(texts)}
    BY <1>15, <1>16 DEF ToSet
  <2>2. \A text : ToSet(text) = Range(text)
    BY DEF ToSet, Range
  <2> QED
    BY <1>5, <2>1, <2>2 DEF Phrases
<1>18. Follow(mapForTypeDef', X)
  BY <1>1, <1>15, <1>17, TypedefsFollow
<1>19. \A t : Meanings(t)' = IF GivenIn(X, t) = {} THEN {t} ELSE GivenIn(X, t)
  <2>1. \A t : Meanings(t)' = Meanings(t)
    BY <1>2 DEF Meanings
  <2> QED
    BY <2>1, MeaningsAre DEF X
<1> QED
  BY <1>18, <1>19 DEF Meant, TrueType, Follow

-----------------------------------------------------------------------------
(***************************************************************************)
(* The first header of each name.                                          *)
(***************************************************************************)

\* Of the first m headers, map has the first one of each name.
FirstOnes(files, map, m) ==
  /\ DOMAIN map = {files[i].name : i \in 1 .. m}
  /\ \A i \in 1 .. m : (\A j \in 1 .. i - 1 : files[j].name # files[i].name) =>
       map[files[i].name] = CReadH(files[i].text)

\* One more header is scanned.
LEMMA FirstInsert ==
  ASSUME NEW files, NEW map, NEW m \in Nat, FirstOnes(files, map, m)
  PROVE  FirstOnes(files, Insert(map, files[m + 1].name, CReadH(files[m + 1].text)), m + 1)
<1> DEFINE f == files[m + 1]
           v == CReadH(f.text)
           M == Insert(map, f.name, v)
<1>1. /\ DOMAIN map = {files[i].name : i \in 1 .. m}
      /\ \A i \in 1 .. m : (\A j \in 1 .. i - 1 : files[j].name # files[i].name) =>
           map[files[i].name] = CReadH(files[i].text)
  BY DEF FirstOnes
<1>2. /\ DOMAIN M = DOMAIN map \cup {f.name}
      /\ \A k \in DOMAIN M : M[k] = IF k \in DOMAIN map THEN map[k] ELSE v
  BY DEF Insert
<1>3. \A i \in 1 .. m + 1 : i \in 1 .. m \/ i = m + 1
  OBVIOUS
<1>4. \A i \in 1 .. m : i \in 1 .. m + 1
  OBVIOUS
<1>5. m + 1 \in 1 .. m + 1 /\ (m + 1) - 1 = m
  OBVIOUS
<1> HIDE DEF v, M
<1>6. DOMAIN M = {files[i].name : i \in 1 .. m + 1}
  <2>1. \A k \in DOMAIN M : \E i \in 1 .. m + 1 : k = files[i].name
    BY <1>1, <1>2, <1>4, <1>5
  <2>2. \A i \in 1 .. m + 1 : files[i].name \in DOMAIN M
    BY <1>1, <1>2, <1>3
  <2> QED
    BY <2>1, <2>2
<1>7. ASSUME NEW i \in 1 .. m + 1, \A j \in 1 .. i - 1 : files[j].name # files[i].name
      PROVE  M[files[i].name] = CReadH(files[i].text)
  <2>1. CASE i \in 1 .. m
    <3>1. files[i].name \in DOMAIN map /\ files[i].name \in DOMAIN M
      BY <1>1, <1>2, <2>1
    <3> QED
      BY <1>1, <1>2, <1>7, <2>1, <3>1
  <2>2. CASE i = m + 1
    <3>1. \A j \in 1 .. m : files[j].name # f.name
      BY <1>5, <1>7, <2>2
    <3>2. f.name \notin DOMAIN map /\ f.name \in DOMAIN M
      BY <1>1, <1>2, <3>1
    <3> QED
      BY <1>2, <2>2, <3>2 DEF v
  <2> QED
    BY <1>3, <2>1, <2>2
<1>8. FirstOnes(files, M, m + 1)
  BY <1>6, <1>7 DEF FirstOnes
<1> QED
  BY <1>8 DEF M, v

\* How many headers were scanned.
Scanned == IF nread <= Len(aryh) THEN nread ELSE Len(aryh)

\* hmap has the first header of each name, and all files are scanned before the
\* parsing.
FirstInv ==
  /\ FirstOnes(aryh, hmap, Scanned)
  /\ pc = "folder" => nread = 0
  /\ pc \in {"symbol", "walk", "relate", "modelled"} => AllRead

\* The initial state.
LEMMA InitFirst == ReadInit => FirstInv
<1> SUFFICES ASSUME ReadInit PROVE FirstInv
  OBVIOUS
<1>1. pc = "folder" /\ nread = 0 /\ aryh = <<>> /\ hmap = <<>>
  BY DEF ReadInit
<1>2. Scanned = 0 /\ DOMAIN hmap = {} /\ 1 .. 0 = {}
  BY <1>1 DEF Scanned
<1>3. FirstOnes(aryh, hmap, Scanned)
  BY <1>2 DEF FirstOnes
<1> QED
  BY <1>1, <1>3 DEF FirstInv

\* A step of the reading.
LEMMA ReadFirst ==
  ASSUME ReadInv, FirstInv, ReadNext
  PROVE  FirstInv'
<1> DEFINE lh == Len(aryh)
<1>0. /\ FirstOnes(aryh, hmap, Scanned) /\ (pc = "folder" => nread = 0)
      /\ lh \in Nat /\ nread \in Nat
  BY LenProperties DEF FirstInv, ReadInv
<1>1. ASSUME NEW f \in unseen, dfsFolder(f) PROVE FirstInv'
  <2>1. pc = "folder" /\ pc' = "folder" /\ nread' = nread /\ hmap' = hmap
    BY <1>1 DEF dfsFolder
  <2>2. nread = 0 /\ Scanned = 0
    BY <1>0, <2>1 DEF Scanned
  <2>3. Len(aryh') \in Nat
    <3>1. ReadInv'
      BY NextReads
    <3>2. aryh' \in Seq(Files)
      BY <3>1 DEF ReadInv
    <3> QED
      BY <3>2, LenProperties
  <2>4. Scanned' = 0
    BY <2>1, <2>2, <2>3 DEF Scanned
  <2>5. DOMAIN hmap = {} /\ 1 .. 0 = {}
    BY <1>0, <2>2 DEF FirstOnes
  <2>6. FirstOnes(aryh', hmap', Scanned')
    BY <2>1, <2>4, <2>5 DEF FirstOnes
  <2> QED
    BY <2>1, <2>2, <2>6 DEF FirstInv
<1>5. ASSUME NEW d, NoFolder(d) PROVE FirstInv'
  <2>1. UNCHANGED <<aryh, nread, hmap>> /\ pc = "folder" /\ pc' \in {"folder", "crash"}
    BY <1>5 DEF NoFolder
  <2>2. Scanned' = Scanned
    BY <2>1 DEF Scanned
  <2> QED
    BY <1>0, <2>1, <2>2 DEF FirstInv
<1>2. CASE EndFolder \/ Unreadable
  <2>1. UNCHANGED <<aryh, nread, hmap>> /\ pc' \in {"read", "exit"}
    BY <1>2 DEF EndFolder, Unreadable, readVars
  <2>2. Scanned' = Scanned
    BY <2>1 DEF Scanned
  <2> QED
    BY <1>0, <2>1, <2>2 DEF FirstInv
<1>3. CASE ReadHeader
  <2> DEFINE f == aryh[nread + 1]
  <2>1. /\ nread < lh /\ hmap' = Insert(hmap, f.name, CReadH(f.text)) /\ nread' = nread + 1
        /\ pc = "read" /\ pc' = "read" /\ aryh' = aryh
    BY <1>3 DEF ReadHeader
  <2>2. Scanned = nread /\ Scanned' = nread + 1
    BY <1>0, <2>1 DEF Scanned
  <2>3. FirstOnes(aryh, Insert(hmap, f.name, CReadH(f.text)), nread + 1)
    <3> HIDE DEF lh
    <3> QED
      BY <1>0, <2>2, FirstInsert
  <2> QED
    BY <2>1, <2>2, <2>3 DEF FirstInv
<1>4. CASE ReadSource
  <2>1. /\ nread >= lh /\ nread' = nread + 1 /\ hmap' = hmap
        /\ pc = "read" /\ pc' = "read" /\ aryh' = aryh
    BY <1>4 DEF ReadSource
  <2>2. Scanned = lh /\ Scanned' = lh
    BY <1>0, <2>1 DEF Scanned
  <2> QED
    BY <1>0, <2>1, <2>2 DEF FirstInv
<1> QED
  BY <1>1, <1>2, <1>3, <1>4, <1>5 DEF ReadNext

\* Any step.
LEMMA NextFirst ==
  ASSUME ReadInv, FirstInv, [Next]_vars
  PROVE  FirstInv'
<1>1. CASE ReadNext
  BY <1>1, ReadFirst
<1>2. ASSUME UNCHANGED readVars, pc' # "folder", AllRead
      PROVE  FirstInv'
  <2>1. UNCHANGED <<aryh, arycpp, nread, hmap>>
    BY <1>2 DEF readVars
  <2>2. Scanned' = Scanned /\ AllRead'
    BY <1>2, <2>1 DEF Scanned, AllRead
  <2> QED
    BY <1>2, <2>1, <2>2 DEF FirstInv
<1>3. CASE UNCHANGED vars
  <2>1. UNCHANGED <<pc, aryh, arycpp, nread, hmap>>
    BY <1>3 DEF vars, readVars
  <2>2. Scanned' = Scanned /\ AllRead' = AllRead
    BY <2>1 DEF Scanned, AllRead
  <2> QED
    BY <2>1, <2>2 DEF FirstInv
<1>4. CASE StartParsing
  <2>1. UNCHANGED readVars /\ AllRead /\ pc' = "symbol"
    BY <1>4 DEF StartParsing
  <2> QED
    BY <1>2, <2>1
<1>5. CASE NoVariable \/ Relate
  <2>1. UNCHANGED readVars /\ pc \in {"symbol", "relate"} /\ pc' = "symbol"
    BY <1>5 DEF NoVariable, Relate
  <2> QED
    BY <1>2, <2>1 DEF FirstInv
<1>6. CASE findsymbol \/ WalkHeader
  <2>1. UNCHANGED readVars /\ pc \in {"symbol", "walk"} /\ pc' \in {"walk", "relate"}
    BY <1>6 DEF findsymbol, WalkHeader
  <2> QED
    BY <1>2, <2>1 DEF FirstInv
<1>7. CASE WalkEnds
  <2>1. UNCHANGED readVars /\ pc = "walk" /\ pc' = "relate"
    BY <1>7 DEF WalkEnds
  <2> QED
    BY <1>2, <2>1 DEF FirstInv
<1>8. CASE createHypergraph
  <2>1. UNCHANGED readVars /\ pc = "symbol" /\ pc' = "modelled"
    BY <1>8 DEF createHypergraph
  <2> QED
    BY <1>2, <2>1 DEF FirstInv
<1> QED
  BY <1>1, <1>3, <1>4, <1>5, <1>6, <1>7, <1>8 DEF Next, Over

\* What hmap has in the end.
LEMMA FirstHeadersAre ==
  ASSUME ReadInv, FirstInv, AllRead
  PROVE  {<<h, hmap[h]>> : h \in DOMAIN hmap} = FirstHeaders
<1> DEFINE l == Len(aryh)
           N(i) == aryh[i].name
           firsts == {i \in DOMAIN aryh : \A j \in 1 .. i - 1 : N(j) # N(i)}
<1>1. l \in Nat /\ DOMAIN aryh = 1 .. l /\ Len(arycpp) \in Nat
  BY LenProperties DEF ReadInv
<1>2. Scanned = l
  <2>1. nread = l + Len(arycpp) /\ Scanned = IF nread <= l THEN nread ELSE l
    BY DEF Scanned, AllRead
  <2> HIDE DEF l
  <2> QED
    BY <1>1, <2>1
<1>3. /\ DOMAIN hmap = {N(i) : i \in 1 .. l}
      /\ \A i \in 1 .. l : (\A j \in 1 .. i - 1 : N(j) # N(i)) => hmap[N(i)] = CReadH(aryh[i].text)
  BY <1>2 DEF FirstInv, FirstOnes
<1>4. FirstHeaders = {<<N(i), CReadH(aryh[i].text)>> : i \in firsts}
  BY DEF FirstHeaders
<1> HIDE DEF l, N
<1>5. \A i \in firsts : i \in 1 .. l /\ hmap[N(i)] = CReadH(aryh[i].text) /\ N(i) \in DOMAIN hmap
  BY <1>1, <1>3
<1>6. ASSUME NEW h \in DOMAIN hmap
      PROVE  \E i \in firsts : h = N(i)
  <2> DEFINE I == {i \in 1 .. l : N(i) = h}
             m == Min(I)
  <2>1. I # {} /\ I \subseteq Nat
    BY <1>1, <1>3
  <2>2. m \in I /\ \A y \in I : m <= y
    <3> HIDE DEF I
    <3> QED
      BY <2>1, Smallest
  <2> HIDE DEF m
  <2>3. m \in 1 .. l /\ N(m) = h
    BY <2>2
  <2>4. ASSUME NEW j \in 1 .. m - 1 PROVE N(j) # N(m)
    <3>1. j \in 1 .. l /\ ~ (m <= j)
      BY <1>1, <2>3
    <3> QED
      BY <2>2, <2>3, <3>1
  <2>5. m \in firsts
    BY <1>1, <2>3, <2>4
  <2> QED
    BY <2>3, <2>5
<1> HIDE DEF firsts
<1> QED
  BY <1>4, <1>5, <1>6

-----------------------------------------------------------------------------
(***************************************************************************)
(* The edges are the calls.                                                *)
(***************************************************************************)

\* The classes a use may call, and its types, by use.
CallTypes == [use \in UseSet |-> UNION {Meanings(t) : t \in NearestTypes(use)}]

\* What depends on the files only stays.
LEMMA FilesStay ==
  ASSUME hmap' = hmap, head' = head
  PROVE  /\ UseSet' = UseSet /\ Classes' = Classes /\ InFiles' = InFiles
         /\ CallTypes' = CallTypes /\ \A t : Meanings(t)' = Meanings(t)
<1>1. \A use : ValueName(use)' = ValueName(use)
  BY DEF ValueName
<1>2. UseSet' = UseSet
  BY <1>1 DEF UseSet
<1>3. Classes' = Classes
  BY DEF Classes
<1>4. InFiles' = InFiles
  <2>1. \A i, c : InClass(i, c)' = InClass(i, c)
    BY DEF InClass
  <2>2. \A i : InFile(i)' = InFile(i)
    BY <2>1 DEF InFile
  <2> QED
    BY <2>2 DEF InFiles
<1>5. \A t : Meanings(t)' = Meanings(t)
  BY DEF Meanings
<1>6. ASSUME NEW use PROVE NearestTypes(use)' = NearestTypes(use)
  <2>1. AtDistance(use)' = AtDistance(use)
    BY DEF AtDistance, Known
  <2>2. TypeInClass(use)' = TypeInClass(use)
    BY DEF TypeInClass
  <2>3. NearType(use)' = NearType(use)
    BY <2>2 DEF NearType
  <2> QED
    BY <1>1, <2>1, <2>3 DEF NearestTypes
<1>7. CallTypes' = CallTypes
  <2> DEFINE T(use) == UNION {Meanings(t) : t \in NearestTypes(use)}
  <2>1. \A use : T(use)' = T(use)
    BY <1>5, <1>6
  <2> QED
    BY <1>2, <2>1 DEF CallTypes
<1> QED
  BY <1>2, <1>3, <1>4, <1>5, <1>7

\* A type that is found is a word.
LEMMA NearestAreWords ==
  ASSUME NEW use
  PROVE  NoWord \notin NearestTypes(use)
<1> DEFINE Near == AtDistance(use)
           Types(d) == {TypeIn(hmap[h].globalStr, ValueName(use)) : h \in Near[d]} \ {NoWord}
           found == {d \in DOMAIN Near : Types(d) # {}}
<1>1. NearestTypes(use) = IF NearType(use) # NoWord THEN {NearType(use)}
                          ELSE IF found = {} THEN {} ELSE Types(Min(found))
  BY DEF NearestTypes
<1>2. \A d : NoWord \notin Types(d)
  OBVIOUS
<1> HIDE DEF Types, found
<1> QED
  BY <1>1, <1>2

\* Every caller that is listed for a class has a call to it.
Sound(rel, uses, types, classes) ==
  \A t \in DOMAIN rel :
    t \in classes /\ \A c \in ToSet(rel[t]) : \E use \in uses : use.class = c /\ t \in types[use]

\* Every use that was looked at and can only be a call to one class is listed.
Complete(rel, uses, types, classes, left) ==
  \A use \in uses, t \in classes :
    use \notin ToSet(left) /\ types[use] = {t} /\ use.class # t =>
      t \in DOMAIN rel /\ use.class \in ToSet(rel[t])

\* What AddCaller adds.
LEMMA AddCallerAdds ==
  ASSUME NEW map, Relation(map), NEW class, NEW caller \in Int
  PROVE  LET M == AddCaller(map, class, caller)
         IN  /\ DOMAIN M = DOMAIN map \cup {class}
             /\ \A c \in DOMAIN map : c # class => M[c] = map[c]
             /\ ToSet(M[class]) = {caller} \cup (IF class \in DOMAIN map THEN ToSet(map[class]) ELSE {})
<1> DEFINE M == AddCaller(map, class, caller)
<1>1. DOMAIN M = DOMAIN map \cup {class}
  BY DEF AddCaller
<1>2. \A c \in DOMAIN M :
        M[c] = IF c # class THEN map[c]
               ELSE IF c \notin DOMAIN map THEN <<caller>>
               ELSE IF caller \in Range(map[c]) THEN map[c] ELSE Append(map[c], caller)
  BY DEF AddCaller
<1>3. \A s : ToSet(s) = Range(s)
  BY DEF ToSet, Range
<1> HIDE DEF M
<1>4. ToSet(M[class]) = {caller} \cup (IF class \in DOMAIN map THEN ToSet(map[class]) ELSE {})
  <2>1. CASE class \notin DOMAIN map
    BY <1>1, <1>2, <2>1, OneElement
  <2>2. CASE class \in DOMAIN map /\ caller \in Range(map[class])
    BY <1>1, <1>2, <1>3, <2>2
  <2>3. CASE class \in DOMAIN map /\ caller \notin Range(map[class])
    <3> DEFINE s == map[class]
    <3>1. s \in Seq(Int)
      BY <2>3 DEF Relation, Lists
    <3>2. M[class] = Append(s, caller)
      BY <1>1, <1>2, <2>3
    <3> HIDE DEF s
    <3>3. Range(Append(s, caller)) = Range(s) \cup {caller}
      BY <3>1, AppendRange
    <3> QED
      BY <1>3, <2>3, <3>2, <3>3 DEF s
  <2> QED
    BY <2>1, <2>2, <2>3
<1>5. \A c \in DOMAIN map : c # class => M[c] = map[c]
  BY <1>1, <1>2
<1> QED
  BY <1>1, <1>4, <1>5 DEF M

\* A call that is listed.
LEMMA CallListed ==
  ASSUME NEW rel, Relation(rel), NEW uses, NEW types, NEW classes, NEW left,
         Sound(rel, uses, types, classes), Complete(rel, uses, types, classes, left),
         NEW u \in uses, NEW t \in classes, t \in types[u], u.class \in Int
  PROVE  /\ Sound(AddCaller(rel, t, u.class), uses, types, classes)
         /\ Complete(AddCaller(rel, t, u.class), uses, types, classes, left)
         /\ t \in DOMAIN AddCaller(rel, t, u.class) /\ u.class \in ToSet(AddCaller(rel, t, u.class)[t])
<1> DEFINE M == AddCaller(rel, t, u.class)
<1>1. /\ DOMAIN M = DOMAIN rel \cup {t}
      /\ \A c \in DOMAIN rel : c # t => M[c] = rel[c]
      /\ ToSet(M[t]) = {u.class} \cup (IF t \in DOMAIN rel THEN ToSet(rel[t]) ELSE {})
  BY AddCallerAdds
<1> HIDE DEF M
<1>2. Sound(M, uses, types, classes)
  <2> SUFFICES ASSUME NEW d \in DOMAIN M
               PROVE  d \in classes /\ \A c \in ToSet(M[d]) : \E use \in uses : use.class = c /\ d \in types[use]
    BY DEF Sound
  <2>1. CASE d # t
    BY <1>1, <2>1 DEF Sound
  <2>2. CASE d = t
    <3>1. ASSUME NEW c \in ToSet(M[t]) PROVE \E use \in uses : use.class = c /\ t \in types[use]
      <4>1. CASE c = u.class
        BY <4>1
      <4>2. CASE c # u.class
        <5>1. t \in DOMAIN rel /\ c \in ToSet(rel[t])
          BY <1>1, <3>1, <4>2
        <5> QED
          BY <5>1 DEF Sound
      <4> QED
        BY <4>1, <4>2
    <3> QED
      BY <2>2, <3>1
  <2> QED
    BY <2>1, <2>2
<1>3. \A d \in DOMAIN rel : d \in DOMAIN M /\ ToSet(rel[d]) \subseteq ToSet(M[d])
  <2> SUFFICES ASSUME NEW d \in DOMAIN rel PROVE d \in DOMAIN M /\ ToSet(rel[d]) \subseteq ToSet(M[d])
    OBVIOUS
  <2>1. CASE d # t
    BY <1>1, <2>1
  <2>2. CASE d = t
    BY <1>1, <2>2
  <2> QED
    BY <2>1, <2>2
<1>4. Complete(M, uses, types, classes, left)
  BY <1>3 DEF Complete
<1> QED
  BY <1>1, <1>2, <1>4 DEF M

\* A graph whose edges are the classes that are called with their callers.
CallEdges(g, names, uses, types, classes) ==
  LET Of(e) == names[g.eind[e][1] + 1]
      On(e) == {names[v + 1] : v \in Range(g.eind[e])}
      MayCall(t)  == {use.class : use \in {u \in uses : t \in types[u]}} \ {t}
      MustCall(t) == {use.class : use \in {u \in uses : types[u] = {t}}} \ {t}
  IN  /\ \A e \in DOMAIN g.eind : Of(e) \in classes /\ On(e) \ {Of(e)} \subseteq MayCall(Of(e))
      /\ \A t \in classes : MustCall(t) # {} =>
           \E e \in DOMAIN g.eind : Of(e) = t /\ MustCall(t) \subseteq On(e)
      /\ \A e, f \in DOMAIN g.eind : Of(e) = Of(f) => e = f

\* The graph of a relation that is sound and complete is one.
LEMMA CallsMakeEdges ==
  ASSUME NEW g, NEW names, NEW rel, NEW uses, NEW types, NEW classes, Edges(g, names, rel),
         Sound(rel, uses, types, classes), Complete(rel, uses, types, classes, <<>>)
  PROVE  CallEdges(g, names, uses, types, classes)
<1> DEFINE Of(e) == names[g.eind[e][1] + 1]
           On(e) == {names[v + 1] : v \in Range(g.eind[e])}
           MayCall(t)  == {use.class : use \in {u \in uses : t \in types[u]}} \ {t}
           MustCall(t) == {use.class : use \in {u \in uses : types[u] = {t}}} \ {t}
           E == DOMAIN g.eind
<1>1. /\ \A e \in E : Of(e) \in DOMAIN rel /\ On(e) = {Of(e)} \cup ToSet(rel[Of(e)])
      /\ \A t \in DOMAIN rel : \E e \in E : Of(e) = t
      /\ \A e, f \in E : Of(e) = Of(f) => e = f
  BY DEF Edges
<1>2. \A u : u \notin ToSet(<<>>)
  BY DEF ToSet
<1> HIDE DEF Of, On, E
<1>3. ASSUME NEW e \in E
      PROVE  Of(e) \in classes /\ On(e) \ {Of(e)} \subseteq MayCall(Of(e))
  <2> DEFINE t == Of(e)
  <2>1. t \in DOMAIN rel /\ On(e) = {t} \cup ToSet(rel[t])
    BY <1>1
  <2> HIDE DEF t
  <2>2. t \in classes /\ \A c \in ToSet(rel[t]) : \E use \in uses : use.class = c /\ t \in types[use]
    BY <2>1 DEF Sound
  <2>3. \A c \in On(e) \ {t} : c \in MayCall(t)
    BY <2>1, <2>2
  <2> HIDE DEF MayCall
  <2> QED
    BY <2>2, <2>3 DEF t
<1>4. ASSUME NEW t \in classes, MustCall(t) # {}
      PROVE  \E e \in E : Of(e) = t /\ MustCall(t) \subseteq On(e)
  <2>1. \A c \in MustCall(t) : t \in DOMAIN rel /\ c \in ToSet(rel[t])
    <3> SUFFICES ASSUME NEW c \in MustCall(t) PROVE t \in DOMAIN rel /\ c \in ToSet(rel[t])
      OBVIOUS
    <3>1. PICK use \in uses : types[use] = {t} /\ use.class = c /\ c # t
      OBVIOUS
    <3> QED
      BY <1>2, <3>1 DEF Complete
  <2> HIDE DEF MustCall
  <2>2. t \in DOMAIN rel
    BY <1>4, <2>1
  <2>3. PICK e \in E : Of(e) = t
    BY <1>1, <2>2
  <2>4. On(e) = {t} \cup ToSet(rel[t])
    BY <1>1, <2>3
  <2> QED
    BY <2>1, <2>3, <2>4
<1> QED
  BY <1>1, <1>3, <1>4 DEF CallEdges, Of, On, E

\* The calls: until the parsing no caller is listed; then the callers that are
\* listed are those of the uses looked at, and in the end they make the edges.
CallsInv ==
  /\ pc \in {"folder", "read"} => DOMAIN calledrelation = {}
  /\ pc \in {"symbol", "walk", "relate"} =>
       /\ Meant /\ ToSet(todo) \subseteq InFiles
       /\ Sound(calledrelation, UseSet, CallTypes, Classes)
       /\ Complete(calledrelation, UseSet, CallTypes, Classes, todo)
  /\ pc \in {"walk", "relate"} => ValueName(Use) # NoWord
  /\ pc = "modelled" => CallEdges(pHyper, vertices, UseSet, CallTypes, Classes)

\* doParsing begins.
LEMMA StartCalls ==
  ASSUME ReadInv, StartParsing, CallsInv
  PROVE  CallsInv'
<1>1. /\ UNCHANGED readVars /\ pc = "read" /\ pc' = "symbol" /\ todo' = AllUses
      /\ calledrelation' = calledrelation
  BY DEF StartParsing
<1>2. hmap' = hmap /\ head' = head
  BY <1>1, ReadStays
<1>3. UseSet' = UseSet /\ InFiles' = InFiles
  BY <1>2, FilesStay
<1>4. ToSet(todo') = InFiles /\ UseSet \subseteq InFiles
  BY <1>1, AllUsesAre, UseSetIs DEF ReadInv
<1>5. Meant'
  BY StartMeant
<1>6. DOMAIN calledrelation' = {}
  BY <1>1 DEF CallsInv
<1>7. Sound(calledrelation', UseSet', CallTypes', Classes')
  BY <1>6 DEF Sound
<1>8. Complete(calledrelation', UseSet', CallTypes', Classes', todo')
  BY <1>3, <1>4 DEF Complete
<1> QED
  BY <1>1, <1>3, <1>4, <1>5, <1>7, <1>8 DEF CallsInv

\* The use at hand and the ones after it.
LEMMA UseFirst ==
  ASSUME todo \in Seq(Pending), todo # <<>>
  PROVE  ToSet(todo) = {Use} \cup ToSet(Tail(todo))
<1> DEFINE l == Len(todo)
           s == Tail(todo)
<1>1. l \in Nat \ {0} /\ DOMAIN todo = 1 .. l
  BY LenProperties, EmptySeq
<1>2. s \in Seq(Pending) /\ Len(s) = l - 1 /\ \A i \in 1 .. l - 1 : s[i] = todo[i + 1]
  BY HeadTailProperties
<1>3. DOMAIN s = 1 .. l - 1
  BY <1>2, LenProperties
<1> HIDE DEF l, s
<1>4. \A i \in 1 .. l : i = 1 \/ (i - 1 \in 1 .. l - 1 /\ (i - 1) + 1 = i)
  BY <1>1
<1>5. 1 \in 1 .. l /\ \A i \in 1 .. l - 1 : i + 1 \in 1 .. l
  BY <1>1
<1>6. ToSet(todo) \subseteq {Use} \cup ToSet(s)
  <2>1. ASSUME NEW i \in 1 .. l PROVE todo[i] = Use \/ \E j \in 1 .. l - 1 : todo[i] = s[j]
    <3>1. CASE i = 1
      BY <3>1 DEF Use
    <3>2. CASE i # 1
      <4>1. s[i - 1] = todo[i] /\ i - 1 \in 1 .. l - 1
        BY <1>2, <1>4, <3>2
      <4> QED
        BY <4>1
    <3> QED
      BY <3>1, <3>2
  <2> QED
    BY <1>1, <1>3, <2>1 DEF ToSet
<1>7. Use \in ToSet(todo) /\ ToSet(s) \subseteq ToSet(todo)
  BY <1>1, <1>2, <1>3, <1>5 DEF ToSet, Use
<1> QED
  BY <1>6, <1>7 DEF s

\* Relate lists the call, if it is one.
LEMMA RelateCalls ==
  ASSUME ParseInv, WalkInv, CallsInv, Relate
  PROVE  CallsInv'
<1> DEFINE u == Use
           t == TrueType(typeofname)
           near == NearestTypes(u)
           uses == UseSet
           types == CallTypes
           classes == Classes
           rel == calledrelation
           left == Tail(todo)
           new == typeofname # NoWord /\ t # u.class /\ t \in classes
<1>1. /\ UNCHANGED readVars /\ pc = "relate" /\ pc' = "symbol" /\ todo' = left /\ mapForTypeDef' = mapForTypeDef
      /\ calledrelation' = IF new THEN AddCaller(rel, t, u.class) ELSE rel
  BY DEF Relate, Classes
<1>2. ReadInv /\ todo \in Seq(Pending) /\ todo # <<>> /\ Relation(rel)
  BY <1>1 DEF ParseInv
<1>3. hmap' = hmap /\ head' = head
  BY <1>1, <1>2, ReadStays
<1>4. /\ UseSet' = uses /\ InFiles' = InFiles /\ CallTypes' = types /\ Classes' = classes
      /\ \A w : Meanings(w)' = Meanings(w)
  BY <1>3, FilesStay
<1>5. /\ Meant /\ ToSet(todo) \subseteq InFiles /\ ValueName(u) # NoWord
      /\ Sound(rel, uses, types, classes) /\ Complete(rel, uses, types, classes, todo)
  BY <1>1 DEF CallsInv
<1>6. Meant'
  BY <1>1, <1>4, <1>5 DEF Meant, TrueType
<1>7. ToSet(todo) = {u} \cup ToSet(left)
  BY <1>2, UseFirst
<1>8. u \in uses /\ u.class \in Int
  <2>1. u \in InFiles
    BY <1>5, <1>7
  <2> QED
    BY <1>2, <1>5, <2>1, UseIs, UseSetIs DEF ReadInv
<1>9. types[u] = UNION {Meanings(w) : w \in near}
  BY <1>8 DEF CallTypes
<1>10. IF near = {} THEN typeofname = NoWord ELSE typeofname \in near
  BY <1>1 DEF WalkInv, NearestDeclaration
<1>11. t \in Meanings(typeofname)
  BY <1>5 DEF Meant
<1>12. NoWord \notin near
  BY NearestAreWords
<1> HIDE DEF t, near, uses, types, classes, rel, left, u
<1>13. typeofname # NoWord => t \in types[u]
  BY <1>9, <1>10, <1>11
<1>14. \A w \in classes : types[u] = {w} /\ u.class # w => new /\ w = t
  <2> SUFFICES ASSUME NEW w \in classes, types[u] = {w}, u.class # w PROVE new /\ w = t
    OBVIOUS
  <2>1. near # {}
    BY <1>9
  <2>2. typeofname \in near /\ typeofname # NoWord
    BY <1>10, <1>12, <2>1
  <2>3. t = w
    BY <1>13, <2>2
  <2> QED
    BY <2>2, <2>3
<1>15. /\ Sound(calledrelation', uses, types, classes)
       /\ Complete(calledrelation', uses, types, classes, left)
  <2>1. CASE new
    <3> DEFINE M == AddCaller(rel, t, u.class)
    <3>1. calledrelation' = M
      BY <1>1, <2>1
    <3>2. /\ Sound(M, uses, types, classes) /\ Complete(M, uses, types, classes, todo)
          /\ t \in DOMAIN M /\ u.class \in ToSet(M[t])
      BY <1>2, <1>5, <1>8, <1>13, <2>1, CallListed
    <3> HIDE DEF M
    <3>3. Complete(M, uses, types, classes, left)
      BY <1>7, <1>14, <3>2 DEF Complete
    <3> QED
      BY <3>1, <3>2, <3>3
  <2>2. CASE ~new
    <3>1. calledrelation' = rel
      BY <1>1, <2>2
    <3>2. Complete(rel, uses, types, classes, left)
      BY <1>5, <1>7, <1>14, <2>2 DEF Complete
    <3> QED
      BY <1>5, <3>1, <3>2
  <2> QED
    BY <2>1, <2>2
<1>16. ToSet(todo') \subseteq InFiles'
  BY <1>1, <1>4, <1>5, <1>7
<1> QED
  BY <1>1, <1>4, <1>6, <1>15, <1>16 DEF CallsInv

\* A step preserves the invariant.
LEMMA NextCalls == ParseInv /\ WalkInv /\ CallsInv /\ [Next]_vars => CallsInv'
<1> SUFFICES ASSUME ParseInv, WalkInv, CallsInv, [Next]_vars PROVE CallsInv'
  OBVIOUS
<1>0. ReadInv /\ todo \in Seq(Pending) /\ Relation(calledrelation)
  BY DEF ParseInv
<1>1. CASE ReadNext /\ UNCHANGED parseVars
  <2>1. pc \in {"folder", "read"} /\ pc' \in {"folder", "read", "exit", "crash"} /\ calledrelation' = calledrelation
    BY <1>1 DEF ReadNext, dfsFolder, NoFolder, EndFolder, ReadHeader, ReadSource, Unreadable, parseVars
  <2> QED
    BY <2>1 DEF CallsInv
<1>2. CASE StartParsing
  BY <1>0, <1>2, StartCalls
<1>3. ASSUME hmap' = hmap, head' = head, mapForTypeDef' = mapForTypeDef, calledrelation' = calledrelation,
             pc \in {"symbol", "walk", "relate"}
      PROVE  /\ Meant' /\ InFiles' = InFiles /\ UseSet' = UseSet /\ CallTypes' = CallTypes /\ Classes' = Classes
             /\ Sound(calledrelation', UseSet', CallTypes', Classes') /\ ToSet(todo) \subseteq InFiles
             /\ Complete(calledrelation', UseSet', CallTypes', Classes', todo)
  <2>1. /\ InFiles' = InFiles /\ UseSet' = UseSet /\ CallTypes' = CallTypes /\ Classes' = Classes
        /\ \A t : Meanings(t)' = Meanings(t)
    BY <1>3, FilesStay
  <2>2. /\ Meant /\ Sound(calledrelation, UseSet, CallTypes, Classes) /\ ToSet(todo) \subseteq InFiles
        /\ Complete(calledrelation, UseSet, CallTypes, Classes, todo)
    BY <1>3 DEF CallsInv
  <2>3. Meant'
    BY <1>3, <2>1, <2>2 DEF Meant, TrueType
  <2> QED
    BY <1>3, <2>1, <2>2, <2>3
<1>4. CASE NoVariable
  <2> DEFINE uses == UseSet
             types == CallTypes
             classes == Classes
             left == Tail(todo)
  <2>1. /\ pc = "symbol" /\ pc' = "symbol" /\ UNCHANGED readVars /\ todo # <<>> /\ todo' = left
        /\ mapForTypeDef' = mapForTypeDef /\ calledrelation' = calledrelation /\ ValueName(Use) = NoWord
    BY <1>4 DEF NoVariable
  <2>2. hmap' = hmap /\ head' = head
    BY <1>0, <2>1, ReadStays
  <2>3. /\ Meant' /\ InFiles' = InFiles /\ UseSet' = uses /\ CallTypes' = types /\ Classes' = classes
        /\ Sound(calledrelation', uses, types, classes) /\ ToSet(todo) \subseteq InFiles
        /\ Complete(calledrelation', uses, types, classes, todo)
    BY <1>3, <2>1, <2>2
  <2>4. ToSet(todo) = {Use} \cup ToSet(left)
    BY <1>0, <2>1, UseFirst
  <2>5. Use \notin uses
    BY <1>0, <2>1, UseSetIs DEF ReadInv
  <2> HIDE DEF uses, types, classes, left
  <2>6. Complete(calledrelation', uses, types, classes, left)
    BY <2>3, <2>4, <2>5 DEF Complete
  <2> QED
    BY <2>1, <2>3, <2>4, <2>6 DEF CallsInv
<1>5. CASE findsymbol \/ WalkHeader \/ WalkEnds
  <2>1. /\ pc \in {"symbol", "walk"} /\ pc' \in {"walk", "relate"} /\ UNCHANGED readVars /\ todo' = todo
        /\ mapForTypeDef' = mapForTypeDef /\ calledrelation' = calledrelation
        /\ pc = "symbol" => ValueName(Use) # NoWord
    BY <1>5 DEF findsymbol, WalkHeader, WalkEnds, parseVars
  <2>2. hmap' = hmap /\ head' = head
    BY <1>0, <2>1, ReadStays
  <2>3. ValueName(Use)' = ValueName(Use) /\ ValueName(Use) # NoWord
    BY <2>1 DEF CallsInv, ValueName, Use
  <2> QED
    BY <1>3, <2>1, <2>2, <2>3 DEF CallsInv
<1>6. CASE Relate
  BY <1>6, RelateCalls
<1>7. CASE createHypergraph
  <2>1. /\ pc = "symbol" /\ pc' = "modelled" /\ UNCHANGED readVars /\ todo = <<>>
        /\ mapForTypeDef' = mapForTypeDef /\ calledrelation' = calledrelation
    BY <1>7 DEF createHypergraph
  <2>2. hmap' = hmap /\ head' = head
    BY <1>0, <2>1, ReadStays
  <2>3. /\ Sound(calledrelation, UseSet', CallTypes', Classes')
        /\ Complete(calledrelation, UseSet', CallTypes', Classes', <<>>)
    BY <1>3, <2>1, <2>2
  <2>4. Edges(pHyper', vertices', calledrelation)
    BY <1>0, <1>7, ModelEdges
  <2>5. CallEdges(pHyper', vertices', UseSet', CallTypes', Classes')
    BY <2>3, <2>4, CallsMakeEdges
  <2> QED
    BY <2>1, <2>5 DEF CallsInv
<1>8. CASE UNCHANGED vars
  <2>1. UNCHANGED <<pc, hmap, head, mapForTypeDef, todo, calledrelation, pHyper, vertices>>
    BY <1>8 DEF vars, readVars, parseVars
  <2>2. UseSet' = UseSet /\ CallTypes' = CallTypes /\ Classes' = Classes
    BY <2>1, FilesStay
  <2>3. pc \in {"walk", "relate"} => ValueName(Use)' # NoWord
    BY <2>1 DEF CallsInv, ValueName, Use
  <2>4. pc \in {"symbol", "walk", "relate"} =>
          /\ Meant' /\ InFiles' = InFiles /\ ToSet(todo) \subseteq InFiles
          /\ Sound(calledrelation', UseSet', CallTypes', Classes')
          /\ Complete(calledrelation', UseSet', CallTypes', Classes', todo)
    BY <1>3, <2>1
  <2>5. pc = "modelled" => CallEdges(pHyper', vertices', UseSet', CallTypes', Classes')
    BY <2>1, <2>2 DEF CallsInv
  <2>6. pc \in {"folder", "read"} => DOMAIN calledrelation' = {}
    BY <2>1 DEF CallsInv
  <2> QED
    BY <2>1, <2>3, <2>4, <2>5, <2>6 DEF CallsInv
<1> QED
  BY <1>1, <1>2, <1>4, <1>5, <1>6, <1>7, <1>8 DEF Next, Over

\* In the end the edges are the classes that are called, each with its callers.
LEMMA CallsInTheEnd ==
  ASSUME ReadInv, FirstInv, CallsInv
  PROVE  EdgesFromCalls
<1> SUFFICES ASSUME pc = "modelled" PROVE EdgesFromCalls
  BY DEF EdgesFromCalls
<1>1. AllRead
  BY DEF FirstInv
<1>2. {<<h, hmap[h]>> : h \in DOMAIN hmap} = FirstHeaders
  BY <1>1, FirstHeadersAre
<1>3. CallEdges(pHyper, vertices, UseSet, CallTypes, Classes)
  BY DEF CallsInv
<1> QED
  BY <1>2, <1>3 DEF EdgesFromCalls, CallEdges, CallTypes, Called, Members

\* Whatever the order of the files and however they include each other, the
\* hypergraph has one edge for every class that is called, with all the classes that
\* call it and no other, and of headers with one name the first one counts.
THEOREM ParsingEdgesFromCalls == Spec => []EdgesFromCalls
<1>1. Init => WalkInv /\ FirstInv /\ CallsInv
  <2> SUFFICES ASSUME Init PROVE WalkInv /\ FirstInv /\ CallsInv
    OBVIOUS
  <2>1. pc = "folder" /\ calledrelation = <<>> /\ ReadInit
    BY DEF Init, ReadInit
  <2>2. WalkInv
    BY <2>1 DEF WalkInv, NearestDeclaration
  <2>3. FirstInv
    BY <2>1, InitFirst
  <2>4. DOMAIN calledrelation = {}
    BY <2>1
  <2> QED
    BY <2>1, <2>2, <2>3, <2>4 DEF CallsInv
<1>2. ParseInv /\ FirstInv /\ [Next]_vars => FirstInv'
  BY NextFirst DEF ParseInv
<1>3. ParseInv /\ FirstInv /\ CallsInv => EdgesFromCalls
  BY CallsInTheEnd DEF ParseInv
<1> QED
  BY <1>1, <1>2, <1>3, NextWalks, NextCalls, ParseHolds, PTL DEF Spec

=============================================================================
