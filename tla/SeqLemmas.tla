----------------------------- MODULE SeqLemmas ------------------------------
(***************************************************************************)
(* Induction, recursion, and what the operators on sequences compute that  *)
(* the models share.  Induction is stated over a set of naturals, not over *)
(* a predicate, so that the provers can use it.                            *)
(***************************************************************************)
EXTENDS Integers, SequencesExt, FirstSeen, SequenceTheorems, FiniteSetTheorems,
        WellFoundedInduction, TLAPS

-----------------------------------------------------------------------------
(***************************************************************************)
(* Induction and recursion.                                                *)
(***************************************************************************)

\* A set that has 0, and the successor of each natural it has, has them all.
LEMMA NatSetInduction ==
  ASSUME NEW T, 0 \in T, \A n \in Nat : n \in T => n + 1 \in T
  PROVE  \A n \in Nat : n \in T
<1> DEFINE B == Nat \ T
<1>1. SUFFICES ASSUME B # {} PROVE FALSE
  BY <1>1
<1>2. PICK x \in B : \A y \in B : ~ (<<y, x>> \in OpToRel(<, Nat))
  <2>1. B \subseteq Nat
    OBVIOUS
  <2>2. IsWellFoundedOn(OpToRel(<, Nat), Nat)
    BY NatLessThanWellFounded
  <2> QED
    BY <1>1, <2>1, <2>2, WFMin
<1>3. x \in Nat /\ x # 0
  OBVIOUS
<1>4. x - 1 \in Nat /\ x - 1 < x
  BY <1>3
<1>5. x - 1 \in T
  BY <1>2, <1>3, <1>4 DEF OpToRel
<1>6. (x - 1) + 1 \in T
  BY <1>4, <1>5
<1> QED
  BY <1>3, <1>6

\* The bodies of a loop of n iterations over values in S: d[<<value, i>>] is the
\* value after iteration i.
Bodies(S, n) == [S \X (1 .. n) -> S]

\* The values a loop of n iterations goes through from c on.
Courses(S, c, n, d) ==
  {h \in [0 .. n -> S] : h[0] = c /\ \A i \in 1 .. n : h[i] = d[<<h[i - 1], i>>]}

\* Every loop has a course: a function defined by recursion on a counter exists.
LEMMA LoopExists ==
  ASSUME NEW S, NEW c \in S, NEW n \in Nat, NEW d \in Bodies(S, n)
  PROVE  Courses(S, c, n, d) # {}
<1>0. d \in [S \X (1 .. n) -> S]
  BY DEF Bodies
<1> DEFINE Upto(m) == \E h \in [0 .. m -> S] :
                        h[0] = c /\ \A i \in 1 .. m : h[i] = d[<<h[i - 1], i>>]
           T == {m \in Nat : m <= n => Upto(m)}
<1>1. 0 \in T
  <2>1. [i \in 0 .. 0 |-> c] \in [0 .. 0 -> S]
    OBVIOUS
  <2>2. Upto(0)
    <3> WITNESS [i \in 0 .. 0 |-> c] \in [0 .. 0 -> S]
    <3> QED
      OBVIOUS
  <2> QED
    BY <2>2
<1>2. ASSUME NEW m \in Nat, m \in T
      PROVE  m + 1 \in T
  <2>1. SUFFICES ASSUME m + 1 <= n
                 PROVE  Upto(m + 1)
    OBVIOUS
  <2>2. PICK h \in [0 .. m -> S] : h[0] = c /\ \A i \in 1 .. m : h[i] = d[<<h[i - 1], i>>]
    BY <1>2, <2>1
  <2> DEFINE k == [i \in 0 .. m + 1 |-> IF i = m + 1 THEN d[<<h[m], i>>] ELSE h[i]]
  <2>3. h[m] \in S /\ m + 1 \in 1 .. n
    BY <2>1
  <2>4. d[<<h[m], m + 1>>] \in S
    BY <1>0, <2>3
  <2>5. k \in [0 .. m + 1 -> S]
    BY <2>4
  <2>6. k[0] = c
    BY <2>2
  <2>7. ASSUME NEW i \in 1 .. m + 1
        PROVE  k[i] = d[<<k[i - 1], i>>]
    <3>1. k[i - 1] = h[i - 1]
      OBVIOUS
    <3>2. CASE i = m + 1
      BY <3>1, <3>2
    <3>3. CASE i # m + 1
      <4>1. i \in 1 .. m /\ k[i] = h[i]
        BY <3>3
      <4> QED
        BY <2>2, <3>1, <4>1
    <3> QED
      BY <3>2, <3>3
  <2> QED
    BY <2>5, <2>6, <2>7
<1> HIDE DEF Upto
<1>3. \A m \in Nat : m \in T => m + 1 \in T
  BY <1>2
<1>4. \A m \in Nat : m \in T
  BY <1>1, <1>3, NatSetInduction
<1>5. Upto(n)
  BY <1>4
<1>6. PICK h \in [0 .. n -> S] : h[0] = c /\ \A i \in 1 .. n : h[i] = d[<<h[i - 1], i>>]
  BY <1>5 DEF Upto
<1>7. h \in Courses(S, c, n, d)
  BY <1>6 DEF Courses
<1> QED
  BY <1>7

\* F starts with c and follows the body of the loop, as long as it stays in S.
Follows(S, c, n, d, F) ==
  /\ F = [k \in 0 .. n |-> F[k]]
  /\ F[0] = c
  /\ \A k \in 1 .. n : F[k - 1] \in S => F[k] = d[<<F[k - 1], k>>]

\* A function that follows the body of a loop stays in S: it is its course.
LEMMA LoopFollows ==
  ASSUME NEW S, NEW c \in S, NEW n \in Nat, NEW d \in Bodies(S, n), NEW F,
         Follows(S, c, n, d, F)
  PROVE  F \in Courses(S, c, n, d)
<1> DEFINE T == {m \in Nat : m <= n => F[m] \in S}
<1>1. 0 \in T
  BY DEF Follows
<1>2. ASSUME NEW m \in Nat, m \in T
      PROVE  m + 1 \in T
  <2> SUFFICES ASSUME m + 1 <= n PROVE F[m + 1] \in S
    OBVIOUS
  <2>1. m + 1 \in 1 .. n /\ (m + 1) - 1 = m /\ F[m] \in S
    BY <1>2
  <2>2. F[m + 1] = d[<<F[m], m + 1>>]
    BY <2>1 DEF Follows
  <2>3. <<F[m], m + 1>> \in S \X (1 .. n)
    BY <2>1
  <2> QED
    BY <2>2, <2>3 DEF Bodies
<1>3. \A m \in Nat : m \in T
  <2> HIDE DEF T
  <2> QED
    BY <1>1, <1>2, NatSetInduction
<1>4. \A k \in 0 .. n : F[k] \in S
  BY <1>3
<1>5. F \in [0 .. n -> S]
  BY <1>4 DEF Follows
<1>6. \A k \in 1 .. n : k - 1 \in 0 .. n
  OBVIOUS
<1> QED
  BY <1>4, <1>5, <1>6 DEF Follows, Courses

-----------------------------------------------------------------------------
(***************************************************************************)
(* Sequences.                                                              *)
(***************************************************************************)

\* The sequences over X without repetition.
Lists(X) == {s \in Seq(X) : IsInjective(s)}

\* A list stays free of repetitions when an element it does not have is added.
LEMMA ListAppend ==
  ASSUME NEW X, NEW s \in Lists(X), NEW x \in X, \A j \in DOMAIN s : s[j] # x
  PROVE  Append(s, x) \in Lists(X)
<1>1. s \in Seq(X) /\ IsInjective(s)
  BY DEF Lists
<1>2. /\ Append(s, x) \in Seq(X) /\ Len(Append(s, x)) = Len(s) + 1
      /\ \A i \in 1 .. Len(s) : Append(s, x)[i] = s[i]
      /\ Append(s, x)[Len(s) + 1] = x
  BY <1>1, AppendProperties
<1>3. DOMAIN s = 1 .. Len(s) /\ DOMAIN Append(s, x) = 1 .. Len(s) + 1 /\ Len(s) \in Nat
  BY <1>1, <1>2, LenProperties
<1>4. ASSUME NEW a \in DOMAIN Append(s, x), NEW b \in DOMAIN Append(s, x),
             Append(s, x)[a] = Append(s, x)[b]
      PROVE  a = b
  <2>1. CASE a \in 1 .. Len(s) /\ b \in 1 .. Len(s)
    BY <1>1, <1>2, <1>3, <1>4, <2>1 DEF IsInjective
  <2>2. CASE a = Len(s) + 1 /\ b \in 1 .. Len(s)
    BY <1>2, <1>3, <1>4, <2>2
  <2>3. CASE b = Len(s) + 1 /\ a \in 1 .. Len(s)
    BY <1>2, <1>3, <1>4, <2>3
  <2> QED
    BY <1>3, <2>1, <2>2, <2>3
<1> QED
  BY <1>2, <1>4 DEF Lists, IsInjective

\* The courses of FirstSeen's loop over s.
Seens(X, s) ==
  {f \in [0 .. Len(s) -> Lists(X)] :
     /\ f[0] = <<>>
     /\ \A i \in 1 .. Len(s) : f[i] = IF \E j \in DOMAIN f[i - 1] : f[i - 1][j] = s[i]
                                        THEN f[i - 1] ELSE Append(f[i - 1], s[i])
     /\ FirstSeen(s) = f[Len(s)]}

\* FirstSeen is a loop over s that collects a list without repetitions.
LEMMA FirstSeenCourse ==
  ASSUME NEW X, NEW s \in Seq(X)
  PROVE  Seens(X, s) # {}
<1> DEFINE n == Len(s)
           Seen == CHOOSE F : F = [k \in 0 .. n |->
                     IF k = 0 THEN <<>>
                     ELSE IF \E j \in DOMAIN F[k - 1] : F[k - 1][j] = s[k]
                            THEN F[k - 1] ELSE Append(F[k - 1], s[k])]
           d == [t \in Lists(X) \X (1 .. n) |->
                   IF \E j \in DOMAIN t[1] : t[1][j] = s[t[2]]
                     THEN t[1] ELSE Append(t[1], s[t[2]])]
<1>1. FirstSeen(s) = Seen[n]
  BY DEF FirstSeen
<1>2. n \in Nat /\ s \in [1 .. n -> X] /\ DOMAIN s = 1 .. n
  BY LenProperties
<1>3. <<>> \in Lists(X)
  BY EmptySeq DEF Lists, IsInjective
<1>4. d \in [Lists(X) \X (1 .. n) -> Lists(X)]
  <2>1. ASSUME NEW l \in Lists(X), NEW i \in 1 .. n, \A j \in DOMAIN l : l[j] # s[i]
        PROVE  Append(l, s[i]) \in Lists(X)
    BY <1>2, <2>1, ListAppend
  <2> QED
    BY <2>1
<1>5. PICK h \in [0 .. n -> Lists(X)] : h[0] = <<>> /\ \A i \in 1 .. n : h[i] = d[<<h[i - 1], i>>]
  <2>1. n \in Nat
    BY <1>2
  <2> DEFINE empty == <<>>
             L == Lists(X)
  <2>2. empty \in L /\ d \in Bodies(L, n)
    BY <1>3, <1>4 DEF Bodies
  <2> HIDE DEF d, n, empty, L, Seen
  <2>3. Courses(L, empty, n, d) # {}
    BY <2>1, <2>2, LoopExists
  <2> QED
    BY <2>3 DEF empty, L, Courses
<1>6. \A i \in 1 .. n : h[i] = IF \E j \in DOMAIN h[i - 1] : h[i - 1][j] = s[i]
                                 THEN h[i - 1] ELSE Append(h[i - 1], s[i])
  <2> SUFFICES ASSUME NEW i \in 1 .. n
               PROVE  h[i] = IF \E j \in DOMAIN h[i - 1] : h[i - 1][j] = s[i]
                               THEN h[i - 1] ELSE Append(h[i - 1], s[i])
    OBVIOUS
  <2>1. i - 1 \in 0 .. n
    BY <1>2
  <2>2. <<h[i - 1], i>> \in Lists(X) \X (1 .. n)
    BY <2>1
  <2> QED
    BY <1>5, <2>2
<1>7. h = [k \in 0 .. n |->
             IF k = 0 THEN <<>>
             ELSE IF \E j \in DOMAIN h[k - 1] : h[k - 1][j] = s[k]
                    THEN h[k - 1] ELSE Append(h[k - 1], s[k])]
  BY <1>5, <1>6
<1>8. /\ Seen[0] = <<>> /\ Seen = [k \in 0 .. n |-> Seen[k]]
      /\ \A i \in 1 .. n : Seen[i] = IF \E j \in DOMAIN Seen[i - 1] : Seen[i - 1][j] = s[i]
                                       THEN Seen[i - 1] ELSE Append(Seen[i - 1], s[i])
  <2>1. Seen = [k \in 0 .. n |->
                  IF k = 0 THEN <<>>
                  ELSE IF \E j \in DOMAIN Seen[k - 1] : Seen[k - 1][j] = s[k]
                         THEN Seen[k - 1] ELSE Append(Seen[k - 1], s[k])]
    <3> HIDE DEF n
    <3> QED
      BY <1>7, Zenon
  <2> HIDE DEF Seen
  <2>2. 0 \in 0 .. n /\ \A i \in 1 .. n : i \in 0 .. n /\ i # 0
    BY <1>2
  <2> QED
    BY <2>1, <2>2
<1> HIDE DEF Seen, d
<1>9. Seen \in [0 .. n -> Lists(X)]
  <2> DEFINE empty == <<>>
             L == Lists(X)
  <2>1. ASSUME NEW k \in 1 .. n, Seen[k - 1] \in L
        PROVE  Seen[k] = d[<<Seen[k - 1], k>>]
    <3>1. <<Seen[k - 1], k>> \in Lists(X) \X (1 .. n)
      BY <2>1
    <3> QED
      BY <1>8, <3>1 DEF d
  <2>2. empty \in L /\ d \in Bodies(L, n) /\ n \in Nat
    BY <1>2, <1>3, <1>4 DEF Bodies
  <2>3. Seen[0] = empty /\ Seen = [k \in 0 .. n |-> Seen[k]]
    BY <1>8
  <2> HIDE DEF n, empty, L
  <2>4. Follows(L, empty, n, d, Seen)
    BY <2>1, <2>3 DEF Follows
  <2>5. Seen \in Courses(L, empty, n, d)
    BY <2>2, <2>4, LoopFollows
  <2> QED
    BY <2>5 DEF Courses, L
<1>10. Seen \in Seens(X, s)
  BY <1>1, <1>8, <1>9 DEF Seens
<1> QED
  BY <1>10

\* FirstSeen lists what s lists, each element once.
LEMMA FirstSeenLists ==
  ASSUME NEW X, NEW s \in Seq(X)
  PROVE  /\ FirstSeen(s) \in Lists(X)
         /\ ToSet(FirstSeen(s)) = ToSet(s)
<1> DEFINE n == Len(s)
<1>1. PICK Seen : Seen \in Seens(X, s)
  BY FirstSeenCourse
<1>2. n \in Nat /\ s \in [1 .. n -> X] /\ DOMAIN s = 1 .. n
  BY LenProperties
<1>3. Seen \in [0 .. n -> Lists(X)] /\ FirstSeen(s) = Seen[n]
  BY <1>1 DEF Seens
<1>8. /\ Seen[0] = <<>>
      /\ \A i \in 1 .. n : Seen[i] = IF \E j \in DOMAIN Seen[i - 1] : Seen[i - 1][j] = s[i]
                                       THEN Seen[i - 1] ELSE Append(Seen[i - 1], s[i])
  BY <1>1 DEF Seens
<1> DEFINE T == {m \in Nat : m <= n => Seen[m] \in Lists(X) /\ ToSet(Seen[m]) = {s[j] : j \in 1 .. m}}
<1>9. 0 \in T
  BY <1>3, <1>8, EmptySeq DEF ToSet, Lists, IsInjective
<1>10. ASSUME NEW m \in Nat, m \in T
       PROVE  m + 1 \in T
  <2>1. SUFFICES ASSUME m + 1 <= n
                 PROVE  /\ Seen[m + 1] \in Lists(X)
                        /\ ToSet(Seen[m + 1]) = {s[j] : j \in 1 .. m + 1}
    OBVIOUS
  <2> DEFINE q == Seen[m]
  <2>2. q \in Lists(X) /\ ToSet(q) = {s[j] : j \in 1 .. m} /\ s[m + 1] \in X
    BY <1>2, <1>10, <2>1
  <2>3. Seen[m + 1] = IF \E j \in DOMAIN q : q[j] = s[m + 1] THEN q ELSE Append(q, s[m + 1])
    <3>1. m + 1 \in 1 .. n /\ (m + 1) - 1 = m
      BY <2>1
    <3> QED
      BY <1>8, <3>1
  <2>4. {s[j] : j \in 1 .. m + 1} = {s[j] : j \in 1 .. m} \cup {s[m + 1]}
    OBVIOUS
  <2> HIDE DEF q
  <2>5. CASE \E j \in DOMAIN q : q[j] = s[m + 1]
    BY <2>2, <2>3, <2>4, <2>5 DEF ToSet
  <2>6. CASE ~ \E j \in DOMAIN q : q[j] = s[m + 1]
    <3>1. Append(q, s[m + 1]) \in Lists(X)
      BY <2>2, <2>6, ListAppend
    <3>2. q \in Seq(X)
      BY <2>2 DEF Lists
    <3>3. ToSet(Append(q, s[m + 1])) = ToSet(q) \cup {s[m + 1]}
      <4>1. DOMAIN q = 1 .. Len(q) /\ Len(q) \in Nat
        BY <3>2, LenProperties
      <4>2. /\ Append(q, s[m + 1]) \in Seq(X) /\ Len(Append(q, s[m + 1])) = Len(q) + 1
            /\ \A i \in 1 .. Len(q) : Append(q, s[m + 1])[i] = q[i]
            /\ Append(q, s[m + 1])[Len(q) + 1] = s[m + 1]
        BY <2>2, <3>2, AppendProperties
      <4>3. DOMAIN Append(q, s[m + 1]) = 1 .. Len(q) + 1
        BY <4>2, LenProperties
      <4> QED
        BY <4>1, <4>2, <4>3 DEF ToSet
    <3> QED
      BY <2>2, <2>3, <2>4, <2>6, <3>1, <3>3
  <2> QED
    BY <2>5, <2>6
<1>11. \A m \in Nat : m \in T
  <2> HIDE DEF T
  <2> QED
    BY <1>9, <1>10, NatSetInduction
<1>12. Seen[n] \in Lists(X) /\ ToSet(Seen[n]) = {s[j] : j \in 1 .. n}
  <2>1. n \in Nat /\ n <= n
    BY <1>2
  <2> HIDE DEF n
  <2>2. n \in T
    BY <1>11, <2>1
  <2> QED
    BY <2>1, <2>2
<1> QED
  BY <1>2, <1>3, <1>12 DEF ToSet

\* The list l has the first m elements of s, and lists nothing before an element of
\* s that does not occur before it in s.
KeepsOrder(s, l, m) ==
  /\ \A j \in 1 .. Len(l) : \E i \in 1 .. m : s[i] = l[j]
  /\ \A i \in 1 .. m : \E j \in 1 .. Len(l) : s[i] = l[j]
  /\ \A k \in 1 .. m : \A q \in 1 .. Len(l) : \A p \in 1 .. q - 1 :
       l[q] = s[k] => \E i \in 1 .. k - 1 : s[i] = l[p]

\* It still does with one more element.
LEMMA NextSeen ==
  ASSUME NEW X, NEW s \in Seq(X), NEW m \in Nat, m + 1 <= Len(s), NEW l \in Seq(X), KeepsOrder(s, l, m),
         NEW r, r = IF \E j \in DOMAIN l : l[j] = s[m + 1] THEN l ELSE Append(l, s[m + 1])
  PROVE  KeepsOrder(s, r, m + 1)
<1> DEFINE x == s[m + 1]
           c == Len(l)
<1>1. DOMAIN l = 1 .. c /\ c \in Nat /\ x \in X
  <2>1. Len(s) \in Nat
    BY LenProperties
  <2>2. m + 1 \in 1 .. Len(s)
    BY <2>1
  <2> QED
    BY <2>2, LenProperties, ElementOfSeq
<1>2. /\ \A j \in 1 .. c : \E i \in 1 .. m : s[i] = l[j]
      /\ \A i \in 1 .. m : \E j \in 1 .. c : s[i] = l[j]
      /\ \A k \in 1 .. m : \A q \in 1 .. c : \A p \in 1 .. q - 1 :
           l[q] = s[k] => \E i \in 1 .. k - 1 : s[i] = l[p]
  BY DEF KeepsOrder
<1> HIDE DEF c
<1>3. CASE \E j \in 1 .. c : l[j] = x
  <2>1. r = l
    BY <1>1, <1>3
  <2>2. \A j \in 1 .. c : \E i \in 1 .. m + 1 : s[i] = l[j]
    BY <1>2
  <2>3. \A i \in 1 .. m + 1 : \E j \in 1 .. c : s[i] = l[j]
    <3> SUFFICES ASSUME NEW i \in 1 .. m + 1 PROVE \E j \in 1 .. c : s[i] = l[j]
      OBVIOUS
    <3>1. i \in 1 .. m \/ i = m + 1
      OBVIOUS
    <3> QED
      BY <1>2, <1>3, <3>1
  <2>4. ASSUME NEW k \in 1 .. m + 1, NEW q \in 1 .. c, NEW p \in 1 .. q - 1, l[q] = s[k]
        PROVE  \E i \in 1 .. k - 1 : s[i] = l[p]
    <3>1. CASE k \in 1 .. m
      BY <1>2, <2>4, <3>1
    <3>2. CASE k = m + 1
      <4>1. p \in 1 .. c /\ k - 1 = m
        BY <1>1, <3>2
      <4> QED
        BY <1>2, <4>1
    <3> QED
      BY <3>1, <3>2
  <2>5. \A k \in 1 .. m + 1 : \A q \in 1 .. c : \A p \in 1 .. q - 1 :
          l[q] = s[k] => \E i \in 1 .. k - 1 : s[i] = l[p]
    BY <2>4
  <2>6. KeepsOrder(s, l, m + 1)
    BY <2>2, <2>3, <2>5, Zenon DEF KeepsOrder, c
  <2> QED
    BY <2>1, <2>6
<1>4. CASE ~ \E j \in 1 .. c : l[j] = x
  <2>1. r = Append(l, x)
    BY <1>1, <1>4
  <2> HIDE DEF x
  <2>2. Len(r) = c + 1 /\ r[c + 1] = x /\ \A j \in 1 .. c : r[j] = l[j]
    BY <1>1, <2>1, AppendProperties DEF c
  <2>3. ASSUME NEW j \in 1 .. c + 1 PROVE \E i \in 1 .. m + 1 : s[i] = r[j]
    <3>1. CASE j \in 1 .. c
      <4>1. PICK i \in 1 .. m : s[i] = l[j]
        BY <1>2, <3>1
      <4> QED
        BY <2>2, <3>1, <4>1
    <3>2. CASE j = c + 1
      <4>1. m + 1 \in 1 .. m + 1
        OBVIOUS
      <4> QED
        BY <2>2, <3>2, <4>1 DEF x
    <3> QED
      BY <1>1, <3>1, <3>2
  <2>4. ASSUME NEW i \in 1 .. m + 1 PROVE \E j \in 1 .. c + 1 : s[i] = r[j]
    <3>1. CASE i \in 1 .. m
      <4>1. PICK j \in 1 .. c : s[i] = l[j]
        BY <1>2, <3>1
      <4>2. j \in 1 .. c + 1
        BY <1>1
      <4> QED
        BY <2>2, <4>1, <4>2
    <3>2. CASE i = m + 1
      <4>1. c + 1 \in 1 .. c + 1
        BY <1>1
      <4> QED
        BY <2>2, <3>2, <4>1 DEF x
    <3>3. i \in 1 .. m \/ i = m + 1
      OBVIOUS
    <3> QED
      BY <3>1, <3>2, <3>3
  <2>5. ASSUME NEW k \in 1 .. m + 1, NEW q \in 1 .. c + 1, NEW p \in 1 .. q - 1, r[q] = s[k]
        PROVE  \E i \in 1 .. k - 1 : s[i] = r[p]
    <3>1. p \in 1 .. c /\ r[p] = l[p]
      <4>1. p \in 1 .. c
        BY <1>1
      <4> QED
        BY <2>2, <4>1
    <3>2. CASE q \in 1 .. c
      <4>1. l[q] = s[k]
        BY <2>2, <2>5, <3>2
      <4>2. k # m + 1
        BY <1>4, <3>2, <4>1 DEF x
      <4>3. k \in 1 .. m
        BY <4>2
      <4>4. PICK i \in 1 .. k - 1 : s[i] = l[p]
        BY <1>2, <3>2, <4>1, <4>3
      <4> QED
        BY <3>1, <4>4
    <3>3. CASE q = c + 1
      <4>1. k \notin 1 .. m
        BY <1>2, <1>4, <2>2, <2>5, <3>3
      <4>2. k - 1 = m
        BY <4>1
      <4>3. PICK i \in 1 .. m : s[i] = l[p]
        BY <1>2, <3>1
      <4> QED
        BY <3>1, <4>2, <4>3
    <3> QED
      BY <1>1, <3>2, <3>3
  <2>6. \A k \in 1 .. m + 1 : \A q \in 1 .. c + 1 : \A p \in 1 .. q - 1 :
          r[q] = s[k] => \E i \in 1 .. k - 1 : s[i] = r[p]
    BY <2>5
  <2> DEFINE b == c + 1
  <2>7. /\ \A j \in 1 .. b : \E i \in 1 .. m + 1 : s[i] = r[j]
        /\ \A i \in 1 .. m + 1 : \E j \in 1 .. b : s[i] = r[j]
        /\ \A k \in 1 .. m + 1 : \A q \in 1 .. b : \A p \in 1 .. q - 1 :
             r[q] = s[k] => \E i \in 1 .. k - 1 : s[i] = r[p]
    BY <2>3, <2>4, <2>6
  <2>8. b = Len(r)
    BY <2>2
  <2> HIDE DEF b
  <2> QED
    BY <2>7, <2>8, Zenon DEF KeepsOrder
<1> QED
  BY <1>3, <1>4

\* FirstSeen keeps the order: what it lists before an element of s occurs before
\* it in s.
LEMMA FirstSeenOrder ==
  ASSUME NEW X, NEW s \in Seq(X)
  PROVE  KeepsOrder(s, FirstSeen(s), Len(s))
<1> DEFINE n == Len(s)
<1>1. PICK Seen : Seen \in Seens(X, s)
  BY FirstSeenCourse
<1>2. n \in Nat
  BY LenProperties
<1>3. Seen \in [0 .. n -> Lists(X)] /\ FirstSeen(s) = Seen[n]
  BY <1>1 DEF Seens
<1>4. /\ Seen[0] = <<>>
      /\ \A i \in 1 .. n : Seen[i] = IF \E j \in DOMAIN Seen[i - 1] : Seen[i - 1][j] = s[i]
                                       THEN Seen[i - 1] ELSE Append(Seen[i - 1], s[i])
  BY <1>1 DEF Seens
<1> DEFINE T == {m \in Nat : m <= n => KeepsOrder(s, Seen[m], m)}
<1>5. 0 \in T
  <2>1. 1 .. 0 = {} /\ Len(<<>>) = 0
    BY EmptySeq
  <2> QED
    BY <1>4, <2>1 DEF KeepsOrder
<1>6. ASSUME NEW m \in Nat, m \in T
      PROVE  m + 1 \in T
  <2> SUFFICES ASSUME m + 1 <= n PROVE KeepsOrder(s, Seen[m + 1], m + 1)
    OBVIOUS
  <2>1. m \in 0 .. n /\ m + 1 \in 1 .. n /\ (m + 1) - 1 = m
    BY <1>2
  <2>2. Seen[m] \in Seq(X) /\ KeepsOrder(s, Seen[m], m)
    BY <1>3, <1>6, <2>1 DEF Lists
  <2>3. Seen[m + 1] = IF \E j \in DOMAIN Seen[m] : Seen[m][j] = s[m + 1]
                        THEN Seen[m] ELSE Append(Seen[m], s[m + 1])
    BY <1>4, <2>1
  <2> DEFINE l == Seen[m]
             r == Seen[m + 1]
  <2> HIDE DEF l, r
  <2> QED
    BY <2>2, <2>3, NextSeen DEF l, r
<1>7. n \in T
  <2> HIDE DEF T
  <2> QED
    BY <1>2, <1>5, <1>6, NatSetInduction
<1> QED
  BY <1>2, <1>3, <1>7

\* A list without repetitions comes out of FirstSeen first, whatever follows it.
LEMMA FirstSeenPrefix ==
  ASSUME NEW X, NEW o \in Lists(X), NEW t \in Seq(X)
  PROVE  LET all == FirstSeen(o \o t)
         IN  Len(all) >= Len(o) /\ \A i \in 1 .. Len(o) : all[i] = o[i]
<1> DEFINE s == o \o t
           n == Len(s)
           m == Len(o)
<1>1. o \in Seq(X) /\ IsInjective(o) /\ m \in Nat /\ DOMAIN o = 1 .. m
  BY LenProperties DEF Lists
<1>2. s \in Seq(X) /\ n = m + Len(t) /\ Len(t) \in Nat /\ \A i \in 1 .. m : s[i] = o[i]
  BY <1>1, ConcatProperties, LenProperties
<1> HIDE DEF s, m
<1>3. PICK Seen : Seen \in Seens(X, s)
  BY <1>2, FirstSeenCourse
<1>4. n \in Nat /\ m <= n /\ Seen \in [0 .. n -> Lists(X)] /\ FirstSeen(s) = Seen[n]
  BY <1>1, <1>2, <1>3 DEF Seens
<1>5. /\ Seen[0] = <<>>
      /\ \A i \in 1 .. n : Seen[i] = IF \E j \in DOMAIN Seen[i - 1] : Seen[i - 1][j] = s[i]
                                       THEN Seen[i - 1] ELSE Append(Seen[i - 1], s[i])
  BY <1>3 DEF Seens
<1>6. ASSUME NEW k \in 0 .. n
      PROVE  Seen[k] \in Seq(X) /\ Len(Seen[k]) \in Nat /\ DOMAIN Seen[k] = 1 .. Len(Seen[k])
  BY <1>4, LenProperties DEF Lists
<1> HIDE DEF n
<1> DEFINE Same(k) == Len(Seen[k]) = k /\ \A i \in 1 .. k : Seen[k][i] = s[i]
           T == {k \in Nat : k <= m => Same(k)}
<1>7. 0 \in T
  BY <1>5
<1>8. ASSUME NEW k \in Nat, k \in T
      PROVE  k + 1 \in T
  <2> SUFFICES ASSUME k + 1 <= m PROVE Same(k + 1)
    OBVIOUS
  <2>1. k + 1 \in 1 .. n /\ (k + 1) - 1 = k /\ k \in 0 .. n /\ k + 1 \in 1 .. m /\ k + 1 \in 0 .. n
    BY <1>1, <1>4
  <2>2. Same(k)
    BY <1>1, <1>8
  <2>3. ASSUME NEW j \in DOMAIN Seen[k] PROVE Seen[k][j] # s[k + 1]
    <3>1. j \in 1 .. k /\ j \in 1 .. m /\ j # k + 1
      BY <1>1, <1>6, <2>1, <2>2
    <3>2. o[j] # o[k + 1]
      BY <1>1, <2>1, <3>1 DEF IsInjective
    <3>3. Seen[k][j] = s[j] /\ s[j] = o[j] /\ s[k + 1] = o[k + 1]
      BY <1>2, <2>1, <2>2, <3>1
    <3> QED
      BY <3>2, <3>3
  <2>4. Seen[k + 1] = Append(Seen[k], s[k + 1])
    BY <1>5, <2>1, <2>3
  <2>5. s[k + 1] \in X /\ Seen[k] \in Seq(X)
    <3>1. s[k + 1] = o[k + 1] /\ o[k + 1] \in X
      BY <1>1, <1>2, <2>1
    <3> QED
      BY <1>6, <2>1, <3>1
  <2>6. /\ Len(Seen[k + 1]) = k + 1 /\ Seen[k + 1][k + 1] = s[k + 1]
        /\ \A i \in 1 .. k : Seen[k + 1][i] = Seen[k][i]
    BY <2>2, <2>4, <2>5, AppendProperties
  <2> QED
    BY <2>2, <2>6
<1>9. Same(m)
  <2>1. \A k \in Nat : k \in T
    <3> HIDE DEF T
    <3> QED
      BY <1>7, <1>8, NatSetInduction
  <2> QED
    BY <1>1, <2>1
<1> DEFINE Kept(k) == Len(Seen[k]) >= m /\ \A i \in 1 .. m : Seen[k][i] = s[i]
           U == {e \in Nat : m + e <= n => Kept(m + e)}
<1>10. 0 \in U
  BY <1>1, <1>9
<1>11. ASSUME NEW e \in Nat, e \in U
       PROVE  e + 1 \in U
  <2> DEFINE k == m + e
  <2>1. k \in Nat /\ m + (e + 1) = k + 1
    BY <1>1
  <2> SUFFICES ASSUME k + 1 <= n PROVE Kept(k + 1)
    BY <2>1
  <2>2. k + 1 \in 1 .. n /\ (k + 1) - 1 = k /\ k \in 0 .. n /\ k <= n
    BY <1>4, <2>1
  <2>3. Kept(k)
    BY <1>11, <2>2
  <2> HIDE DEF k
  <2>4. Seen[k + 1] = Seen[k] \/ Seen[k + 1] = Append(Seen[k], s[k + 1])
    BY <1>5, <2>2
  <2>5. CASE Seen[k + 1] = Append(Seen[k], s[k + 1])
    <3>1. s[k + 1] \in X /\ Seen[k] \in Seq(X)
      <4>1. k + 1 \in 1 .. Len(s)
        BY <2>2 DEF n
      <4> QED
        BY <1>2, <1>6, <2>2, <4>1, ElementOfSeq
    <3>2. /\ Len(Seen[k + 1]) = Len(Seen[k]) + 1 /\ Len(Seen[k]) \in Nat
          /\ \A i \in 1 .. Len(Seen[k]) : Seen[k + 1][i] = Seen[k][i]
      BY <1>6, <2>2, <2>5, <3>1, AppendProperties
    <3>3. \A i \in 1 .. m : i \in 1 .. Len(Seen[k])
      BY <1>1, <2>3, <3>2
    <3> QED
      BY <1>1, <2>3, <3>2, <3>3
  <2> QED
    BY <2>3, <2>4, <2>5
<1>12. Kept(n)
  <2>1. \A e \in Nat : e \in U
    <3> HIDE DEF U
    <3> QED
      BY <1>10, <1>11, NatSetInduction
  <2>2. n - m \in Nat /\ m + (n - m) = n
    BY <1>1, <1>4
  <2>3. n - m \in U
    BY <2>1, <2>2
  <2> QED
    BY <1>4, <2>2, <2>3
<1> QED
  BY <1>2, <1>4, <1>12 DEF s, m

\* The elements of two sequences put together.
LEMMA ConcatSet ==
  ASSUME NEW X, NEW s \in Seq(X), NEW t \in Seq(X)
  PROVE  ToSet(s \o t) = ToSet(s) \cup ToSet(t)
<1> DEFINE c == s \o t
           m == Len(s)
           n == Len(t)
<1>1. /\ m \in Nat /\ n \in Nat /\ DOMAIN s = 1 .. m /\ DOMAIN t = 1 .. n
      /\ c \in Seq(X) /\ Len(c) = m + n
  BY LenProperties, ConcatProperties
<1>2. \A k \in 1 .. m + n : c[k] = IF k <= m THEN s[k] ELSE t[k - m]
  BY ConcatProperties
<1>3. DOMAIN c = 1 .. m + n
  BY <1>1, LenProperties
<1> HIDE DEF c, m, n
<1>4. ASSUME NEW x \in ToSet(c) PROVE x \in ToSet(s) \cup ToSet(t)
  <2>1. PICK k \in 1 .. m + n : x = c[k]
    BY <1>3 DEF ToSet
  <2>2. CASE k <= m
    <3>1. k \in 1 .. m
      BY <1>1, <2>1, <2>2
    <3>2. x = s[k]
      BY <1>2, <2>1, <2>2
    <3> QED
      BY <1>1, <3>1, <3>2 DEF ToSet
  <2>3. CASE ~ k <= m
    <3>1. k - m \in 1 .. n
      BY <1>1, <2>3
    <3> QED
      BY <1>1, <1>2, <2>1, <2>3, <3>1 DEF ToSet
  <2> QED
    BY <2>2, <2>3
<1>5. ASSUME NEW k \in 1 .. m PROVE s[k] \in ToSet(c)
  <2>1. k \in 1 .. m + n /\ k <= m
    BY <1>1
  <2> QED
    BY <1>2, <1>3, <2>1 DEF ToSet
<1>6. ASSUME NEW k \in 1 .. n PROVE t[k] \in ToSet(c)
  <2>1. m + k \in 1 .. m + n /\ ~ m + k <= m /\ (m + k) - m = k
    BY <1>1
  <2>2. c[m + k] = t[k]
    BY <1>2, <2>1
  <2> QED
    BY <1>3, <2>1, <2>2 DEF ToSet
<1>7. ToSet(s) \cup ToSet(t) \subseteq ToSet(c)
  BY <1>1, <1>5, <1>6 DEF ToSet
<1>8. ToSet(c) \subseteq ToSet(s) \cup ToSet(t)
  BY <1>4
<1> QED
  BY <1>7, <1>8 DEF c

\* What FlattenSeq goes through: every sequence is put behind those before it.
Flattenings(X, seqs) ==
  {f \in [1 .. Len(seqs) -> Seq(X)] :
     /\ f[1] = seqs[1]
     /\ \A i \in 2 .. Len(seqs) : f[i] = f[i - 1] \o seqs[i]
     /\ FlattenSeq(seqs) = f[Len(seqs)]}

\* FlattenSeq is a loop over the sequences it is given.
LEMMA FlattenSeqCourse ==
  ASSUME NEW X, NEW seqs \in Seq(Seq(X)), seqs # <<>>
  PROVE  Flattenings(X, seqs) # {}
<1> DEFINE n == Len(seqs)
           S == Seq(X)
           empty == <<>>
           d == [t \in S \X (1 .. n) |-> t[1] \o seqs[t[2]]]
           flatten == CHOOSE F : F = [i \in 1 .. n |->
                        IF i = 1 THEN seqs[i] ELSE F[i - 1] \o seqs[i]]
<1>1. FlattenSeq(seqs) = IF n = 0 THEN seqs ELSE flatten[n]
  BY DEF FlattenSeq
<1>2. n \in Nat /\ seqs \in [1 .. n -> Seq(X)]
  BY LenProperties
<1>3. n # 0
  BY EmptySeq
<1>4. empty \in S /\ d \in Bodies(S, n)
  <2>1. \A l \in Seq(X), i \in 1 .. n : l \o seqs[i] \in Seq(X)
    BY <1>2, ConcatProperties
  <2> QED
    BY <2>1, EmptySeq DEF Bodies
<1> HIDE DEF n, S
<1>5. PICK h : h \in Courses(S, empty, n, d)
  <2> HIDE DEF empty, d
  <2> QED
    BY <1>2, <1>4, LoopExists
<1>6. h \in [0 .. n -> S] /\ h[0] = empty /\ \A i \in 1 .. n : h[i] = d[<<h[i - 1], i>>]
  BY <1>5 DEF Courses
<1>7. ASSUME NEW i \in 1 .. n
      PROVE  h[i] = h[i - 1] \o seqs[i]
  <2>1. <<h[i - 1], i>> \in S \X (1 .. n)
    BY <1>2, <1>6
  <2> QED
    BY <1>6, <2>1
<1>8. h[1] = seqs[1]
  <2>1. 1 \in 1 .. n /\ seqs[1] \in Seq(X)
    BY <1>2, <1>3
  <2>2. h[1] = h[1 - 1] \o seqs[1]
    BY <1>7, <2>1
  <2>3. 1 - 1 = 0
    OBVIOUS
  <2>4. h[1] = <<>> \o seqs[1]
    BY <1>6, <2>2, <2>3
  <2> QED
    BY <2>1, <2>4, ConcatEmptySeq
<1> DEFINE f == [i \in 1 .. n |-> h[i]]
<1>9. f = [i \in 1 .. n |-> IF i = 1 THEN seqs[i] ELSE f[i - 1] \o seqs[i]]
  <2>1. \A i \in 1 .. n : i # 1 => i - 1 \in 1 .. n
    BY <1>2
  <2>2. \A i \in 1 .. n : f[i] = IF i = 1 THEN seqs[i] ELSE f[i - 1] \o seqs[i]
    BY <1>7, <1>8, <2>1
  <2> QED
    BY <2>2
<1>10. flatten = [i \in 1 .. n |-> IF i = 1 THEN seqs[i] ELSE flatten[i - 1] \o seqs[i]]
  <2> HIDE DEF f
  <2> QED
    BY <1>9, Zenon
<1> HIDE DEF flatten
<1> DEFINE T == {m \in Nat : m + 1 <= n => flatten[m + 1] \in Seq(X)}
<1>11. 0 \in T
  BY <1>2, <1>3, <1>10
<1>12. ASSUME NEW m \in Nat, m \in T
      PROVE  m + 1 \in T
  <2>1. SUFFICES ASSUME (m + 1) + 1 <= n
                 PROVE  flatten[(m + 1) + 1] \in Seq(X)
    OBVIOUS
  <2>2. flatten[m + 1] \in Seq(X) /\ seqs[(m + 1) + 1] \in Seq(X)
    BY <1>2, <1>12, <2>1
  <2>3. flatten[(m + 1) + 1] = flatten[m + 1] \o seqs[(m + 1) + 1]
    <3>1. (m + 1) + 1 \in 1 .. n /\ (m + 1) + 1 # 1 /\ ((m + 1) + 1) - 1 = m + 1
      BY <1>2, <2>1
    <3> QED
      BY <1>10, <3>1
  <2> QED
    BY <2>2, <2>3, ConcatProperties
<1>13. \A m \in Nat : m \in T
  <2> HIDE DEF T
  <2> QED
    BY <1>11, <1>12, NatSetInduction
<1>14. \A i \in 1 .. n : flatten[i] \in Seq(X)
  <2> SUFFICES ASSUME NEW i \in 1 .. n PROVE flatten[i] \in Seq(X)
    OBVIOUS
  <2>1. i - 1 \in Nat /\ (i - 1) + 1 = i /\ i <= n
    BY <1>2
  <2> QED
    BY <1>13, <2>1
<1>15. flatten[1] = seqs[1] /\ \A i \in 2 .. n : flatten[i] = flatten[i - 1] \o seqs[i]
  <2>1. 1 \in 1 .. n /\ \A i \in 2 .. n : i \in 1 .. n /\ i # 1
    BY <1>2, <1>3
  <2> QED
    BY <1>10, <2>1
<1>16. flatten \in [1 .. n -> Seq(X)]
  BY <1>10, <1>14
<1>17. flatten \in Flattenings(X, seqs)
  BY <1>1, <1>3, <1>15, <1>16 DEF Flattenings, n
<1> QED
  BY <1>17

\* FlattenSeq of sequences over X is a sequence over X with their elements, and no
\* other.
LEMMA FlattenSeqType ==
  ASSUME NEW X, NEW seqs \in Seq(Seq(X))
  PROVE  /\ FlattenSeq(seqs) \in Seq(X)
         /\ ToSet(FlattenSeq(seqs)) = UNION {ToSet(seqs[k]) : k \in 1 .. Len(seqs)}
<1> DEFINE n == Len(seqs)
<1>1. n \in Nat /\ seqs \in [1 .. n -> Seq(X)]
  BY LenProperties
<1>2. CASE seqs = <<>>
  <2>1. FlattenSeq(seqs) = <<>> /\ n = 0
    BY <1>2, EmptySeq DEF FlattenSeq
  <2>2. ToSet(<<>>) = {} /\ 1 .. 0 = {}
    BY DEF ToSet
  <2> QED
    BY <2>1, <2>2, EmptySeq
<1>3. CASE seqs # <<>>
  <2>1. PICK f : f \in Flattenings(X, seqs)
    BY <1>3, FlattenSeqCourse
  <2>2. /\ f \in [1 .. n -> Seq(X)] /\ f[1] = seqs[1]
        /\ \A i \in 2 .. n : f[i] = f[i - 1] \o seqs[i]
        /\ FlattenSeq(seqs) = f[n]
    BY <2>1 DEF Flattenings
  <2>3. n >= 1
    BY <1>1, <1>3, EmptySeq
  <2> HIDE DEF n
  <2> DEFINE all(m) == UNION {ToSet(seqs[k]) : k \in 1 .. m}
             T == {m \in Nat : m + 1 <= n => ToSet(f[m + 1]) = all(m + 1)}
  <2>4. 0 \in T
    <3>1. 0 + 1 = 1 /\ 1 .. 1 = {1}
      OBVIOUS
    <3>2. all(1) = ToSet(seqs[1])
      BY <3>1
    <3> QED
      BY <2>2, <3>1, <3>2
  <2>5. ASSUME NEW m \in Nat, m \in T
        PROVE  m + 1 \in T
    <3> SUFFICES ASSUME (m + 1) + 1 <= n
                 PROVE  ToSet(f[(m + 1) + 1]) = all((m + 1) + 1)
      OBVIOUS
    <3> DEFINE i == (m + 1) + 1
    <3>1. i \in 2 .. n /\ i - 1 = m + 1 /\ m + 1 \in 1 .. n /\ i \in 1 .. n
      BY <1>1
    <3>2. f[i] = f[m + 1] \o seqs[i] /\ f[m + 1] \in Seq(X) /\ seqs[i] \in Seq(X)
      BY <1>1, <2>2, <3>1
    <3>3. all(i) = all(m + 1) \cup ToSet(seqs[i])
      <4>1. 1 .. i = (1 .. m + 1) \cup {i}
        OBVIOUS
      <4> HIDE DEF i
      <4> QED
        BY <4>1
    <3>4. ToSet(f[m + 1]) = all(m + 1)
      BY <2>5, <3>1
    <3> HIDE DEF all, i
    <3>5. ToSet(f[i]) = ToSet(f[m + 1]) \cup ToSet(seqs[i])
      BY <3>2, ConcatSet
    <3> QED
      BY <3>3, <3>4, <3>5 DEF i
  <2>6. \A m \in Nat : m \in T
    <3> HIDE DEF T
    <3> QED
      BY <2>4, <2>5, NatSetInduction
  <2>7. n - 1 \in Nat /\ (n - 1) + 1 = n /\ n <= n
    BY <1>1, <2>3
  <2>8. ToSet(f[n]) = all(n)
    <3> HIDE DEF all
    <3> QED
      BY <2>6, <2>7
  <2>9. f[n] \in Seq(X)
    BY <1>1, <2>2, <2>3
  <2> QED
    BY <2>2, <2>8, <2>9 DEF n
<1> QED
  BY <1>2, <1>3

\* What stands before element j of sequence e.
AheadOf(seqs, e, j) == {seqs[e][a] : a \in 1 .. j - 1} \cup UNION {ToSet(seqs[d]) : d \in 1 .. e - 1}

\* That element has a place in g behind nothing else.
InPlace(seqs, g, e, j) ==
  \E k \in 1 .. Len(g) : g[k] = seqs[e][j] /\ \A i \in 1 .. k - 1 : g[i] \in AheadOf(seqs, e, j)

\* More elements behind g take no place away.
LEMMA InPlaceStays ==
  ASSUME NEW X, NEW g \in Seq(X), NEW t \in Seq(X), NEW seqs, NEW e, NEW j, InPlace(seqs, g, e, j)
  PROVE  InPlace(seqs, g \o t, e, j)
<1>1. PICK k \in 1 .. Len(g) : g[k] = seqs[e][j] /\ \A i \in 1 .. k - 1 : g[i] \in AheadOf(seqs, e, j)
  BY DEF InPlace
<1>2. Len(g) \in Nat /\ Len(t) \in Nat
  BY LenProperties
<1>3. Len(g \o t) = Len(g) + Len(t) /\ \A i \in 1 .. Len(g) : (g \o t)[i] = g[i]
  BY <1>2, ConcatProperties
<1>4. k \in 1 .. Len(g \o t) /\ \A i \in 1 .. k - 1 : i \in 1 .. Len(g)
  BY <1>2, <1>3
<1> QED
  BY <1>1, <1>3, <1>4 DEF InPlace

\* The elements of the next sequence get theirs.
LEMMA InPlaceNext ==
  ASSUME NEW X, NEW g \in Seq(X), NEW seqs, NEW e, seqs[e] \in Seq(X), NEW j \in 1 .. Len(seqs[e]),
         ToSet(g) = UNION {ToSet(seqs[d]) : d \in 1 .. e - 1}
  PROVE  InPlace(seqs, g \o seqs[e], e, j)
<1> DEFINE t == seqs[e]
           l == Len(g)
           all == g \o t
           k == l + j
<1>1. l \in Nat /\ Len(t) \in Nat /\ DOMAIN g = 1 .. l
  BY LenProperties
<1>2. Len(all) = l + Len(t) /\ \A i \in 1 .. l + Len(t) : all[i] = IF i <= l THEN g[i] ELSE t[i - l]
  BY ConcatProperties
<1>3. j \in 1 .. Len(t)
  OBVIOUS
<1> HIDE DEF t, all, l
<1>4. k \in 1 .. Len(all) /\ all[k] = t[j]
  <2>1. k \in 1 .. l + Len(t) /\ ~ k <= l /\ k - l = j
    BY <1>1, <1>3
  <2> QED
    BY <1>2, <2>1
<1>5. ASSUME NEW i \in 1 .. k - 1 PROVE all[i] \in AheadOf(seqs, e, j)
  <2>1. i \in 1 .. l + Len(t)
    BY <1>1, <1>3
  <2>2. CASE i <= l
    <3>1. all[i] = g[i] /\ i \in DOMAIN g
      BY <1>1, <1>2, <2>1, <2>2
    <3>2. all[i] \in ToSet(g)
      BY <3>1 DEF ToSet
    <3> QED
      BY <3>2 DEF AheadOf
  <2>3. CASE ~ i <= l
    <3>1. all[i] = t[i - l] /\ i - l \in 1 .. j - 1
      BY <1>1, <1>2, <1>3, <2>1, <2>3
    <3> QED
      BY <3>1 DEF AheadOf, t
  <2> QED
    BY <2>2, <2>3
<1> QED
  BY <1>4, <1>5 DEF InPlace, all, t

\* FlattenSeq keeps the order: an element of one of the sequences has a place
\* behind nothing but what is before it in its sequence or in an earlier one.
LEMMA FlattenSeqOrder ==
  ASSUME NEW X, NEW seqs \in Seq(Seq(X)), NEW e \in 1 .. Len(seqs), NEW j \in 1 .. Len(seqs[e])
  PROVE  InPlace(seqs, FlattenSeq(seqs), e, j)
<1> DEFINE n == Len(seqs)
           All(m) == UNION {ToSet(seqs[d]) : d \in 1 .. m}
<1>1. n \in Nat /\ seqs \in [1 .. n -> Seq(X)] /\ n >= 1
  BY LenProperties
<1>2. PICK f : f \in Flattenings(X, seqs)
  BY <1>1, EmptySeq, FlattenSeqCourse
<1>3. /\ f \in [1 .. n -> Seq(X)] /\ f[1] = seqs[1]
      /\ \A i \in 2 .. n : f[i] = f[i - 1] \o seqs[i]
      /\ FlattenSeq(seqs) = f[n]
  BY <1>2 DEF Flattenings
<1> HIDE DEF n
<1> DEFINE Placed(m) == \A c \in 1 .. m : \A i \in 1 .. Len(seqs[c]) : InPlace(seqs, f[m], c, i)
           T == {m \in Nat : m + 1 <= n => ToSet(f[m + 1]) = All(m + 1) /\ Placed(m + 1)}
<1>4. 0 \in T
  <2>1. 0 + 1 = 1 /\ 1 .. 1 = {1} /\ 1 .. 1 - 1 = {} /\ seqs[1] \in Seq(X)
    BY <1>1
  <2>2. All(1) = ToSet(seqs[1])
    BY <2>1
  <2>3. ASSUME NEW i \in 1 .. Len(seqs[1]) PROVE InPlace(seqs, f[1], 1, i)
    <3> DEFINE g == <<>>
    <3>1. g \in Seq(X) /\ ToSet(g) = UNION {ToSet(seqs[d]) : d \in 1 .. 1 - 1} /\ g \o seqs[1] = seqs[1]
      BY <2>1, EmptySeq, ConcatEmptySeq DEF ToSet
    <3> HIDE DEF g
    <3>2. InPlace(seqs, g \o seqs[1], 1, i)
      BY <2>1, <3>1, InPlaceNext
    <3> QED
      BY <1>3, <3>1, <3>2
  <2>4. Placed(1)
    BY <2>1, <2>3
  <2> HIDE DEF Placed, All
  <2> QED
    BY <1>3, <2>1, <2>2, <2>4
<1>5. ASSUME NEW m \in Nat, m \in T
      PROVE  m + 1 \in T
  <2> DEFINE b == m + 1
             a == b + 1
  <2> SUFFICES ASSUME a <= n PROVE ToSet(f[a]) = All(a) /\ Placed(a)
    OBVIOUS
  <2>1. a \in 2 .. n /\ a - 1 = b /\ b \in 1 .. n /\ a \in 1 .. n /\ 1 .. a = (1 .. b) \cup {a}
    BY <1>1
  <2>2. f[a] = f[b] \o seqs[a] /\ f[b] \in Seq(X) /\ seqs[a] \in Seq(X)
    BY <1>1, <1>3, <2>1
  <2>3. ToSet(f[b]) = All(b) /\ Placed(b)
    <3> HIDE DEF Placed, All
    <3> QED
      BY <1>5, <2>1
  <2> HIDE DEF a, b
  <2>4. ToSet(f[a]) = All(a)
    <3>1. ToSet(f[a]) = ToSet(f[b]) \cup ToSet(seqs[a])
      BY <2>2, ConcatSet
    <3> QED
      BY <2>1, <2>3, <3>1
  <2>5. ASSUME NEW c \in 1 .. a, NEW i \in 1 .. Len(seqs[c]) PROVE InPlace(seqs, f[a], c, i)
    <3>1. CASE c \in 1 .. b
      <4>1. InPlace(seqs, f[b], c, i)
        BY <2>3, <3>1
      <4>2. InPlace(seqs, f[b] \o seqs[a], c, i)
        BY <2>2, <4>1, InPlaceStays
      <4> QED
        BY <2>2, <4>2
    <3>2. CASE c = a
      <4>1. ToSet(f[b]) = UNION {ToSet(seqs[d]) : d \in 1 .. a - 1}
        BY <2>1, <2>3
      <4>2. InPlace(seqs, f[b] \o seqs[a], a, i)
        BY <2>2, <3>2, <4>1, InPlaceNext
      <4> QED
        BY <2>2, <3>2, <4>2
    <3> QED
      BY <2>1, <3>1, <3>2
  <2> QED
    BY <2>4, <2>5
<1>6. \A m \in Nat : m \in T
  <2> HIDE DEF T
  <2> QED
    BY <1>4, <1>5, NatSetInduction
<1>7. n - 1 \in Nat /\ (n - 1) + 1 = n /\ n <= n
  BY <1>1
<1>8. Placed(n)
  <2> HIDE DEF Placed, All
  <2> QED
    BY <1>6, <1>7
<1> QED
  BY <1>3, <1>8 DEF n

\* Reverse of a sequence over X is a sequence over X with the same elements, as
\* often.
LEMMA ReverseType ==
  ASSUME NEW X, NEW s \in Seq(X)
  PROVE  /\ Reverse(s) \in Seq(X)
         /\ ToSet(Reverse(s)) = ToSet(s)
         /\ IsInjective(s) => IsInjective(Reverse(s))
<1> DEFINE n == Len(s)
           r == Reverse(s)
<1>1. n \in Nat /\ s \in [1 .. n -> X] /\ DOMAIN s = 1 .. n
  BY LenProperties
<1>2. r = [i \in 1 .. n |-> s[(n - i) + 1]]
  BY DEF Reverse
<1> HIDE DEF n, r
<1>3. \A i \in 1 .. n : (n - i) + 1 \in 1 .. n /\ (n - ((n - i) + 1)) + 1 = i
  BY <1>1
<1>4. r \in [1 .. n -> X]
  BY <1>1, <1>2, <1>3
<1>5. r \in Seq(X)
  BY <1>1, <1>4, SeqDef
<1>6. ToSet(r) = ToSet(s)
  <2>1. \A i \in 1 .. n : r[i] \in ToSet(s)
    BY <1>1, <1>2, <1>3 DEF ToSet
  <2>2. \A i \in 1 .. n : s[i] \in ToSet(r)
    <3> SUFFICES ASSUME NEW i \in 1 .. n PROVE s[i] \in ToSet(r)
      OBVIOUS
    <3> DEFINE j == (n - i) + 1
    <3>1. j \in 1 .. n /\ (n - j) + 1 = i
      BY <1>3
    <3> HIDE DEF j
    <3>2. r[j] = s[i] /\ j \in DOMAIN r
      BY <1>2, <3>1
    <3> QED
      BY <3>2 DEF ToSet
  <2> QED
    BY <1>1, <1>4, <2>1, <2>2 DEF ToSet
<1>7. ASSUME IsInjective(s) PROVE IsInjective(r)
  <2>1. ASSUME NEW a \in 1 .. n, NEW c \in 1 .. n, r[a] = r[c]
        PROVE  a = c
    <3>1. (n - a) + 1 = (n - c) + 1
      BY <1>1, <1>2, <1>3, <1>7, <2>1 DEF IsInjective
    <3> QED
      BY <1>1, <3>1
  <2> QED
    BY <1>4, <2>1 DEF IsInjective
<1> QED
  BY <1>5, <1>6, <1>7 DEF r

\* A list without repetitions has as many elements as entries.
LEMMA ListCardinality ==
  ASSUME NEW X, NEW s \in Lists(X)
  PROVE  IsFiniteSet(ToSet(s)) /\ Cardinality(ToSet(s)) = Len(s)
<1> DEFINE l == Len(s)
           S == ToSet(s)
<1>1. l \in Nat /\ DOMAIN s = 1 .. l /\ s \in [1 .. l -> X]
  BY LenProperties DEF Lists
<1>2. s \in [1 .. l -> S] /\ \A x \in S : \E i \in 1 .. l : s[i] = x
  BY <1>1 DEF ToSet
<1>3. \A a, b \in 1 .. l : s[a] = s[b] => a = b
  BY <1>1 DEF Lists, IsInjective
<1> HIDE DEF l, S
<1>4. s \in Bijection(1 .. l, S)
  BY <1>2, <1>3 DEF Bijection, Injection, Surjection, IsInjective
<1>5. ExistsBijection(1 .. l, S)
  BY <1>4 DEF ExistsBijection
<1>6. Cardinality(S) = l
  BY <1>1, <1>5, FS_CountingElements
<1>7. IsFiniteSet(S)
  <2>1. IsFiniteSet(1 .. l)
    BY <1>1, FS_Interval
  <2> QED
    BY <1>5, <2>1, FS_Bijection
<1> QED
  BY <1>6, <1>7 DEF l, S

-----------------------------------------------------------------------------
(***************************************************************************)
(* Recursion along a rank.                                                 *)
(***************************************************************************)

\* A set that has an element of D as soon as it has all those of smaller rank has
\* all of D.
LEMMA RankInduction ==
  ASSUME NEW D, NEW n \in Nat, NEW r \in [D -> 1 .. n], NEW P,
         \A x \in D : (\A y \in D : r[y] < r[x] => y \in P) => x \in P
  PROVE  \A x \in D : x \in P
<1> DEFINE T == {m \in Nat : \A x \in D : r[x] <= m => x \in P}
<1>0. \A x \in D : r[x] \in Nat /\ 1 <= r[x] /\ r[x] <= n
  OBVIOUS
<1>1. 0 \in T
  BY <1>0
<1>2. ASSUME NEW m \in Nat, m \in T
      PROVE  m + 1 \in T
  <2> SUFFICES ASSUME NEW x \in D, r[x] <= m + 1
               PROVE  x \in P
    OBVIOUS
  <2>1. \A y \in D : r[y] < r[x] => r[y] <= m
    BY <1>0
  <2>2. \A y \in D : r[y] < r[x] => y \in P
    BY <1>2, <2>1
  <2> QED
    BY <2>2
<1>3. \A m \in Nat : m \in T
  <2> HIDE DEF T
  <2> QED
    BY <1>1, <1>2, NatSetInduction
<1> QED
  BY <1>0, <1>3

\* The functions on D that pick from Q[x] at x.
Picks(D, Q) == {f \in [D -> UNION {Q[x] : x \in D}] : \A x \in D : f[x] \in Q[x]}

\* d is the body of a recursion on D: at x it picks from Q[x], and looks at places of
\* smaller rank only.
Recurses(D, r, Q, d) ==
  /\ \A x \in D : Q[x] # {}
  /\ \A f \in Picks(D, Q), x \in D : d[<<f, x>>] \in Q[x]
  /\ \A f, h \in Picks(D, Q), x \in D :
       (\A y \in D : r[y] < r[x] => f[y] = h[y]) => d[<<f, x>>] = d[<<h, x>>]

\* Such a recursion defines a function.
LEMMA RecursionExists ==
  ASSUME NEW D, NEW n \in Nat, NEW r \in [D -> 1 .. n], NEW Q, NEW d, Recurses(D, r, Q, d)
  PROVE  \E f \in Picks(D, Q) : \A x \in D : f[x] = d[<<f, x>>]
<1> DEFINE C == Picks(D, Q)
           first == [x \in D |-> CHOOSE q : q \in Q[x]]
           step(f, k) == [x \in D |-> IF r[x] = k THEN d[<<f, x>>] ELSE f[x]]
           body == [t \in C \X (1 .. n) |-> step(t[1], t[2])]
<1>0. \A x \in D : r[x] \in Nat /\ 1 <= r[x] /\ r[x] <= n /\ r[x] \in 1 .. n
  OBVIOUS
<1>1. first \in C
  <2>1. \A x \in D : first[x] \in Q[x]
    BY DEF Recurses
  <2> HIDE DEF first
  <2>2. first = [x \in D |-> first[x]]
    BY DEF first
  <2> QED
    BY <2>1, <2>2 DEF Picks
<1>2. ASSUME NEW f \in C, NEW k \in 1 .. n
      PROVE  step(f, k) \in C
  <2> DEFINE s == step(f, k)
  <2>1. \A x \in D : d[<<f, x>>] \in Q[x] /\ f[x] \in Q[x]
    BY DEF Recurses, Picks
  <2>2. \A x \in D : s[x] \in Q[x]
    BY <2>1
  <2>3. s = [x \in D |-> s[x]]
    OBVIOUS
  <2> HIDE DEF s
  <2>4. s \in C
    BY <2>2, <2>3 DEF Picks
  <2> QED
    BY <2>4 DEF s
<1>3. PICK h : h \in Courses(C, first, n, body)
  <2> HIDE DEF step, C, first
  <2>1. body \in Bodies(C, n)
    BY <1>2 DEF Bodies
  <2> HIDE DEF body
  <2> QED
    BY <1>1, <2>1, LoopExists
<1>4. /\ h \in [0 .. n -> C]
      /\ \A k \in 1 .. n : h[k] = step(h[k - 1], k)
  <2> HIDE DEF step, C
  <2>1. /\ h \in [0 .. n -> C]
        /\ \A k \in 1 .. n : h[k] = body[<<h[k - 1], k>>]
    BY <1>3 DEF Courses
  <2>2. ASSUME NEW k \in 1 .. n
        PROVE  h[k] = step(h[k - 1], k)
    <3>1. <<h[k - 1], k>> \in C \X (1 .. n)
      BY <2>1
    <3> QED
      BY <2>1, <3>1
  <2> QED
    BY <2>1, <2>2
<1>5. ASSUME NEW k \in 1 .. n, NEW x \in D
      PROVE  h[k][x] = IF r[x] = k THEN d[<<h[k - 1], x>>] ELSE h[k - 1][x]
  <2>1. h[k] = [y \in D |-> IF r[y] = k THEN d[<<h[k - 1], y>>] ELSE h[k - 1][y]]
    BY <1>4
  <2> HIDE DEF C, step, body, first
  <2> QED
    BY <2>1
<1> HIDE DEF step, body, first
<1> DEFINE T == {m \in Nat : m <= n => \A x \in D : r[x] <= m => h[m][x] = h[r[x]][x]}
<1>6. 0 \in T
  BY <1>0
<1>7. ASSUME NEW m \in Nat, m \in T
      PROVE  m + 1 \in T
  <2> SUFFICES ASSUME m + 1 <= n, NEW x \in D, r[x] <= m + 1
               PROVE  h[m + 1][x] = h[r[x]][x]
    OBVIOUS
  <2>1. m + 1 \in 1 .. n /\ (m + 1) - 1 = m /\ m <= n
    OBVIOUS
  <2>2. CASE r[x] = m + 1
    BY <2>2
  <2>3. CASE r[x] # m + 1
    <3>1. r[x] <= m
      BY <1>0, <2>3
    <3>2. h[m + 1][x] = h[m][x]
      <4>1. h[m + 1][x] = IF r[x] = m + 1 THEN d[<<h[(m + 1) - 1], x>>] ELSE h[(m + 1) - 1][x]
        BY <1>5, <2>1
      <4> QED
        BY <2>1, <2>3, <4>1
    <3> QED
      BY <1>7, <2>1, <3>1, <3>2
  <2> QED
    BY <2>2, <2>3
<1>8. \A m \in Nat : m \in T
  <2> HIDE DEF T
  <2> QED
    BY <1>6, <1>7, NatSetInduction
<1>9. h[n] \in C
  BY <1>4
<1>10. ASSUME NEW x \in D
       PROVE  h[n][x] = d[<<h[n], x>>]
  <2> DEFINE k == r[x]
             before == h[k - 1]
  <2>1. k \in 1 .. n /\ k - 1 \in 0 .. n /\ k - 1 \in Nat /\ k - 1 <= n /\ n <= n /\ k <= n
    BY <1>0
  <2>2. h[n][x] = h[k][x]
    BY <1>8, <2>1
  <2>3. h[k][x] = d[<<before, x>>]
    BY <1>5, <2>1
  <2>4. before \in C
    BY <1>4, <2>1
  <2>5. \A y \in D : r[y] < r[x] => before[y] = h[n][y]
    <3> SUFFICES ASSUME NEW y \in D, r[y] < r[x] PROVE before[y] = h[n][y]
      OBVIOUS
    <3>1. r[y] <= k - 1 /\ r[y] <= n
      BY <1>0
    <3>2. before[y] = h[r[y]][y]
      BY <1>8, <2>1, <3>1
    <3>3. h[n][y] = h[r[y]][y]
      BY <1>8, <2>1, <3>1
    <3> QED
      BY <3>2, <3>3
  <2> HIDE DEF before, k
  <2>6. d[<<before, x>>] = d[<<h[n], x>>]
    BY <1>9, <2>4, <2>5 DEF Recurses
  <2> QED
    BY <2>2, <2>3, <2>6
<1> QED
  BY <1>9, <1>10

-----------------------------------------------------------------------------
(***************************************************************************)
(* What passes a test, and what a function makes of a sequence.            *)
(***************************************************************************)

\* A set that has the empty sequence, and every sequence it has with one more element
\* too, has all the sequences over X.
LEMMA SeqSetInduction ==
  ASSUME NEW X, NEW P, <<>> \in P, \A s \in Seq(X), x \in X : s \in P => Append(s, x) \in P
  PROVE  \A s \in Seq(X) : s \in P
<1> DEFINE T == {m \in Nat : \A s \in Seq(X) : Len(s) = m => s \in P}
<1>1. 0 \in T
  <2> SUFFICES ASSUME NEW s \in Seq(X), Len(s) = 0 PROVE s \in P
    OBVIOUS
  <2>1. s = <<>>
    BY EmptySeq
  <2> QED
    BY <2>1
<1>2. ASSUME NEW m \in Nat, m \in T
      PROVE  m + 1 \in T
  <2> SUFFICES ASSUME NEW s \in Seq(X), Len(s) = m + 1 PROVE s \in P
    OBVIOUS
  <2>1. s # <<>>
    BY EmptySeq
  <2>2. PICK r \in Seq(X), x \in X : s = Append(r, x)
    BY <2>1, SequenceEmptyOrAppend
  <2>3. Len(s) = Len(r) + 1 /\ Len(r) \in Nat
    BY <2>2, AppendProperties, LenProperties
  <2>4. Len(r) = m
    BY <2>3
  <2>5. r \in P
    BY <1>2, <2>4
  <2> QED
    BY <2>2, <2>5
<1>3. \A m \in Nat : m \in T
  <2> HIDE DEF T
  <2> QED
    BY <1>1, <1>2, NatSetInduction
<1> QED
  BY <1>3, LenProperties

\* A sequence with one more element.
LEMMA AppendRange ==
  ASSUME NEW X, NEW s \in Seq(X), NEW x \in X
  PROVE  Append(s, x) \in Seq(X) /\ Range(Append(s, x)) = Range(s) \cup {x}
<1>1. DOMAIN s = 1 .. Len(s) /\ Len(s) \in Nat
  BY LenProperties
<1>2. /\ Append(s, x) \in Seq(X) /\ Len(Append(s, x)) = Len(s) + 1
      /\ \A i \in 1 .. Len(s) : Append(s, x)[i] = s[i]
      /\ Append(s, x)[Len(s) + 1] = x
  BY AppendProperties
<1>3. DOMAIN Append(s, x) = 1 .. Len(s) + 1
  BY <1>2, LenProperties
<1> QED
  BY <1>1, <1>2, <1>3 DEF Range

\* The courses of Among's loop over s.
Passes(X, s, S) ==
  {f \in [0 .. Len(s) -> Seq(X)] :
     /\ f[0] = <<>>
     /\ \A i \in 1 .. Len(s) : f[i] = IF s[i] \in S THEN Append(f[i - 1], s[i]) ELSE f[i - 1]
     /\ Among(s, S) = f[Len(s)]}

\* Among is a loop over s that collects what passes.
LEMMA AmongCourse ==
  ASSUME NEW X, NEW s \in Seq(X), NEW S
  PROVE  Passes(X, s, S) # {}
<1> DEFINE n == Len(s)
           L == Seq(X)
           empty == <<>>
           Passed == CHOOSE F : F = [k \in 0 .. n |->
                       IF k = 0 THEN <<>>
                       ELSE IF s[k] \in S THEN Append(F[k - 1], s[k]) ELSE F[k - 1]]
           d == [t \in L \X (1 .. n) |-> IF s[t[2]] \in S THEN Append(t[1], s[t[2]]) ELSE t[1]]
<1>1. Among(s, S) = Passed[n]
  BY DEF Among
<1>2. n \in Nat /\ s \in [1 .. n -> X] /\ DOMAIN s = 1 .. n
  BY LenProperties
<1>3. empty \in L
  BY EmptySeq
<1>4. d \in Bodies(L, n)
  <2>1. ASSUME NEW l \in L, NEW i \in 1 .. n
        PROVE  Append(l, s[i]) \in L
    BY <1>2, AppendProperties
  <2> HIDE DEF L
  <2> QED
    BY <2>1 DEF Bodies
<1>5. PICK h : h \in Courses(L, empty, n, d)
  <2> HIDE DEF d, n, empty, L, Passed
  <2> QED
    BY <1>2, <1>3, <1>4, LoopExists
<1>6. h \in [0 .. n -> L] /\ h[0] = <<>> /\ \A i \in 1 .. n : h[i] = d[<<h[i - 1], i>>]
  BY <1>5 DEF Courses
<1>7. ASSUME NEW i \in 1 .. n
      PROVE  h[i] = IF s[i] \in S THEN Append(h[i - 1], s[i]) ELSE h[i - 1]
  <2> HIDE DEF L, n, d
  <2>0. h[i - 1] \in L
    BY <1>2, <1>6
  <2>1. <<h[i - 1], i>> \in L \X (1 .. n)
    BY <2>0
  <2> USE DEF d
  <2> QED
    BY <1>6, <2>1
<1>8. h = [k \in 0 .. n |-> IF k = 0 THEN <<>>
                            ELSE IF s[k] \in S THEN Append(h[k - 1], s[k]) ELSE h[k - 1]]
  <2> HIDE DEF L, d, n, Passed
  <2>1. h = [k \in 0 .. n |-> h[k]] /\ h[0] = <<>>
    BY <1>6
  <2>2. \A k \in 0 .. n : k # 0 => k \in 1 .. n
    BY <1>2
  <2>3. \A k \in 0 .. n : h[k] = IF k = 0 THEN <<>>
                            ELSE IF s[k] \in S THEN Append(h[k - 1], s[k]) ELSE h[k - 1]
    BY <1>7, <2>1, <2>2
  <2> QED
    BY <2>1, <2>3
<1>9. Passed = [k \in 0 .. n |-> IF k = 0 THEN <<>>
                       ELSE IF s[k] \in S THEN Append(Passed[k - 1], s[k]) ELSE Passed[k - 1]]
  <2> HIDE DEF n
  <2> QED
    BY <1>8, Zenon
<1> HIDE DEF Passed, d
<1>10. /\ Passed[0] = <<>> /\ Passed = [k \in 0 .. n |-> Passed[k]]
       /\ \A i \in 1 .. n : Passed[i] = IF s[i] \in S THEN Append(Passed[i - 1], s[i]) ELSE Passed[i - 1]
  <2>2. 0 \in 0 .. n /\ \A i \in 1 .. n : i \in 0 .. n /\ i # 0
    BY <1>2
  <2> QED
    BY <1>9, <2>2
<1>11. Passed \in [0 .. n -> Seq(X)]
  <2>1. ASSUME NEW k \in 1 .. n, Passed[k - 1] \in L
        PROVE  Passed[k] = d[<<Passed[k - 1], k>>]
    <3>1. <<Passed[k - 1], k>> \in L \X (1 .. n)
      BY <2>1
    <3> HIDE DEF L, n
    <3> QED
      BY <1>10, <3>1 DEF d
  <2>3. Passed[0] = empty /\ Passed = [k \in 0 .. n |-> Passed[k]]
    BY <1>10
  <2> HIDE DEF n, empty, L
  <2>4. Follows(L, empty, n, d, Passed)
    BY <2>1, <2>3 DEF Follows
  <2>5. Passed \in Courses(L, empty, n, d)
    BY <1>2, <1>3, <1>4, <2>4, LoopFollows
  <2> QED
    BY <2>5 DEF Courses, L
<1>12. Passed \in Passes(X, s, S)
  BY <1>1, <1>10, <1>11 DEF Passes
<1> QED
  BY <1>12

\* Nothing passes of nothing.
LEMMA AmongEmpty ==
  ASSUME NEW S
  PROVE  Among(<<>>, S) = <<>>
<1>1. <<>> \in Seq({}) /\ Len(<<>>) = 0
  BY EmptySeq
<1>2. PICK f : f \in Passes({}, <<>>, S)
  BY <1>1, AmongCourse
<1> QED
  BY <1>1, <1>2 DEF Passes

\* What passes of a sequence with one more element.
LEMMA AmongAppend ==
  ASSUME NEW X, NEW S, NEW r \in Seq(X), NEW x \in X
  PROVE  Among(Append(r, x), S) = IF x \in S THEN Append(Among(r, S), x) ELSE Among(r, S)
<1> DEFINE n == Len(r)
           s == Append(r, x)
<1>1. s \in Seq(X) /\ n \in Nat /\ Len(s) = n + 1 /\ s[n + 1] = x /\ \A i \in 1 .. n : s[i] = r[i]
  BY AppendProperties, LenProperties
<1> HIDE DEF s
<1>2. PICK f : f \in Passes(X, r, S)
  BY AmongCourse
<1>3. PICK h : h \in Passes(X, s, S)
  BY <1>1, AmongCourse
<1>4. /\ f[0] = <<>> /\ Among(r, S) = f[n]
      /\ \A i \in 1 .. n : f[i] = IF r[i] \in S THEN Append(f[i - 1], r[i]) ELSE f[i - 1]
  BY <1>2 DEF Passes
<1>5. /\ h[0] = <<>> /\ Among(s, S) = h[n + 1]
      /\ \A i \in 1 .. n + 1 : h[i] = IF s[i] \in S THEN Append(h[i - 1], s[i]) ELSE h[i - 1]
  BY <1>1, <1>3 DEF Passes
<1> HIDE DEF n
<1> DEFINE T == {m \in Nat : m <= n => h[m] = f[m]}
<1>6. 0 \in T
  BY <1>4, <1>5
<1>7. ASSUME NEW m \in Nat, m \in T
      PROVE  m + 1 \in T
  <2> SUFFICES ASSUME m + 1 <= n PROVE h[m + 1] = f[m + 1]
    OBVIOUS
  <2>1. m + 1 \in 1 .. n /\ m + 1 \in 1 .. n + 1 /\ (m + 1) - 1 = m /\ m <= n
    BY <1>1
  <2>2. f[m + 1] = IF r[m + 1] \in S THEN Append(f[(m + 1) - 1], r[m + 1]) ELSE f[(m + 1) - 1]
    BY <1>4, <2>1
  <2>3. h[m + 1] = IF s[m + 1] \in S THEN Append(h[(m + 1) - 1], s[m + 1]) ELSE h[(m + 1) - 1]
    BY <1>5, <2>1
  <2>4. s[m + 1] = r[m + 1] /\ h[m] = f[m]
    BY <1>1, <1>7, <2>1
  <2> QED
    BY <2>1, <2>2, <2>3, <2>4
<1>8. \A m \in Nat : m \in T
  <2> HIDE DEF T
  <2> QED
    BY <1>6, <1>7, NatSetInduction
<1>9. h[n] = f[n]
  BY <1>1, <1>8
<1>10. n + 1 \in 1 .. n + 1 /\ (n + 1) - 1 = n
  BY <1>1
<1>11. h[n + 1] = IF s[n + 1] \in S THEN Append(h[(n + 1) - 1], s[n + 1]) ELSE h[(n + 1) - 1]
  BY <1>5, <1>10
<1> QED
  BY <1>1, <1>4, <1>5, <1>9, <1>10, <1>11 DEF s

\* What passes is in the sequence and in the set, and nothing else passes.
LEMMA AmongType ==
  ASSUME NEW X, NEW S, NEW s \in Seq(X)
  PROVE  /\ Among(s, S) \in Seq(X)
         /\ Among(s, S) \in Seq(X \cap S)
         /\ Range(Among(s, S)) = Range(s) \cap S
<1> DEFINE P == {t \in Seq(X) : /\ Among(t, S) \in Seq(X \cap S)
                                /\ Range(Among(t, S)) = Range(t) \cap S}
<1>1. <<>> \in P
  <2>1. Among(<<>>, S) = <<>> /\ <<>> \in Seq(X) /\ <<>> \in Seq(X \cap S)
    BY AmongEmpty, EmptySeq
  <2>2. Range(<<>>) = {}
    BY DEF Range
  <2> QED
    BY <2>1, <2>2
<1>2. ASSUME NEW t \in Seq(X), NEW x \in X, t \in P
      PROVE  Append(t, x) \in P
  <2> DEFINE a == Among(t, S)
  <2>1. a \in Seq(X \cap S) /\ Range(a) = Range(t) \cap S /\ a \in Seq(X)
    <3>1. a \in Seq(X \cap S) /\ Range(a) = Range(t) \cap S
      BY <1>2
    <3> HIDE DEF a
    <3>2. X \cap S \subseteq X
      OBVIOUS
    <3> QED
      BY <3>1, <3>2, SeqMonotonic
  <2>2. Among(Append(t, x), S) = IF x \in S THEN Append(a, x) ELSE a
    BY AmongAppend
  <2>3. Append(t, x) \in Seq(X) /\ Range(Append(t, x)) = Range(t) \cup {x}
    BY AppendRange
  <2> HIDE DEF a
  <2>4. CASE x \in S
    <3>1. Append(a, x) \in Seq(X \cap S) /\ Range(Append(a, x)) = Range(a) \cup {x}
      BY <2>1, <2>4, AppendRange
    <3> QED
      BY <2>1, <2>2, <2>3, <2>4, <3>1
  <2>5. CASE x \notin S
    BY <2>1, <2>2, <2>3, <2>5
  <2> QED
    BY <2>4, <2>5
<1>3. \A t \in Seq(X) : t \in P
  <2> HIDE DEF P
  <2> QED
    BY <1>1, <1>2, SeqSetInduction
<1>4. Among(s, S) \in Seq(X \cap S) /\ Range(Among(s, S)) = Range(s) \cap S
  BY <1>3
<1>5. X \cap S \subseteq X
  OBVIOUS
<1> QED
  BY <1>4, <1>5, SeqMonotonic

\* The length of a sequence is known from its domain.
LEMMA LenIs ==
  ASSUME NEW X, NEW n \in Nat, NEW s \in [1 .. n -> X]
  PROVE  s \in Seq(X) /\ Len(s) = n
<1>1. s \in Seq(X)
  BY SeqDef
<1>2. DOMAIN s = 1 .. n /\ DOMAIN s = 1 .. Len(s) /\ Len(s) \in Nat
  BY <1>1, LenProperties
<1> QED
  BY <1>1, <1>2

\* To let pass twice is to let pass what is in both sets.
LEMMA AmongAmong ==
  ASSUME NEW X, NEW S, NEW T, NEW s \in Seq(X)
  PROVE  Among(Among(s, S), T) = Among(s, S \cap T)
<1> DEFINE P == {t \in Seq(X) : Among(Among(t, S), T) = Among(t, S \cap T)}
<1>1. <<>> \in P
  BY AmongEmpty, EmptySeq
<1>2. ASSUME NEW t \in Seq(X), NEW x \in X, t \in P
      PROVE  Append(t, x) \in P
  <2> DEFINE a == Among(t, S)
             U == S \cap T
  <2>1. a \in Seq(X) /\ Append(t, x) \in Seq(X)
    BY AmongType, AppendProperties
  <2>2. Among(a, T) = Among(t, U)
    BY <1>2
  <2>3. Among(Append(t, x), S) = IF x \in S THEN Append(a, x) ELSE a
    BY AmongAppend
  <2>4. Among(Append(t, x), U) = IF x \in U THEN Append(Among(t, U), x) ELSE Among(t, U)
    BY AmongAppend
  <2> HIDE DEF a
  <2>5. Among(Append(a, x), T) = IF x \in T THEN Append(Among(a, T), x) ELSE Among(a, T)
    BY <2>1, AmongAppend
  <2>6. x \in U <=> x \in S /\ x \in T
    OBVIOUS
  <2>7. Among(Among(Append(t, x), S), T) = Among(Append(t, x), U)
    <3> HIDE DEF U
    <3> QED
      BY <2>2, <2>3, <2>4, <2>5, <2>6
  <2> QED
    BY <2>1, <2>7
<1>3. \A t \in Seq(X) : t \in P
  <2> HIDE DEF P
  <2> QED
    BY <1>1, <1>2, SeqSetInduction
<1> QED
  BY <1>3

\* A sequence entry by entry through a function.
Mapped(s, f) == [j \in DOMAIN s |-> f[s[j]]]

\* The sequence m over Y is s through f.
IsMapped(Y, s, f, m) ==
  /\ m \in Seq(Y) /\ Len(m) = Len(s)
  /\ \A j \in 1 .. Len(s) : m[j] = f[s[j]]
  /\ Range(m) = {f[x] : x \in Range(s)}

\* What a mapped sequence looks like.
LEMMA MappedType ==
  ASSUME NEW X, NEW Y, NEW f \in [X -> Y], NEW s \in Seq(X)
  PROVE  IsMapped(Y, s, f, Mapped(s, f))
<1> DEFINE n == Len(s)
           m == Mapped(s, f)
<1>1. n \in Nat /\ s \in [1 .. n -> X] /\ DOMAIN s = 1 .. n
  BY LenProperties
<1>2. m = [j \in 1 .. n |-> f[s[j]]]
  BY <1>1 DEF Mapped
<1> HIDE DEF n, m
<1>3. m \in [1 .. n -> Y]
  BY <1>1, <1>2
<1>4. m \in Seq(Y)
  BY <1>1, <1>3, SeqDef
<1>5. Len(m) = n
  <2>1. DOMAIN m = 1 .. n /\ DOMAIN m = 1 .. Len(m) /\ Len(m) \in Nat
    BY <1>3, <1>4, LenProperties
  <2> QED
    BY <1>1, <2>1
<1>6. Range(m) = {f[x] : x \in Range(s)}
  BY <1>1, <1>2 DEF Range
<1>7. \A j \in 1 .. n : m[j] = f[s[j]]
  BY <1>2
<1> QED
  BY <1>4, <1>5, <1>6, <1>7 DEF n, m, IsMapped

\* The mapped sequence of a sequence with one more element.
LEMMA MappedAppend ==
  ASSUME NEW X, NEW Y, NEW f \in [X -> Y], NEW s \in Seq(X), NEW x \in X
  PROVE  Mapped(Append(s, x), f) = Append(Mapped(s, f), f[x])
<1> DEFINE n == Len(s)
           t == Append(s, x)
           m == Mapped(s, f)
           l == Mapped(t, f)
           r == Append(m, f[x])
<1>1. t \in Seq(X) /\ Len(t) = n + 1 /\ n \in Nat /\ t[n + 1] = x /\ \A j \in 1 .. n : t[j] = s[j]
  BY AppendProperties, LenProperties
<1> HIDE DEF t
<1>2. m \in Seq(Y) /\ Len(m) = n /\ \A j \in 1 .. n : m[j] = f[s[j]]
  BY MappedType DEF IsMapped
<1>3. l \in Seq(Y) /\ Len(l) = n + 1 /\ \A j \in 1 .. n + 1 : l[j] = f[t[j]]
  <2>1. IsMapped(Y, t, f, l)
    BY <1>1, MappedType
  <2> QED
    BY <1>1, <2>1 DEF IsMapped
<1>4. f[x] \in Y
  OBVIOUS
<1> HIDE DEF n, m, l
<1>5. r \in Seq(Y) /\ Len(r) = n + 1 /\ r[n + 1] = f[x] /\ \A j \in 1 .. n : r[j] = m[j]
  BY <1>2, <1>4, AppendProperties
<1> HIDE DEF r
<1>6. ASSUME NEW j \in 1 .. n + 1 PROVE l[j] = r[j]
  <2>1. CASE j = n + 1
    BY <1>1, <1>3, <1>5, <2>1
  <2>2. CASE j # n + 1
    <3>1. j \in 1 .. n
      BY <1>1, <2>2
    <3> QED
      BY <1>1, <1>2, <1>3, <1>5, <3>1
  <2> QED
    BY <2>1, <2>2
<1>7. l = r
  BY <1>3, <1>5, <1>6, SeqEqual
<1> QED
  BY <1>7 DEF l, r, m, t

\* The function f from X to Y takes S, and nothing else, into T.
Separates(X, Y, f, S, T) == f \in [X -> Y] /\ \A x \in X : x \in S <=> f[x] \in T

\* To let pass and to map, in either order.
LEMMA AmongMapped ==
  ASSUME NEW X, NEW Y, NEW f, NEW S, NEW T, Separates(X, Y, f, S, T), NEW s \in Seq(X)
  PROVE  Mapped(Among(s, S), f) = Among(Mapped(s, f), T)
<1>0. f \in [X -> Y]
  BY DEF Separates
<1> DEFINE P == {t \in Seq(X) : Mapped(Among(t, S), f) = Among(Mapped(t, f), T)}
<1>1. <<>> \in P
  <2>1. Mapped(<<>>, f) = <<>>
    BY DEF Mapped
  <2> QED
    BY <2>1, AmongEmpty, EmptySeq
<1>2. ASSUME NEW t \in Seq(X), NEW x \in X, t \in P
      PROVE  Append(t, x) \in P
  <2> DEFINE a == Among(t, S)
             m == Mapped(t, f)
  <2>1. a \in Seq(X) /\ Append(t, x) \in Seq(X) /\ m \in Seq(Y) /\ f[x] \in Y
    BY <1>0, AmongType, AppendProperties, MappedType DEF IsMapped
  <2>2. Mapped(a, f) = Among(m, T)
    BY <1>2
  <2>3. Among(Append(t, x), S) = IF x \in S THEN Append(a, x) ELSE a
    BY AmongAppend
  <2>4. Mapped(Append(t, x), f) = Append(m, f[x])
    BY <1>0, MappedAppend
  <2> HIDE DEF a, m
  <2>5. Mapped(Append(a, x), f) = Append(Mapped(a, f), f[x])
    BY <1>0, <2>1, MappedAppend
  <2>6. Among(Append(m, f[x]), T) = IF f[x] \in T THEN Append(Among(m, T), f[x]) ELSE Among(m, T)
    <3> DEFINE y == f[x]
    <3>1. m \in Seq(Y) /\ y \in Y
      BY <2>1
    <3> HIDE DEF y
    <3>2. Among(Append(m, y), T) = IF y \in T THEN Append(Among(m, T), y) ELSE Among(m, T)
      BY <3>1, AmongAppend
    <3> QED
      BY <3>2 DEF y
  <2>7. x \in S <=> f[x] \in T
    BY DEF Separates
  <2>8. Mapped(Among(Append(t, x), S), f) = Among(Mapped(Append(t, x), f), T)
    BY <2>2, <2>3, <2>4, <2>5, <2>6, <2>7
  <2> QED
    BY <2>1, <2>8
<1>3. \A t \in Seq(X) : t \in P
  <2> HIDE DEF P
  <2> QED
    BY <1>1, <1>2, SeqSetInduction
<1> QED
  BY <1>3

\* c is f and then h.
Composes(X, Y, Z, f, h, c) == f \in [X -> Y] /\ h \in [Y -> Z] /\ c = [x \in X |-> h[f[x]]]

\* Mapping twice.
LEMMA MappedMapped ==
  ASSUME NEW X, NEW Y, NEW Z, NEW f, NEW h, NEW c, Composes(X, Y, Z, f, h, c), NEW s \in Seq(X)
  PROVE  Mapped(Mapped(s, f), h) = Mapped(s, c)
<1> DEFINE l == Mapped(Mapped(s, f), h)
           r == Mapped(s, c)
<1>0. f \in [X -> Y] /\ h \in [Y -> Z]
  BY DEF Composes
<1>1. c \in [X -> Z] /\ \A x \in X : c[x] = h[f[x]]
  BY DEF Composes
<1>2. Mapped(s, f) \in Seq(Y) /\ Len(Mapped(s, f)) = Len(s) /\ \A j \in 1 .. Len(s) : Mapped(s, f)[j] = f[s[j]]
  <2>1. IsMapped(Y, s, f, Mapped(s, f))
    BY <1>0, MappedType
  <2> QED
    BY <2>1 DEF IsMapped
<1>3. l \in Seq(Z) /\ Len(l) = Len(s) /\ \A j \in 1 .. Len(s) : l[j] = h[Mapped(s, f)[j]]
  <2>1. IsMapped(Z, Mapped(s, f), h, l)
    BY <1>0, <1>2, MappedType
  <2> QED
    BY <1>2, <2>1 DEF IsMapped
<1>4. r \in Seq(Z) /\ Len(r) = Len(s) /\ \A j \in 1 .. Len(s) : r[j] = c[s[j]]
  <2>1. IsMapped(Z, s, c, r)
    BY <1>1, MappedType
  <2> QED
    BY <2>1 DEF IsMapped
<1>5. \A j \in 1 .. Len(s) : s[j] \in X
  BY LenProperties
<1>6. \A j \in 1 .. Len(s) : l[j] = r[j]
  BY <1>1, <1>2, <1>3, <1>4, <1>5
<1> HIDE DEF l, r
<1>7. l = r
  BY <1>3, <1>4, <1>6, SeqEqual
<1> QED
  BY <1>7 DEF l, r

\* The numbers 1 .. n in order.
LEMMA CountUp ==
  ASSUME NEW n \in Nat, NEW D, D = 1 .. n
  PROVE  LET id == [i \in D |-> i]
         IN  id \in Seq(1 .. n) /\ Len(id) = n /\ Range(id) = 1 .. n
<1> DEFINE id == [i \in 1 .. n |-> i]
<1>1. id \in [1 .. n -> 1 .. n] /\ DOMAIN id = 1 .. n
  OBVIOUS
<1>2. id \in Seq(1 .. n)
  BY <1>1, SeqDef
<1>3. Range(id) = 1 .. n
  BY DEF Range
<1>4. Len(id) \in Nat /\ DOMAIN id = 1 .. Len(id)
  BY <1>2, LenProperties
<1> HIDE DEF id
<1>5. Len(id) = n
  BY <1>1, <1>4
<1> QED
  BY <1>2, <1>3, <1>5 DEF id

\* Everything passes that is in the set.
LEMMA AmongAll ==
  ASSUME NEW X, NEW S, X \subseteq S, NEW s \in Seq(X)
  PROVE  Among(s, S) = s
<1> DEFINE P == {t \in Seq(X) : Among(t, S) = t}
<1>1. <<>> \in P
  BY AmongEmpty, EmptySeq
<1>2. ASSUME NEW t \in Seq(X), NEW x \in X, t \in P
      PROVE  Append(t, x) \in P
  <2>1. Among(Append(t, x), S) = IF x \in S THEN Append(Among(t, S), x) ELSE Among(t, S)
    BY AmongAppend
  <2>2. Append(t, x) \in Seq(X)
    BY AppendProperties
  <2> QED
    BY <1>2, <2>1, <2>2
<1>3. \A t \in Seq(X) : t \in P
  <2> HIDE DEF P
  <2> QED
    BY <1>1, <1>2, SeqSetInduction
<1> QED
  BY <1>3

=============================================================================
