----------------------------- MODULE CLogProof ------------------------------
(***************************************************************************)
(* Proofs about the log, for any number of threads and notes.              *)
(***************************************************************************)
EXTENDS CLog, SequenceTheorems, TLAPS

-----------------------------------------------------------------------------
(***************************************************************************)
(* The inductive invariant: LogSpells and LogWithoutGaps over positions of *)
(* added, with what is known of the threads and of the order of the notes. *)
(***************************************************************************)

\* The notes the log thread has taken off the list.
Taken == Len(clog) + Len(Carried)

\* The notes of writer w that are on the list or past it.
Done(w) == IF pc[w] \in {"add", "link", "tail"} THEN made[w] - 1 ELSE made[w]

LogTypes ==
  /\ pc \in [Threads -> {"off", "run", "add", "link", "tail", "done",
                         "loop", "look", "sleep", "write"}]
  /\ pc[Logger] \in {"off", "loop", "look", "sleep", "write"}
  /\ \A w \in Writers : pc[w] \in {"off", "run", "add", "link", "tail", "done"}
  /\ pc[Logger] = "off" => \A w \in Workers : pc[w] = "off"
  /\ made \in [Writers -> 0 .. Quota]
  /\ \A w \in Writers : pc[w] \in {"add", "link", "tail"} => made[w] >= 1
  /\ next \in [Notes -> Notes \cup {Null, Wild}]
  /\ added \in Seq(Notes) /\ clog \in Seq(Notes)
  /\ Taken \in 0 .. Len(added)

\* The lock is held by the thread between Lock and Unlock.
LogLock == \A t \in Threads : owner = t <=> pc[t] \in {"link", "tail", "look"}

\* What is written, and what the log thread carries, was added first.
LogPrefix ==
  /\ \A i \in 1 .. Len(clog) : clog[i] = added[i]
  /\ pc[Logger] = "write" => dowrite = added[Taken]

\* Each note is added once, after the earlier ones of its thread.
NotesInOrder ==
  /\ \A i, j \in 1 .. Len(added) : added[i] = added[j] => i = j
  /\ \A i \in 1 .. Len(added) : added[i][2] <= Done(added[i][1])
  /\ \A w \in Writers : \A k \in 1 .. Done(w) : \E i \in 1 .. Len(added) : added[i] = <<w, k>>
  /\ \A i \in 1 .. Len(added) : \A k \in 1 .. added[i][2] - 1 :
       \E j \in 1 .. i - 1 : added[j] = <<added[i][1], k>>

\* LogSpells, over the positions of added.
ListSpells ==
  LET L == Len(added)
  IN  /\ tail = IF Taken = L THEN Null ELSE added[L]
      /\ Taken < L => head = added[Taken + 1]
      /\ \A i \in Taken + 1 .. L - 1 : next[added[i]] = added[i + 1]
      /\ \A w \in Writers : pc[w] = "tail" =>
           Mine(w) = IF Taken = L THEN head ELSE next[added[L]]
      /\ (Taken = L /\ \A w \in Writers : pc[w] # "tail") => head = Null

LInv == LogTypes /\ LogLock /\ LogPrefix /\ NotesInOrder /\ ListSpells

-----------------------------------------------------------------------------
(***************************************************************************)
(* The steps.                                                              *)
(***************************************************************************)

\* A note and its two halves.
LEMMA NoteFacts ==
  ASSUME NEW n \in Notes
  PROVE  n[1] \in Writers /\ n[2] \in 1 .. Quota /\ n = <<n[1], n[2]>> /\ n # Null
  BY LogThreadsAssumption DEF Notes

\* The log starts empty.
LEMMA LogInit == Init => LInv
<1> SUFFICES ASSUME Init PROVE LInv
  OBVIOUS
<1> USE LogThreadsAssumption, QuotaAssumption
<1>1. Carried = <<>> /\ Len(clog) = 0 /\ Len(added) = 0 /\ Taken = 0
  BY DEF Init, Carried, Taken, Threads, Writers
<1>2. LogTypes
  <2>1. /\ pc \in [Threads -> {"off", "run", "add", "link", "tail", "done",
                              "loop", "look", "sleep", "write"}]
        /\ pc[Main] = "run" /\ pc[Logger] = "off" /\ \A w \in Workers : pc[w] = "off"
    BY DEF Init, Threads, Writers
  <2>2. made \in [Writers -> 0 .. Quota] /\ next \in [Notes -> Notes \cup {Null, Wild}]
    BY DEF Init
  <2>3. added \in Seq(Notes) /\ clog \in Seq(Notes) /\ Taken \in 0 .. Len(added)
    BY <1>1 DEF Init
  <2> QED
    BY <2>1, <2>2, <2>3 DEF LogTypes, Writers
<1>3. LogLock
  BY DEF Init, LogLock, Threads, Writers
<1>4. LogPrefix
  BY <1>1, <1>2 DEF Init, LogPrefix, LogTypes, Threads, Writers
<1>5. NotesInOrder
  <2>1. \A w \in Writers : Done(w) = 0
    BY DEF Init, Done, Threads, Writers
  <2> QED
    BY <1>1, <2>1 DEF NotesInOrder
<1>6. ListSpells
  <2>1. \A w \in Writers : pc[w] # "tail"
    BY DEF Init, Threads, Writers
  <2> QED
    BY <1>1, <2>1 DEF Init, ListSpells
<1> QED
  BY <1>2, <1>3, <1>4, <1>5, <1>6 DEF LInv

\* Steps that change neither the notes nor the list.
LEMMA LogCalm ==
  ASSUME LInv, LogTypes', LogLock', UNCHANGED <<head, tail, next, added, clog>>,
         \A w \in Writers : Done(w)' = Done(w),
         \A w \in Writers : pc'[w] = "tail" <=> pc[w] = "tail",
         \A w \in Writers : pc[w] = "tail" => Mine(w)' = Mine(w),
         pc'[Logger] = "write" <=> pc[Logger] = "write",
         pc[Logger] = "write" => dowrite' = dowrite
  PROVE  LInv'
<1> USE DEF LInv
<1>1. Taken' = Taken
  BY DEF Taken, Carried
<1>2. LogPrefix'
  BY <1>1 DEF LogPrefix
<1>3. NotesInOrder'
  <2>1. \A i \in 1 .. Len(added) : added[i][1] \in Writers
    BY NoteFacts, ElementOfSeq DEF LogTypes
  <2> QED
    BY <2>1 DEF NotesInOrder
<1>4. ListSpells'
  BY <1>1 DEF ListSpells
<1> QED
  BY <1>2, <1>3, <1>4

\* CLogNote, Lock, the start of the threads, an empty list, the sleep and the end.
LEMMA LogCalmSteps ==
  ASSUME LInv,
         \/ StartThreads \/ GetLock \/ LookEmpty \/ Awake \/ Exit \/ UNCHANGED vars
         \/ \E w \in Writers : CLogNote(w) \/ AddLock(w)
  PROVE  LInv'
<1> USE LogThreadsAssumption, QuotaAssumption DEF LInv, list
<1>0. /\ pc \in [Threads -> {"off", "run", "add", "link", "tail", "done",
                             "loop", "look", "sleep", "write"}]
      /\ made \in [Writers -> 0 .. Quota] /\ Main \in Writers /\ Main # Logger
      /\ Writers \subseteq Threads /\ Logger \in Threads /\ Logger \notin Writers
      /\ \A w \in Workers : w \in Writers /\ w # Main
      /\ \A t \in Threads : t # Nobody /\ (t \in Workers \/ t = Main \/ t = Logger)
  BY DEF LogTypes, Threads, Writers
<1>1. CASE UNCHANGED vars
  BY <1>1, LogCalm DEF vars, LogTypes, LogLock, Taken, Carried, Done, Mine
<1>2. CASE StartThreads
  <2>1. /\ pc[Main] = "run" /\ pc'[Main] = "done" /\ pc[Logger] = "off" /\ pc'[Logger] = "loop"
        /\ \A w \in Workers : pc[w] = "off" /\ pc'[w] = "run"
        /\ UNCHANGED <<made, list, clog, dowrite>>
    BY <1>0, <1>2 DEF StartThreads, LogTypes
  <2>2. pc' \in [Threads -> {"off", "run", "add", "link", "tail", "done",
                             "loop", "look", "sleep", "write"}]
    BY <1>0, <1>2 DEF StartThreads
  <2>3. Taken' = Taken
    BY <2>1 DEF Taken, Carried
  <2>4. LogTypes'
    BY <2>1, <2>2, <2>3, <1>0 DEF LogTypes, Writers
  <2>5. LogLock'
    BY <2>1, <1>0 DEF LogLock
  <2> QED
    BY <2>1, <2>4, <2>5, <1>0, LogCalm DEF Done, Mine, Writers
<1>3. CASE GetLock
  <2>1. LogTypes'
    BY <1>0, <1>3 DEF GetLock, Goto, LogTypes, Taken, Carried
  <2>2. LogLock'
    BY <1>0, <1>3 DEF GetLock, Goto, LogLock
  <2> QED
    BY <2>1, <2>2, <1>0, <1>3, LogCalm DEF GetLock, Goto, Done, Mine
<1>4. CASE LookEmpty
  <2>1. LogTypes'
    BY <1>0, <1>4 DEF LookEmpty, Goto, LogTypes, Taken, Carried
  <2>2. LogLock'
    BY <1>0, <1>4 DEF LookEmpty, Goto, LogLock
  <2> QED
    BY <2>1, <2>2, <1>0, <1>4, LogCalm DEF LookEmpty, Goto, Done, Mine
<1>5. CASE Awake
  <2>1. LogTypes'
    BY <1>0, <1>5 DEF Awake, Goto, LogTypes, Taken, Carried
  <2>2. LogLock'
    BY <1>0, <1>5 DEF Awake, Goto, LogLock
  <2> QED
    BY <2>1, <2>2, <1>0, <1>5, LogCalm DEF Awake, Goto, Done, Mine
<1>6. CASE Exit
  BY <1>6, LogCalm DEF Exit, LogTypes, LogLock, Taken, Carried, Done, Mine
<1>7. ASSUME NEW w \in Writers, CLogNote(w) PROVE LInv'
  <2>1. /\ pc[w] = "run" /\ pc' = [pc EXCEPT ![w] = "add"]
        /\ made[w] < Quota /\ made' = [made EXCEPT ![w] = made[w] + 1]
        /\ UNCHANGED <<list, clog, dowrite>>
    BY <1>7 DEF CLogNote, Goto
  <2>2. made' \in [Writers -> 0 .. Quota] /\ made'[w] = made[w] + 1 /\ made[w] \in 0 .. Quota
    BY <2>1, <1>0
  <2>3. LogTypes'
    BY <2>1, <2>2, <1>0 DEF LogTypes, Taken, Carried
  <2>4. LogLock'
    BY <2>1, <1>0 DEF LogLock
  <2>5. \A v \in Writers : Done(v)' = Done(v)
    BY <2>1, <2>2, <1>0 DEF Done
  <2> QED
    BY <2>1, <2>3, <2>4, <2>5, <1>0, LogCalm DEF Mine
<1>8. ASSUME NEW w \in Writers, AddLock(w) PROVE LInv'
  <2>1. LogTypes'
    BY <1>0, <1>8 DEF AddLock, Goto, LogTypes, Taken, Carried
  <2>2. LogLock'
    BY <1>0, <1>8 DEF AddLock, Goto, LogLock
  <2> QED
    BY <2>1, <2>2, <1>0, <1>8, LogCalm DEF AddLock, Goto, Done, Mine
<1> QED
  BY <1>1, <1>2, <1>3, <1>4, <1>5, <1>6, <1>7, <1>8

\* addCLogWrite hangs the note on the head pointer or on the tail's link.
LEMMA LogLinkStep ==
  ASSUME LInv, NEW w \in Writers, Link(w)
  PROVE  LInv'
<1> USE LogThreadsAssumption, QuotaAssumption DEF LInv
<1> DEFINE L == Len(added)
<1>0. /\ pc \in [Threads -> {"off", "run", "add", "link", "tail", "done",
                             "loop", "look", "sleep", "write"}]
      /\ made \in [Writers -> 0 .. Quota] /\ next \in [Notes -> Notes \cup {Null, Wild}]
      /\ Writers \subseteq Threads /\ Logger \in Threads /\ Logger \notin Writers
      /\ L \in Nat /\ Taken \in 0 .. L /\ \A i \in 1 .. L : added[i] \in Notes /\ added[i] # Null
  BY ElementOfSeq DEF LogTypes, Threads, Writers
<1>1. /\ pc[w] = "link" /\ pc' = [pc EXCEPT ![w] = "tail"]
      /\ UNCHANGED <<made, owner, tail, added, dowrite, clog>>
  BY DEF Link, Goto
<1>2. Mine(w) \in Notes /\ Mine(w)' = Mine(w)
  BY <1>0, <1>1 DEF LogTypes, Mine, Notes
<1>3. Taken' = Taken
  BY <1>0, <1>1 DEF Taken, Carried
<1>4. \A u \in Writers : (pc'[u] = "tail" <=> u = w) /\ pc[u] # "tail"
  BY <1>0, <1>1 DEF LogLock
<1>5. head = Null <=> Taken = L
  <2>1. Taken = L => head = Null
    BY <1>4 DEF ListSpells
  <2>2. Taken # L => Taken < L /\ Taken + 1 \in 1 .. L
    BY <1>0
  <2> QED
    BY <2>1, <2>2, <1>0 DEF ListSpells
<1>6. LogTypes'
  <2>1. next' \in [Notes -> Notes \cup {Null, Wild}]
    BY <1>0, <1>2 DEF Link
  <2> QED
    BY <2>1, <1>0, <1>1, <1>3 DEF LogTypes
<1>7. LogLock'
  BY <1>0, <1>1 DEF LogLock
<1>8. LogPrefix'
  BY <1>0, <1>1, <1>3 DEF LogPrefix
<1>9. NotesInOrder'
  <2>1. \A v \in Writers : Done(v)' = Done(v)
    BY <1>0, <1>1 DEF Done
  <2>2. \A i \in 1 .. L : added[i][1] \in Writers
    BY <1>0, NoteFacts
  <2> QED
    BY <2>1, <2>2, <1>1 DEF NotesInOrder
<1>10. ListSpells'
  <2>1. CASE Taken = L
    <3>1. head' = Mine(w) /\ next' = next /\ tail = Null
      BY <2>1, <1>5 DEF Link, ListSpells
    <3> QED
      BY <3>1, <2>1, <1>0, <1>1, <1>2, <1>3, <1>4 DEF ListSpells
  <2>2. CASE Taken # L
    <3>1. /\ Taken < L /\ L \in 1 .. L /\ tail = added[L] /\ head' = head
          /\ next' = [n \in Notes |-> IF n = added[L] THEN Mine(w) ELSE next[n]]
      BY <2>2, <1>0, <1>5 DEF Link, ListSpells
    <3>2. \A i \in Taken + 1 .. L - 1 : i \in 1 .. L /\ i # L
      BY <1>0
    <3>3. \A i \in Taken + 1 .. L - 1 : added[i] # added[L]
      BY <3>1, <3>2 DEF NotesInOrder
    <3>4. \A i \in Taken + 1 .. L - 1 : next'[added[i]] = added[i + 1]
      BY <3>1, <3>2, <3>3, <1>0 DEF ListSpells
    <3>5. next'[added[L]] = Mine(w)
      BY <3>1, <1>0
    <3> QED
      BY <2>2, <3>1, <3>4, <3>5, <1>1, <1>2, <1>3, <1>4 DEF ListSpells
  <2> QED
    BY <2>1, <2>2
<1> QED
  BY <1>6, <1>7, <1>8, <1>9, <1>10

\* addCLogWrite moves the tail and unlocks: the note is the next one of its thread.
LEMMA LogTailStep ==
  ASSUME LInv, NEW w \in Writers, SetTail(w)
  PROVE  LInv'
<1> USE LogThreadsAssumption, QuotaAssumption DEF LInv
<1> DEFINE L == Len(added)
<1> DEFINE e == Mine(w)
<1> DEFINE more == Append(added, e)
<1>0. /\ pc \in [Threads -> {"off", "run", "add", "link", "tail", "done",
                             "loop", "look", "sleep", "write"}]
      /\ made \in [Writers -> 0 .. Quota] /\ w \in Threads
      /\ Writers \subseteq Threads /\ Logger \in Threads /\ Logger \notin Writers
      /\ Nobody \notin Threads /\ added \in Seq(Notes) /\ clog \in Seq(Notes)
      /\ L \in Nat /\ Len(clog) \in Nat /\ Taken \in 0 .. L
      /\ \A i \in 1 .. L : added[i] \in Notes /\ added[i] # Null
  BY ElementOfSeq DEF LogTypes, Threads, Writers
<1>1. /\ pc[w] = "tail" /\ pc' = [pc EXCEPT ![w] = "run"] /\ tail' = e /\ owner' = Nobody
      /\ added' = more /\ UNCHANGED <<made, head, next, dowrite, clog>>
  BY DEF SetTail, Goto
<1>2. e \in Notes /\ e[1] = w /\ e[2] = made[w] /\ made[w] >= 1 /\ made[w] \in Nat
  BY <1>0, <1>1 DEF LogTypes, Mine, Notes
<1>3. /\ more \in Seq(Notes) /\ Len(more) = L + 1
      /\ \A i \in 1 .. L : more[i] = added[i]
      /\ more[L + 1] = e
  BY <1>0, <1>2, AppendProperties
<1> HIDE DEF more, e
<1>4. Taken' = Taken
  BY <1>0, <1>1 DEF Taken, Carried
<1>5. \A u \in Writers : (pc[u] = "tail" <=> u = w) /\ pc'[u] # "tail"
  BY <1>0, <1>1 DEF LogLock
<1>6. /\ Done(w) = made[w] - 1 /\ Done(w)' = made[w]
      /\ \A v \in Writers : v # w => Done(v)' = Done(v)
  BY <1>0, <1>1 DEF Done
<1>7. LogTypes'
  BY <1>0, <1>1, <1>3, <1>4 DEF LogTypes
<1>8. LogLock'
  BY <1>0, <1>1 DEF LogLock
<1>9. LogPrefix'
  <2>1. \A i \in 1 .. Len(clog) : i \in 1 .. L
    BY <1>0 DEF Taken, Carried
  <2>2. pc[Logger] = "write" => Taken \in 1 .. L
    BY <1>0 DEF Taken, Carried
  <2> QED
    BY <2>1, <2>2, <1>0, <1>1, <1>3, <1>4 DEF LogPrefix
<1>10. NotesInOrder'
  <2>1. \A i \in 1 .. L : added[i][1] \in Writers /\ added[i][2] \in Nat /\ added[i] # e
    <3> TAKE i \in 1 .. L
    <3>1. added[i][1] \in Writers /\ added[i][2] \in Nat
      BY <1>0, NoteFacts
    <3>2. added[i][2] <= Done(added[i][1])
      BY DEF NotesInOrder
    <3> QED
      BY <3>1, <3>2, <1>2, <1>6
  <2>2. \A i \in 1 .. L + 1 : i \in 1 .. L \/ i = L + 1
    BY <1>0
  <2>3. \A i \in 1 .. L : i \in 1 .. L + 1 /\ more[i] = added[i]
    BY <1>0, <1>3
  <2>4. \A i, j \in 1 .. L + 1 : more[i] = more[j] => i = j
    BY <2>1, <2>2, <2>3, <1>3 DEF NotesInOrder
  <2>5. \A i \in 1 .. L + 1 : \A v \in Writers : more[i][1] = v => more[i][2] <= Done(v)'
    <3> TAKE i \in 1 .. L + 1
    <3> TAKE v \in Writers
    <3> HAVE more[i][1] = v
    <3>1. CASE i = L + 1
      BY <3>1, <1>2, <1>3, <1>6
    <3>2. CASE i \in 1 .. L
      <4>1. added[i][2] <= Done(v) /\ added[i][2] \in Nat
        BY <3>2, <2>1, <2>3 DEF NotesInOrder
      <4> QED
        BY <4>1, <3>2, <2>3, <1>2, <1>6
    <3> QED
      BY <3>1, <3>2, <2>2
  <2>6. \A v \in Writers : \A k \in 1 .. Done(v)' : \E i \in 1 .. L + 1 : more[i] = <<v, k>>
    <3> TAKE v \in Writers
    <3> TAKE k \in 1 .. Done(v)'
    <3>1. CASE v = w /\ k = made[w]
      <4>1. e = <<v, k>>
        BY <3>1 DEF e, Mine
      <4> QED
        BY <4>1, <1>0, <1>3
    <3>2. CASE ~(v = w /\ k = made[w])
      <4>1. k \in 1 .. Done(v)
        BY <3>2, <1>2, <1>6
      <4>2. PICK i \in 1 .. L : added[i] = <<v, k>>
        BY <4>1 DEF NotesInOrder
      <4> QED
        BY <4>2, <2>3
    <3> QED
      BY <3>1, <3>2
  <2>7. \A i \in 1 .. L + 1 : \A k \in 1 .. more[i][2] - 1 :
          \E j \in 1 .. i - 1 : more[j] = <<more[i][1], k>>
    <3> TAKE i \in 1 .. L + 1
    <3> TAKE k \in 1 .. more[i][2] - 1
    <3>1. CASE i = L + 1
      <4>1. k \in 1 .. Done(w) /\ more[i][1] = w
        BY <3>1, <1>2, <1>3, <1>6
      <4>2. PICK j \in 1 .. L : added[j] = <<w, k>>
        BY <4>1 DEF NotesInOrder
      <4>3. j \in 1 .. i - 1 /\ more[j] = added[j]
        BY <3>1, <2>3, <1>0
      <4> QED
        BY <4>1, <4>2, <4>3
    <3>2. CASE i \in 1 .. L
      <4>1. more[i] = added[i]
        BY <3>2, <2>3
      <4>2. PICK j \in 1 .. i - 1 : added[j] = <<added[i][1], k>>
        BY <3>2, <4>1 DEF NotesInOrder
      <4>3. j \in 1 .. L
        BY <3>2, <1>0
      <4> QED
        BY <4>1, <4>2, <4>3, <2>3
    <3> QED
      BY <3>1, <3>2, <2>2
  <2>8. \A i \in 1 .. L + 1 : more[i][1] \in Writers
    BY <2>1, <2>2, <2>3, <1>2, <1>3
  <2>9. (\A i \in 1 .. Len(added) : added[i][2] <= Done(added[i][1]))'
    BY <2>5, <2>8, <1>1, <1>3
  <2>10. (\A i, j \in 1 .. Len(added) : added[i] = added[j] => i = j)'
    BY <2>4, <1>1, <1>3
  <2>11. (\A v \in Writers : \A k \in 1 .. Done(v) :
            \E i \in 1 .. Len(added) : added[i] = <<v, k>>)'
    BY <2>6, <1>1, <1>3
  <2>12. (\A i \in 1 .. Len(added) : \A k \in 1 .. added[i][2] - 1 :
            \E j \in 1 .. i - 1 : added[j] = <<added[i][1], k>>)'
    BY <2>7, <1>1, <1>3
  <2> QED
    BY <2>9, <2>10, <2>11, <2>12 DEF NotesInOrder
<1>11. ListSpells'
  <2>1. e = IF Taken = L THEN head ELSE next[added[L]]
    BY <1>1 DEF ListSpells, e
  <2>2. tail' = more[L + 1] /\ Taken < L + 1
    BY <1>0, <1>1, <1>3
  <2>3. head = more[Taken + 1]
    <3>1. CASE Taken = L
      BY <3>1, <2>1, <1>3
    <3>2. CASE Taken # L
      <4>1. Taken < L /\ Taken + 1 \in 1 .. L
        BY <3>2, <1>0
      <4> QED
        BY <4>1, <1>3 DEF ListSpells
    <3> QED
      BY <3>1, <3>2
  <2>4. \A i \in Taken + 1 .. L : next[more[i]] = more[i + 1]
    <3> TAKE i \in Taken + 1 .. L
    <3>1. CASE i = L
      <4>1. Taken # L /\ L \in 1 .. L
        BY <3>1, <1>0
      <4> QED
        BY <4>1, <3>1, <2>1, <1>3
    <3>2. CASE i # L
      <4>1. i \in Taken + 1 .. L - 1 /\ i \in 1 .. L /\ i + 1 \in 1 .. L
        BY <3>2, <1>0
      <4> QED
        BY <4>1, <1>3 DEF ListSpells
    <3> QED
      BY <3>1, <3>2
  <2> QED
    BY <2>2, <2>3, <2>4, <1>0, <1>1, <1>3, <1>4, <1>5 DEF ListSpells
<1> QED
  BY <1>7, <1>8, <1>9, <1>10, <1>11

\* getCLogWrite unlinks the head and unlocks.
LEMMA LogTakeStep ==
  ASSUME LInv, Take
  PROVE  LInv'
<1> USE LogThreadsAssumption, QuotaAssumption DEF LInv
<1> DEFINE L == Len(added)
<1>0. /\ pc \in [Threads -> {"off", "run", "add", "link", "tail", "done",
                             "loop", "look", "sleep", "write"}]
      /\ next \in [Notes -> Notes \cup {Null, Wild}]
      /\ Writers \subseteq Threads /\ Logger \in Threads /\ Logger \notin Writers
      /\ Nobody \notin Threads /\ added \in Seq(Notes) /\ clog \in Seq(Notes)
      /\ L \in Nat /\ Len(clog) \in Nat /\ Taken \in 0 .. L
      /\ \A i \in 1 .. L : added[i] \in Notes /\ added[i] # Null
  BY ElementOfSeq DEF LogTypes, Threads, Writers
<1>1. /\ pc[Logger] = "look" /\ pc' = [pc EXCEPT ![Logger] = "write"] /\ tail # Null
      /\ dowrite' = head /\ owner' = Nobody /\ UNCHANGED <<made, next, added, clog>>
  BY DEF Take, Goto
<1>2. /\ Taken < L /\ tail = added[L] /\ head = added[Taken + 1]
      /\ Taken + 1 \in 1 .. L /\ L \in 1 .. L
  BY <1>0, <1>1 DEF ListSpells
<1>3. Taken = Len(clog) /\ Taken' = Taken + 1
  BY <1>0, <1>1 DEF Taken, Carried
<1>4. \A u \in Writers : pc[u] # "tail" /\ pc'[u] = pc[u]
  BY <1>0, <1>1 DEF LogLock
<1>5. head = tail <=> Taken + 1 = L
  BY <1>2 DEF NotesInOrder
<1>6. LogTypes'
  BY <1>0, <1>1, <1>2, <1>3 DEF LogTypes
<1>7. LogLock'
  BY <1>0, <1>1 DEF LogLock
<1>8. LogPrefix'
  BY <1>0, <1>1, <1>2, <1>3 DEF LogPrefix
<1>9. NotesInOrder'
  <2>1. \A v \in Writers : Done(v)' = Done(v)
    BY <1>1, <1>4 DEF Done
  <2>2. \A i \in 1 .. L : added[i][1] \in Writers
    BY <1>0, NoteFacts
  <2> QED
    BY <2>1, <2>2, <1>1 DEF NotesInOrder
<1>10. ListSpells'
  <2>1. CASE Taken + 1 = L
    <3>1. head' = Null /\ tail' = Null
      BY <2>1, <1>5 DEF Take
    <3>2. ~(Taken + 1 < L) /\ Taken + 1 + 1 .. L - 1 = {}
      BY <2>1, <1>0
    <3> QED
      BY <2>1, <3>1, <3>2, <1>1, <1>3, <1>4 DEF ListSpells
  <2>2. CASE Taken + 1 # L
    <3>1. head' = next[added[Taken + 1]] /\ tail' = tail
      BY <2>2, <1>2, <1>5 DEF Take
    <3>2. /\ Taken + 1 \in Taken + 1 .. L - 1
          /\ \A i \in Taken + 1 + 1 .. L - 1 : i \in Taken + 1 .. L - 1
      BY <2>2, <1>0, <1>2
    <3>3. head' = added[Taken + 1 + 1]
      BY <3>1, <3>2 DEF ListSpells
    <3> QED
      BY <2>2, <3>1, <3>2, <3>3, <1>1, <1>2, <1>3, <1>4 DEF ListSpells
  <2> QED
    BY <2>1, <2>2
<1> QED
  BY <1>6, <1>7, <1>8, <1>9, <1>10

\* writeLogFile appends the line of the note carried.
LEMMA LogWriteStep ==
  ASSUME LInv, writeLogFile
  PROVE  LInv'
<1> USE LogThreadsAssumption, QuotaAssumption DEF LInv, list
<1> DEFINE L == Len(added)
<1>0. /\ pc \in [Threads -> {"off", "run", "add", "link", "tail", "done",
                             "loop", "look", "sleep", "write"}]
      /\ Writers \subseteq Threads /\ Logger \in Threads /\ Logger \notin Writers
      /\ added \in Seq(Notes) /\ clog \in Seq(Notes) /\ Len(clog) \in Nat /\ L \in Nat
      /\ Taken \in 0 .. L
      /\ \A i \in 1 .. L : added[i] \in Notes
  BY ElementOfSeq DEF LogTypes, Threads, Writers
<1>1. /\ pc[Logger] = "write" /\ pc' = [pc EXCEPT ![Logger] = "loop"]
      /\ clog' = Append(clog, dowrite) /\ UNCHANGED <<made, owner, head, tail, next, added, dowrite>>
  BY DEF writeLogFile, Goto
<1>2. Taken = Len(clog) + 1 /\ Taken \in 1 .. L
  BY <1>0, <1>1 DEF Taken, Carried
<1>3. dowrite = added[Taken] /\ dowrite \in Notes
  BY <1>0, <1>1, <1>2 DEF LogPrefix
<1>4. /\ clog' \in Seq(Notes) /\ Len(clog') = Len(clog) + 1
      /\ \A i \in 1 .. Len(clog) : clog'[i] = clog[i]
      /\ clog'[Len(clog) + 1] = dowrite
  BY <1>0, <1>1, <1>3, AppendProperties
<1>5. Taken' = Taken
  BY <1>0, <1>1, <1>2, <1>4 DEF Taken, Carried
<1>6. \A u \in Writers : pc'[u] = pc[u]
  BY <1>0, <1>1
<1>7. LogTypes'
  BY <1>0, <1>1, <1>4, <1>5, <1>6 DEF LogTypes, Writers
<1>8. LogLock'
  BY <1>0, <1>1 DEF LogLock
<1>9. LogPrefix'
  <2>1. \A i \in 1 .. Len(clog) + 1 : i \in 1 .. Len(clog) \/ i = Len(clog) + 1
    BY <1>0
  <2> QED
    BY <2>1, <1>0, <1>1, <1>2, <1>3, <1>4, <1>5 DEF LogPrefix
<1>10. NotesInOrder'
  <2>1. \A v \in Writers : Done(v)' = Done(v)
    BY <1>1, <1>6 DEF Done
  <2>2. \A i \in 1 .. L : added[i][1] \in Writers
    BY <1>0, NoteFacts
  <2> QED
    BY <2>1, <2>2, <1>1 DEF NotesInOrder
<1>11. ListSpells'
  BY <1>1, <1>5, <1>6 DEF ListSpells, Mine
<1> QED
  BY <1>7, <1>8, <1>9, <1>10, <1>11

-----------------------------------------------------------------------------
(***************************************************************************)
(* The theorems.                                                           *)
(***************************************************************************)

\* The invariant holds throughout, for any number of threads and notes.
THEOREM LogInvariance == Spec => []LInv
<1>1. LInv /\ [Next]_vars => LInv'
  <2> SUFFICES ASSUME LInv, [Next]_vars PROVE LInv'
    OBVIOUS
  <2>1. \/ StartThreads \/ GetLock \/ LookEmpty \/ Awake \/ Exit \/ UNCHANGED vars
        \/ \E w \in Writers : CLogNote(w) \/ AddLock(w)
        \/ Take \/ writeLogFile
        \/ \E w \in Writers : Link(w) \/ SetTail(w)
    BY DEF Next, Ended, LoggerStep, WriterStep
  <2> QED
    BY <2>1, LogCalmSteps, LogTakeStep, LogWriteStep, LogLinkStep, LogTailStep
<1> QED
  BY <1>1, LogInit, PTL DEF Spec

\* What Waiting holds, position by position.
LEMMA WaitingFacts ==
  ASSUME LInv
  PROVE  /\ Len(Waiting) = Len(added) - Taken
         /\ \A i \in 1 .. Len(added) - Taken : Waiting[i] = added[Taken + i]
         /\ Waiting = <<>> <=> Taken = Len(added)
         /\ Len(added) \in Nat /\ Taken \in 0 .. Len(added)
<1>1. added \in Seq(Notes) /\ Len(added) \in Nat /\ Taken \in 0 .. Len(added)
  BY DEF LInv, LogTypes
<1>2. \A i \in Taken + 1 .. Len(added) : added[i] \in Notes
  BY <1>1, ElementOfSeq
<1>3. Waiting = SubSeq(added, Taken + 1, Len(added))
  BY DEF Waiting, Taken
<1>4. /\ Waiting \in Seq(Notes) /\ Len(Waiting) = Len(added) - Taken
      /\ \A i \in 1 .. Len(added) - Taken : Waiting[i] = added[Taken + i]
  BY <1>1, <1>2, <1>3, SubSeqProperties
<1>5. Waiting = <<>> <=> Taken = Len(added)
  BY <1>1, <1>4, EmptySeq
<1> QED
  BY <1>1, <1>4, <1>5

\* CLog's pointers spell the notes that wait, and writeLogFile runs without the
\* lock.
THEOREM LogListCorrect == Spec => []LogSpells
<1>1. ASSUME LInv PROVE LogSpells
  <2>1. /\ Len(Waiting) = Len(added) - Taken
        /\ \A i \in 1 .. Len(added) - Taken : Waiting[i] = added[Taken + i]
        /\ Waiting = <<>> <=> Taken = Len(added)
        /\ Len(added) \in Nat /\ Taken \in 0 .. Len(added)
    BY <1>1, WaitingFacts
  <2>2. Waiting # <<>> => /\ Taken < Len(added) /\ Len(Waiting) \in 1 .. Len(added) - Taken
                          /\ Waiting[Len(Waiting)] = added[Len(added)]
                          /\ Waiting[1] = added[Taken + 1]
    BY <2>1
  <2>3. \A i \in 1 .. Len(Waiting) - 1 : next[Waiting[i]] = Waiting[i + 1]
    <3> TAKE i \in 1 .. Len(Waiting) - 1
    <3>1. /\ Taken + i \in Taken + 1 .. Len(added) - 1
          /\ i \in 1 .. Len(added) - Taken /\ i + 1 \in 1 .. Len(added) - Taken
      BY <2>1
    <3>2. next[added[Taken + i]] = added[Taken + i + 1]
      BY <3>1, <1>1 DEF LInv, ListSpells
    <3>3. Taken + i + 1 = Taken + (i + 1)
      BY <2>1
    <3> QED
      BY <3>1, <3>2, <3>3, <2>1
  <2> QED
    BY <2>1, <2>2, <2>3, <1>1 DEF LInv, LogLock, ListSpells, LogSpells
<1> QED
  BY <1>1, LogInvariance, PTL

\* clog.txt never has a gap, wherever the process ends: nobody waits for the log
\* thread, so only the last notes can be missing.
THEOREM LogComplete == Spec => []LogWithoutGaps
<1>1. ASSUME LInv PROVE LogWithoutGaps
  <2>0. /\ added \in Seq(Notes) /\ clog \in Seq(Notes) /\ Len(added) \in Nat /\ Len(clog) \in Nat
        /\ Taken \in 0 .. Len(added) /\ \A i \in 1 .. Len(added) : added[i] \in Notes
    BY <1>1, ElementOfSeq DEF LInv, LogTypes
  <2>1. /\ Carried \in Seq(Notes) /\ Len(Carried) \in {0, 1} /\ Taken = Len(clog) + Len(Carried)
        /\ Len(Carried) = 1 => Carried[1] = added[Taken]
    <3>1. CASE pc[Logger] = "write"
      <4>1. dowrite = added[Taken] /\ Carried = <<dowrite>> /\ Taken = Len(clog) + 1
        BY <3>1, <1>1 DEF LInv, LogPrefix, Carried, Taken
      <4>2. dowrite \in Notes
        BY <4>1, <2>0
      <4> QED
        BY <4>1, <4>2
    <3>2. CASE pc[Logger] # "write"
      BY <3>2, <2>0 DEF Carried, Taken
    <3> QED
      BY <3>1, <3>2
  <2>2. \A i \in 1 .. Len(clog) : i \in 1 .. Len(added) /\ clog[i] = added[i]
    BY <2>0, <2>1, <1>1 DEF LInv, LogPrefix
  <2>3. clog \o Carried = SubSeq(added, 1, Taken)
    <3> DEFINE a == clog \o Carried
    <3> DEFINE b == SubSeq(added, 1, Taken)
    <3>1. /\ a \in Seq(Notes) /\ Len(a) = Taken
          /\ \A i \in 1 .. Taken : a[i] = IF i <= Len(clog) THEN clog[i] ELSE Carried[i - Len(clog)]
      BY <2>0, <2>1, ConcatProperties
    <3>2. b \in Seq(Notes) /\ Len(b) = Taken /\ \A i \in 1 .. Taken : b[i] = added[i]
      BY <2>0, SubSeqProperties
    <3>3. \A i \in 1 .. Taken : a[i] = b[i]
      <4> TAKE i \in 1 .. Taken
      <4>1. CASE i <= Len(clog)
        BY <4>1, <3>1, <3>2, <2>0, <2>2
      <4>2. CASE ~(i <= Len(clog))
        <5>1. Len(Carried) = 0 \/ Len(Carried) = 1
          BY <2>1
        <5>2. Len(Carried) # 0
          BY <4>2, <2>0, <2>1
        <5>3. Len(Carried) = 1 /\ Taken = Len(clog) + 1
          BY <5>1, <5>2, <2>1
        <5>4. i = Taken /\ i - Len(clog) = 1
          BY <5>3, <4>2, <2>0
        <5> QED
          BY <5>3, <5>4, <4>2, <3>1, <3>2, <2>1
      <4> QED
        BY <4>1, <4>2
    <3> HIDE DEF a, b
    <3>4. a = b
      BY <3>1, <3>2, <3>3, SeqEqual
    <3> QED
      BY <3>4 DEF a, b
  <2>4. \A i \in 1 .. Len(clog) : \A k \in 1 .. clog[i][2] - 1 :
          \E j \in 1 .. i - 1 : clog[j] = <<clog[i][1], k>>
    <3> TAKE i \in 1 .. Len(clog)
    <3> TAKE k \in 1 .. clog[i][2] - 1
    <3>1. PICK j \in 1 .. i - 1 : added[j] = <<added[i][1], k>>
      BY <2>2, <1>1 DEF LInv, NotesInOrder
    <3>2. j \in 1 .. Len(clog)
      BY <2>0
    <3> QED
      BY <3>1, <3>2, <2>2
  <2>5. \A i, j \in 1 .. Len(clog) : clog[i] = clog[j] => i = j
    BY <2>2, <1>1 DEF LInv, NotesInOrder
  <2> QED
    BY <2>1, <2>3, <2>4, <2>5 DEF LogWithoutGaps
<1> QED
  BY <1>1, LogInvariance, PTL

=============================================================================
