---------------------------- MODULE MgrJobProof ----------------------------
(***************************************************************************)
(* Proofs about the scheduler, for any number of testcases and workers:    *)
(* that its lists are right and no testcase is lost, in which order the    *)
(* testcases come through, and that it implements module Pipeline.         *)
(***************************************************************************)
EXTENDS MgrJob, SequenceTheorems, FiniteSetTheorems, TLAPS

-----------------------------------------------------------------------------
(***************************************************************************)
(* The inductive invariant.                                                *)
(***************************************************************************)

\* Where each kind of thread can be.  No looper runs while main still adds
\* testcases, and main has constructed the testcases 1 .. arg[Main].
Phases ==
  /\ pc[Main] \in {"new", "add", "link", "tail", "join", "rejoin"}
  /\ pc[Stop] \in {"off", "stdin", "done"}
  /\ \A t \in Loopers : pc[t] \in {"off", "loop", "get", "look", "take", "got", "add",
                                   "link", "tail", "record", "done"}
  /\ \A w \in Workers : pc[w] # "record"
  /\ pc[Main] \notin {"join", "rejoin"} => \A t \in Loopers : pc[t] = "off"
  /\ arg[Main] \in 0 .. NumJobs
  /\ \A j \in live : j <= arg[Main]

\* A thread that works on a testcase has one.
HoldersHold ==
  \A t \in Threads : pc[t] \in {"got", "add", "link", "tail", "record"} => arg[t] \in Jobs

\* Between the look and the take nobody empties the list.
TakersFind == \A t \in Threads : pc[t] = "take" => fifo[GetQ(t)] # <<>>

IInv ==
  /\ TypeOK /\ Phases /\ HoldersHold /\ TakersFind
  /\ MutualExclusion /\ ListsSpellFifo /\ OnePlaceEach /\ StageFitsPlace

-----------------------------------------------------------------------------
(***************************************************************************)
(* Facts about sequences.                                                  *)
(***************************************************************************)

\* What addJob's step does to the history of a list.
LEMMA AppendFacts ==
  ASSUME NEW S, NEW s \in Seq(S), NEW e \in S
  PROVE  /\ Append(s, e) \in Seq(S)
         /\ Append(s, e) # <<>>
         /\ Len(Append(s, e)) = Len(s) + 1
         /\ \A i \in 1 .. Len(s) : Append(s, e)[i] = s[i]
         /\ Append(s, e)[Len(s) + 1] = e
  OBVIOUS

\* What getJob's step does to the history of a list.
LEMMA RestFacts ==
  ASSUME NEW S, NEW s \in Seq(S), s # <<>>
  PROVE  /\ Rest(s) \in Seq(S)
         /\ Len(s) \in Nat /\ Len(s) >= 1
         /\ Len(Rest(s)) = Len(s) - 1
         /\ \A i \in 1 .. Len(s) - 1 : Rest(s)[i] = s[i + 1]
         /\ Rest(s) = <<>> <=> Len(s) = 1
<1>1. Len(s) \in Nat /\ Len(s) >= 1
  BY EmptySeq
<1>2. Rest(s) = Tail(s)
  BY DEF Rest
<1>3. Rest(s) \in Seq(S) /\ Len(Rest(s)) = Len(s) - 1
  BY <1>1, <1>2, HeadTailProperties
<1>4. \A i \in 1 .. Len(s) - 1 : Rest(s)[i] = s[i + 1]
  BY <1>1, <1>2
<1>5. Rest(s) = <<>> <=> Len(s) = 1
  BY <1>1, <1>3, EmptySeq
<1> QED
  BY <1>1, <1>3, <1>4, <1>5

-----------------------------------------------------------------------------
(***************************************************************************)
(* The initial state.                                                      *)
(***************************************************************************)

\* What CMgrJob's constructor sets up satisfies the invariant.
LEMMA InitIInv == Init => IInv
<1> SUFFICES ASSUME Init PROVE IInv
  OBVIOUS
<1> USE NumJobsAssumption, ThreadsAssumption
<1>1. TypeOK
  BY DEF Init, TypeOK, Pointers, Null, Wild, Threads, Loopers, Jobs, Queues, Idle, Busy,
         INIT_STAGE, WRITE_END_STAGE
<1>2. Phases
  BY DEF Init, Phases, Threads, Loopers, Null
<1>3. HoldersHold /\ TakersFind
  BY DEF Init, HoldersHold, TakersFind
<1>4. MutualExclusion
  BY DEF Init, MutualExclusion, Inside, Threads, Loopers
<1>5. ListsSpellFifo
  BY DEF Init, ListsSpellFifo, ListRep, Queues
<1>6. \A t \in Threads : Held(t) = Null
  BY DEF Init, Held
<1>7. OnePlaceEach
  BY <1>6 DEF Init, OnePlaceEach, Queues
<1>8. StageFitsPlace
  BY <1>6 DEF Init, StageFitsPlace, Queues
<1> QED
  BY <1>1, <1>2, <1>3, <1>4, <1>5, <1>7, <1>8 DEF IInv

-----------------------------------------------------------------------------
(***************************************************************************)
(* Steps that only move a thread between idle locations.                   *)
(***************************************************************************)

\* Neither a list nor a testcase changes, and nobody enters or leaves a lock.
LEMMA QuietStep ==
  ASSUME IInv, Phases', UNCHANGED <<arg, lists, cases>>,
         proc' \in {"running", "exited", "aborted"}, loopWorking' \in BOOLEAN,
         pc' \in [Threads -> Idle \cup Busy],
         \A t \in Threads : pc'[t] # pc[t] => pc[t] \in Idle /\ pc'[t] \in Idle
  PROVE  IInv'
<1> USE DEF IInv, lists, cases
<1>1. TypeOK'
  BY DEF TypeOK
<1>2. \A t \in Threads :
        /\ Held(t)' = Held(t)
        /\ \A q \in Queues : Inside(t, q)' <=> Inside(t, q)
        /\ pc'[t] \in Busy \/ pc[t] \in Busy => pc'[t] = pc[t]
  BY DEF TypeOK, Held, Inside, Idle, Busy, GetQ, AddQ
<1>3. HoldersHold'
  BY <1>2 DEF HoldersHold, Busy
<1>4. TakersFind'
  BY <1>2 DEF TakersFind, Busy, GetQ
<1>5. MutualExclusion'
  BY <1>2 DEF MutualExclusion
<1>6. ListsSpellFifo'
  BY <1>2 DEF ListsSpellFifo, ListRep, Busy, AddQ
<1>7. OnePlaceEach'
  BY <1>2 DEF OnePlaceEach
<1>8. StageFitsPlace'
  <2>1. \A t \in Threads : Held(t) # Null => pc'[t] = pc[t]
    BY <1>2 DEF Held, Busy
  <2> QED
    BY <1>2, <2>1 DEF StageFitsPlace, StagesFor
<1> QED
  BY <1>1, <1>3, <1>4, <1>5, <1>6, <1>7, <1>8

\* OnParserOpenfiles starting the threads, joining and returning, StopThread's
\* toggle, the loop conditions and a fatal error.
LEMMA QuietSteps ==
  ASSUME IInv,
         \/ StartThreads \/ Join \/ Rejoin \/ SetLoopWorking
         \/ \E t \in Loopers : Loop(t) \/ Abort(t)
  PROVE  IInv'
<1> USE DEF IInv
<1> USE NumJobsAssumption, ThreadsAssumption
<1>1. CASE StartThreads
  BY <1>1, QuietStep DEF StartThreads, Phases, TypeOK, Idle, Busy, Threads, Loopers, cases
<1>2. CASE Join
  BY <1>2, QuietStep DEF Join, Goto, Phases, TypeOK, Idle, Busy, Threads, Loopers, cases
<1>3. CASE Rejoin
  BY <1>3, QuietStep DEF Rejoin, Phases, TypeOK, Idle, Busy, Threads, Loopers, cases
<1>4. CASE SetLoopWorking
  BY <1>4, QuietStep DEF SetLoopWorking, Goto, Phases, TypeOK, Idle, Busy, Threads, Loopers, cases
<1>5. ASSUME NEW t \in Loopers, Loop(t) PROVE IInv'
  BY <1>5, QuietStep DEF Loop, Goto, Phases, TypeOK, Idle, Busy, Threads, Loopers, cases
<1>6. ASSUME NEW t \in Loopers, Abort(t) PROVE IInv'
  BY <1>6, QuietStep DEF Abort, Phases, TypeOK, cases
<1> QED
  BY <1>1, <1>2, <1>3, <1>4, <1>5, <1>6

-----------------------------------------------------------------------------
(***************************************************************************)
(* Lock, and the look at the tail: the lists' contents stay, and every     *)
(* thread keeps what it holds.                                             *)
(***************************************************************************)

\* Lock in getJob, getIOJob, addJob and addIOJob, and the look at the tail.
LEMMA LockStep ==
  ASSUME IInv, NEW t \in Threads,
         GetLock(t) \/ LookEmpty(t) \/ LookFound(t) \/ AddLock(t),
         t \in Loopers \/ (t = Main /\ AddLock(t))
  PROVE  IInv'
<1> USE NumJobsAssumption, ThreadsAssumption DEF IInv, lists, cases
<1> USE DEF GetLock, LookEmpty, LookFound, AddLock, Goto
<1>0. pc \in [Threads -> Idle \cup Busy] /\ arg \in [Threads -> Pointers]
  BY DEF TypeOK
<1>1. TypeOK'
  <2>1. pc' \in [Threads -> Idle \cup Busy]
    BY <1>0 DEF Idle, Busy
  <2>2. arg' \in [Threads -> Pointers]
    BY <1>0 DEF Pointers
  <2>3. owner' \in [Queues -> Threads \cup {Nobody}]
    BY DEF TypeOK
  <2> QED
    BY <2>1, <2>2, <2>3 DEF TypeOK
<1>2. Phases'
  BY <1>0 DEF Phases, Threads, Loopers, Idle, Busy
<1>3. \A u \in Threads :
        /\ Held(u)' = Held(u)
        /\ pc'[u] = "tail" <=> pc[u] = "tail"
        /\ pc'[u] = "tail" => arg'[u] = arg[u]
        /\ Held(u) # Null => pc'[u] = pc[u] \/ (pc[u] = "add" /\ pc'[u] = "link")
  BY <1>0 DEF Held, Null, Idle, Busy
<1>4. HoldersHold'
  BY <1>0 DEF HoldersHold
<1>5. TakersFind'
  <2>1. ASSUME LookFound(t) PROVE fifo[GetQ(t)] # <<>>
    BY <2>1 DEF ListsSpellFifo, ListRep, GetQ, Queues
  <2> QED
    BY <1>0, <2>1 DEF TakersFind, GetQ
<1>6. MutualExclusion'
  <2>1. owner \in [Queues -> Threads \cup {Nobody}] /\ Nobody \notin Threads
    BY DEF TypeOK, Threads, Loopers
  <2>2. GetQ(t) \in Queues /\ AddQ(t) \in Queues
    BY DEF GetQ, AddQ, Queues
  <2>3. CASE GetLock(t)
    BY <1>0, <2>1, <2>2, <2>3 DEF MutualExclusion, Inside, GetQ, AddQ
  <2>4. CASE LookEmpty(t)
    BY <1>0, <2>1, <2>2, <2>4 DEF MutualExclusion, Inside, GetQ, AddQ
  <2>5. CASE LookFound(t)
    BY <1>0, <2>1, <2>2, <2>5 DEF MutualExclusion, Inside, GetQ, AddQ
  <2>6. CASE AddLock(t)
    BY <1>0, <2>1, <2>2, <2>6 DEF MutualExclusion, Inside, GetQ, AddQ
  <2> QED
    BY <2>3, <2>4, <2>5, <2>6
<1>7. ListsSpellFifo'
  BY <1>3 DEF ListsSpellFifo, ListRep, AddQ
<1>8. OnePlaceEach'
  BY <1>3 DEF OnePlaceEach
<1>9. StageFitsPlace'
  BY <1>3 DEF StageFitsPlace, StagesFor
<1> QED
  BY <1>1, <1>2, <1>4, <1>5, <1>6, <1>7, <1>8, <1>9

-----------------------------------------------------------------------------
(***************************************************************************)
(* addJob and addIOJob: the link, then the tail.                           *)
(***************************************************************************)

\* The lock makes an adder the only thread inside its list, so nothing else
\* hangs on the list's end.
LEMMA OnlyAdder ==
  ASSUME IInv, NEW t \in Threads, pc[t] \in {"link", "tail"}
  PROVE  /\ AddQ(t) \in Queues
         /\ arg[t] \in Jobs
         /\ \A u \in Threads : pc[u] \in {"link", "tail"} /\ AddQ(u) = AddQ(t) => u = t
         /\ \A u \in Threads : pc[u] = "take" /\ GetQ(u) = AddQ(t) => u = t
<1>1. AddQ(t) \in Queues
  BY DEF AddQ, Queues
<1>2. arg[t] \in Jobs
  BY DEF IInv, HoldersHold
<1>3. \A u \in Threads : Inside(u, AddQ(t)) => u = t
  BY <1>1 DEF IInv, MutualExclusion, Inside
<1> QED
  BY <1>1, <1>2, <1>3 DEF Inside

\* addJob and addIOJob hang the testcase on the head pointer or on the tail's link.
LEMMA LinkStep ==
  ASSUME IInv, NEW t \in Threads, Link(t), t \in Loopers \cup {Main}
  PROVE  IInv'
<1> USE NumJobsAssumption, ThreadsAssumption DEF IInv, lists, cases
<1> DEFINE q == AddQ(t)
<1>0. /\ pc \in [Threads -> Idle \cup Busy] /\ arg \in [Threads -> Pointers]
      /\ next \in [Queues -> [Jobs -> Pointers]] /\ head \in [Queues -> Pointers]
      /\ fifo \in [Queues -> Seq(Jobs)]
  BY DEF TypeOK
<1>a. pc[t] = "link" /\ pc' = [pc EXCEPT ![t] = "tail"] /\ arg' = arg
  BY DEF Link, Goto
<1>b. /\ q \in Queues /\ arg[t] \in Jobs
      /\ \A u \in Threads : pc[u] \in {"link", "tail"} /\ AddQ(u) = q => u = t
  BY <1>a, OnlyAdder
<1>1. TypeOK'
  <2>1. pc' \in [Threads -> Idle \cup Busy]
    BY <1>0, <1>a DEF Busy
  <2>2. head' \in [Queues -> Pointers]
    BY <1>0, <1>b DEF Link, Pointers
  <2>3. next' \in [Queues -> [Jobs -> Pointers]]
    <3>1. [j \in Jobs |-> IF j = tail[q] THEN arg[t] ELSE next[q][j]] \in [Jobs -> Pointers]
      BY <1>0, <1>b DEF Pointers
    <3> QED
      BY <3>1, <1>0, <1>b DEF Link
  <2> QED
    BY <2>1, <2>2, <2>3 DEF TypeOK, Link
<1>2. Phases'
  BY <1>0, <1>a DEF Phases, Threads, Loopers, Idle, Busy, Link
<1>3. \A u \in Threads :
        /\ Held(u)' = Held(u)
        /\ Held(u) # Null => pc'[u] = pc[u] \/ (pc[u] = "link" /\ pc'[u] = "tail")
  BY <1>0, <1>a DEF Held
<1>4. HoldersHold'
  BY <1>0, <1>a DEF HoldersHold
<1>5. TakersFind'
  BY <1>0, <1>a DEF TakersFind, GetQ, Link
<1>6. MutualExclusion'
  BY <1>0, <1>a DEF MutualExclusion, Inside, GetQ, AddQ, Link
<1>7. ListsSpellFifo'
  <2> SUFFICES ASSUME NEW r \in Queues PROVE ListRep(r)'
    BY DEF ListsSpellFifo
  <2>0. ListRep(r)
    BY DEF ListsSpellFifo
  <2>1. CASE r # q
    <3>1. head'[r] = head[r] /\ tail'[r] = tail[r] /\ next'[r] = next[r] /\ fifo'[r] = fifo[r]
      BY <1>0, <2>1 DEF Link
    <3>2. \A u \in Threads : AddQ(u) = r => pc'[u] = pc[u] /\ arg'[u] = arg[u]
      BY <1>0, <1>a, <2>1
    <3> QED
      BY <2>0, <3>1, <3>2 DEF ListRep, AddQ
  <2>2. CASE r = q /\ fifo[r] = <<>>
    <3>1. head[q] = Null /\ tail[q] = Null
      BY <2>0, <2>2, <1>a, <1>b DEF ListRep
    <3>2. head'[q] = arg[t] /\ tail' = tail /\ next' = next /\ fifo' = fifo
      BY <3>1, <1>0, <1>b DEF Link
    <3>3. \A u \in Threads : AddQ(u) = q => (pc'[u] = "tail" <=> u = t)
      BY <1>0, <1>a, <1>b
    <3> QED
      BY <2>2, <3>1, <3>2, <3>3, <1>a, <1>b, EmptySeq DEF ListRep, AddQ
  <2>3. CASE r = q /\ fifo[r] # <<>>
    <3> DEFINE s == fifo[q]
    <3>1. Len(s) \in Nat \ {0} /\ \A i \in 1 .. Len(s) : s[i] \in Jobs
      BY <2>3, <1>0, <1>b, EmptySeq, ElementOfSeq
    <3>2. head[q] = s[1] /\ tail[q] = s[Len(s)] /\ head[q] # Null
      BY <2>0, <2>3, <3>1 DEF ListRep, Jobs, Null
    <3>3. /\ head'[q] = head[q] /\ tail' = tail /\ fifo' = fifo
          /\ next'[q] = [j \in Jobs |-> IF j = s[Len(s)] THEN arg[t] ELSE next[q][j]]
      BY <3>2, <1>0, <1>b DEF Link
    <3>4. \A i \in 1 .. Len(s) - 1 : next'[q][s[i]] = s[i + 1]
      <4> TAKE i \in 1 .. Len(s) - 1
      <4>1. i \in 1 .. Len(s) /\ Len(s) \in 1 .. Len(s) /\ i # Len(s)
        BY <3>1
      <4>2. s[i] # s[Len(s)] /\ s[i] \in Jobs
        BY <4>1, <3>1, <1>b DEF OnePlaceEach
      <4>3. next[q][s[i]] = s[i + 1]
        BY <2>0, <2>3 DEF ListRep
      <4> QED
        BY <4>2, <4>3, <3>3
    <3>5. next'[q][s[Len(s)]] = arg[t]
      BY <3>1, <3>3
    <3>6. \A u \in Threads : AddQ(u) = q => (pc'[u] = "tail" <=> u = t)
      BY <1>0, <1>a, <1>b
    <3> QED
      BY <2>3, <3>2, <3>3, <3>4, <3>5, <3>6, <1>a DEF ListRep, AddQ
  <2> QED
    BY <2>1, <2>2, <2>3
<1>8. OnePlaceEach'
  BY <1>3 DEF OnePlaceEach, Link
<1>9. StageFitsPlace'
  BY <1>3 DEF StageFitsPlace, StagesFor, Link
<1> QED
  BY <1>1, <1>2, <1>4, <1>5, <1>6, <1>7, <1>8, <1>9

\* addJob and addIOJob move the tail and unlock.
LEMMA SetTailStep ==
  ASSUME IInv, NEW t \in Threads, SetTail(t), t \in Loopers \cup {Main}
  PROVE  IInv'
<1> USE NumJobsAssumption, ThreadsAssumption DEF IInv, lists, cases
<1> DEFINE q == AddQ(t)
<1> DEFINE s == fifo[q]
<1>0. /\ pc \in [Threads -> Idle \cup Busy] /\ arg \in [Threads -> Pointers]
      /\ tail \in [Queues -> Pointers] /\ fifo \in [Queues -> Seq(Jobs)]
      /\ owner \in [Queues -> Threads \cup {Nobody}] /\ Nobody \notin Threads
  BY DEF TypeOK, Threads, Loopers
<1>a. /\ pc[t] = "tail" /\ arg' = arg
      /\ pc' = [pc EXCEPT ![t] = IF t = Main THEN "new" ELSE "loop"]
  BY DEF SetTail, Goto
<1>b. /\ q \in Queues /\ arg[t] \in Jobs
      /\ \A u \in Threads : pc[u] \in {"link", "tail"} /\ AddQ(u) = q => u = t
  BY <1>a, OnlyAdder
<1>c. /\ fifo' = [fifo EXCEPT ![q] = Append(s, arg[t])]
      /\ Append(s, arg[t]) \in Seq(Jobs) /\ Append(s, arg[t]) # <<>>
      /\ Len(s) \in Nat /\ Len(Append(s, arg[t])) = Len(s) + 1
      /\ \A i \in 1 .. Len(s) : Append(s, arg[t])[i] = s[i]
      /\ Append(s, arg[t])[Len(s) + 1] = arg[t]
  BY <1>0, <1>b, AppendFacts DEF SetTail
<1>1. TypeOK'
  <2>1. pc' \in [Threads -> Idle \cup Busy]
    BY <1>0, <1>a DEF Idle
  <2>2. tail' \in [Queues -> Pointers]
    BY <1>0, <1>b DEF SetTail, Pointers
  <2>3. owner' \in [Queues -> Threads \cup {Nobody}]
    BY <1>0 DEF SetTail
  <2>4. fifo' \in [Queues -> Seq(Jobs)]
    BY <1>0, <1>c
  <2> QED
    BY <2>1, <2>2, <2>3, <2>4 DEF TypeOK, SetTail
<1>2. Phases'
  BY <1>0, <1>a DEF Phases, Threads, Loopers, Idle, Busy, SetTail
<1>3. \A u \in Threads :
        /\ Held(u)' = IF u = t THEN Null ELSE Held(u)
        /\ u # t => pc'[u] = pc[u]
  BY <1>0, <1>a DEF Held
<1>4. HoldersHold'
  BY <1>0, <1>a DEF HoldersHold
<1>5. TakersFind'
  BY <1>0, <1>a, <1>c DEF TakersFind, GetQ
<1>6. MutualExclusion'
  BY <1>0, <1>a, <1>b DEF MutualExclusion, Inside, GetQ, AddQ, SetTail
<1>7. ListsSpellFifo'
  <2> SUFFICES ASSUME NEW r \in Queues PROVE ListRep(r)'
    BY DEF ListsSpellFifo
  <2>0. ListRep(r)
    BY DEF ListsSpellFifo
  <2>1. CASE r # q
    <3>1. head'[r] = head[r] /\ tail'[r] = tail[r] /\ next'[r] = next[r] /\ fifo'[r] = fifo[r]
      BY <1>0, <2>1 DEF SetTail
    <3>2. \A u \in Threads : AddQ(u) = r => pc'[u] = pc[u] /\ arg'[u] = arg[u]
      BY <1>0, <1>a, <2>1
    <3> QED
      BY <2>0, <3>1, <3>2 DEF ListRep, AddQ
  <2>2. CASE r = q
    <3> DEFINE s1 == Append(s, arg[t])
    <3> HIDE DEF s1
    <3>0. /\ s1 # <<>> /\ Len(s) \in Nat /\ Len(s1) = Len(s) + 1 /\ s1[Len(s) + 1] = arg[t]
          /\ \A i \in 1 .. Len(s) : s1[i] = s[i]
      BY <1>c DEF s1
    <3>1. /\ head' = head /\ next' = next
          /\ tail'[q] = arg[t] /\ fifo'[q] = s1
      BY <1>0, <1>b, <1>c DEF SetTail, s1
    <3>2. \A u \in Threads : AddQ(u) = q => pc'[u] # "tail"
      BY <1>0, <1>a, <1>b
    <3>3. head[q] = s1[1]
      <4>1. CASE s = <<>>
        BY <4>1, <1>a, <2>0, <2>2, <3>0, EmptySeq DEF ListRep
      <4>2. CASE s # <<>>
        <5>1. Len(s) \in Nat \ {0}
          BY <4>2, <1>0, <1>b, EmptySeq
        <5> QED
          BY <5>1, <4>2, <2>0, <2>2, <3>0 DEF ListRep
      <4> QED
        BY <4>1, <4>2
    <3>4. \A i \in 1 .. Len(s1) - 1 : next[q][s1[i]] = s1[i + 1]
      <4> TAKE i \in 1 .. Len(s1) - 1
      <4>0. i \in 1 .. Len(s) /\ s # <<>>
        BY <3>0, EmptySeq
      <4>1. CASE i = Len(s)
        BY <4>0, <4>1, <1>a, <2>0, <2>2, <3>0 DEF ListRep
      <4>2. CASE i # Len(s)
        <5>1. i \in 1 .. Len(s) - 1 /\ i + 1 \in 1 .. Len(s)
          BY <4>0, <4>2, <3>0
        <5> QED
          BY <5>1, <4>0, <2>0, <2>2, <3>0 DEF ListRep
      <4> QED
        BY <4>1, <4>2
    <3> QED
      BY <2>2, <3>0, <3>1, <3>2, <3>3, <3>4 DEF ListRep, AddQ
  <2> QED
    BY <2>1, <2>2
<1>b2. Held(t) = arg[t] /\ Held(t) # Null
  BY <1>a, <1>b DEF Held, Jobs, Null
<1>d. \A r \in Queues : \A i \in 1 .. Len(fifo'[r]) :
         \/ r = q /\ i = Len(s) + 1 /\ fifo'[r][i] = arg[t]
         \/ i \in 1 .. Len(fifo[r]) /\ fifo'[r][i] = fifo[r][i]
  BY <1>0, <1>b, <1>c
<1>e. \A r \in Queues : \A i \in 1 .. Len(fifo[r]) :
         i \in 1 .. Len(fifo'[r]) /\ fifo'[r][i] = fifo[r][i]
  BY <1>0, <1>b, <1>c
<1>f. Len(s) + 1 \in 1 .. Len(fifo'[q]) /\ fifo'[q][Len(s) + 1] = arg[t]
  BY <1>0, <1>b, <1>c
<1>8. OnePlaceEach'
  <2>1. (\A r1, r2 \in Queues : \A i \in 1 .. Len(fifo[r1]), k \in 1 .. Len(fifo[r2]) :
           fifo[r1][i] = fifo[r2][k] => r1 = r2 /\ i = k)'
    <3>1. /\ \A r \in Queues : \A i \in 1 .. Len(fifo[r]) : fifo[r][i] # arg[t]
          /\ \A r1, r2 \in Queues : \A i \in 1 .. Len(fifo[r1]), k \in 1 .. Len(fifo[r2]) :
               fifo[r1][i] = fifo[r2][k] => r1 = r2 /\ i = k
      BY <1>b2 DEF OnePlaceEach
    <3> SUFFICES ASSUME NEW r1 \in Queues, NEW r2 \in Queues,
                        NEW i \in 1 .. Len(fifo'[r1]), NEW k \in 1 .. Len(fifo'[r2]),
                        fifo'[r1][i] = fifo'[r2][k]
                 PROVE  r1 = r2 /\ i = k
      OBVIOUS
    <3> QED
      BY <3>1, <1>d
  <2>2. (\A u \in Threads : Held(u) # Null =>
           /\ Held(u) \in live
           /\ \A v \in Threads : Held(v) = Held(u) => v = u
           /\ \A r \in Queues : \A i \in 1 .. Len(fifo[r]) : fifo[r][i] # Held(u))'
    BY <1>b2, <1>3, <1>d DEF OnePlaceEach, SetTail
  <2>3. (\A r \in Queues : \A i \in 1 .. Len(fifo[r]) : fifo[r][i] \in live)'
    BY <1>b2, <1>d DEF OnePlaceEach, SetTail
  <2>4. (\A j \in live : \/ \E u \in Threads : Held(u) = j
                         \/ \E r \in Queues : \E i \in 1 .. Len(fifo[r]) : fifo[r][i] = j)'
    BY <1>b, <1>b2, <1>3, <1>e, <1>f DEF OnePlaceEach, SetTail
  <2> QED
    BY <2>1, <2>2, <2>3, <2>4 DEF OnePlaceEach
<1>9. StageFitsPlace'
  <2>1. stage' = stage
    BY DEF SetTail
  <2>2. stage[arg[t]] \in (IF q = "job" THEN {READ_END_STAGE} ELSE {INIT_STAGE, MODEL_END_STAGE})
    BY <1>a, <1>b2 DEF StageFitsPlace, StagesFor, AddQ, Threads, Loopers
  <2>3. (\A i \in 1 .. Len(fifo["job"]) : stage[fifo["job"][i]] = READ_END_STAGE)'
    BY <2>1, <2>2, <1>d DEF StageFitsPlace, Queues
  <2>4. (\A i \in 1 .. Len(fifo["io"]) : stage[fifo["io"][i]] \in {INIT_STAGE, MODEL_END_STAGE})'
    BY <2>1, <2>2, <1>d DEF StageFitsPlace, Queues
  <2> QED
    BY <2>1, <2>3, <2>4, <1>3 DEF StageFitsPlace, StagesFor
<1> QED
  BY <1>1, <1>2, <1>4, <1>5, <1>6, <1>7, <1>8, <1>9

-----------------------------------------------------------------------------
(***************************************************************************)
(* getJob and getIOJob: the first testcase leaves the list.                *)
(***************************************************************************)

\* getJob and getIOJob unlink the head and unlock.
LEMMA TakeStep ==
  ASSUME IInv, NEW t \in Loopers, Take(t)
  PROVE  IInv'
<1> USE NumJobsAssumption, ThreadsAssumption DEF IInv, lists, cases
<1> DEFINE q == GetQ(t)
<1> DEFINE s == fifo[q]
<1>0. /\ pc \in [Threads -> Idle \cup Busy] /\ arg \in [Threads -> Pointers]
      /\ head \in [Queues -> Pointers] /\ tail \in [Queues -> Pointers]
      /\ next \in [Queues -> [Jobs -> Pointers]] /\ fifo \in [Queues -> Seq(Jobs)]
      /\ owner \in [Queues -> Threads \cup {Nobody}] /\ Nobody \notin Threads
      /\ live \in SUBSET Jobs /\ t \in Threads
  BY DEF TypeOK, Threads, Loopers
<1>a. pc[t] = "take" /\ pc' = [pc EXCEPT ![t] = "got"] /\ arg' = [arg EXCEPT ![t] = head[q]]
  BY DEF Take, Goto
<1>b. /\ q \in Queues /\ s \in Seq(Jobs) /\ s # <<>>
      /\ \A u \in Threads : Inside(u, q) => u = t
  BY <1>0, <1>a DEF GetQ, Queues, TakersFind, MutualExclusion, Inside
<1>c. \A u \in Threads : AddQ(u) = q => pc[u] \notin {"link", "tail"}
  BY <1>0, <1>a, <1>b DEF Inside
<1>d. /\ fifo' = [fifo EXCEPT ![q] = Rest(s)]
      /\ Rest(s) \in Seq(Jobs) /\ Len(s) \in Nat /\ Len(s) >= 1 /\ Len(Rest(s)) = Len(s) - 1
      /\ \A i \in 1 .. Len(s) - 1 : Rest(s)[i] = s[i + 1]
      /\ Rest(s) = <<>> <=> Len(s) = 1
  BY <1>b, RestFacts DEF Take
<1>e. /\ head[q] = s[1] /\ tail[q] = s[Len(s)] /\ s[1] \in Jobs
      /\ \A i \in 1 .. Len(s) - 1 : next[q][s[i]] = s[i + 1]
  BY <1>b, <1>d, ElementOfSeq DEF ListsSpellFifo, ListRep
<1>f. head[q] = tail[q] <=> Len(s) = 1
  BY <1>b, <1>d, <1>e DEF OnePlaceEach
<1>1. TypeOK'
  <2>1. pc' \in [Threads -> Idle \cup Busy]
    BY <1>0, <1>a DEF Busy
  <2>2. arg' \in [Threads -> Pointers]
    BY <1>0, <1>a, <1>b
  <2>3. head' \in [Queues -> Pointers]
    <3>1. NextOf(q, head[q]) \in Pointers /\ Null \in Pointers
      BY <1>0, <1>b, <1>e DEF NextOf, Pointers
    <3> QED
      BY <3>1, <1>0, <1>b DEF Take
  <2>4. tail' \in [Queues -> Pointers]
    BY <1>0, <1>b DEF Take, Pointers
  <2>5. owner' \in [Queues -> Threads \cup {Nobody}]
    BY <1>0 DEF Take
  <2>6. fifo' \in [Queues -> Seq(Jobs)]
    BY <1>0, <1>d
  <2> QED
    BY <2>1, <2>2, <2>3, <2>4, <2>5, <2>6 DEF TypeOK, Take
<1>2. Phases'
  BY <1>0, <1>a DEF Phases, Threads, Loopers, Idle, Busy, Take
<1>3. \A u \in Threads :
        /\ Held(u)' = IF u = t THEN s[1] ELSE Held(u)
        /\ u # t => pc'[u] = pc[u]
  BY <1>0, <1>a, <1>e DEF Held
<1>4. HoldersHold'
  BY <1>0, <1>a, <1>e DEF HoldersHold
<1>5. TakersFind'
  <2> SUFFICES ASSUME NEW u \in Threads, pc'[u] = "take" PROVE fifo'[GetQ(u)] # <<>>
    BY DEF TakersFind, GetQ
  <2>1. u # t /\ pc[u] = "take" /\ GetQ(u) \in Queues
    BY <1>0, <1>a DEF GetQ, Queues
  <2>2. GetQ(u) # q
    BY <2>1, <1>b DEF Inside
  <2> QED
    BY <2>1, <2>2, <1>0, <1>d DEF TakersFind
<1>6. MutualExclusion'
  BY <1>0, <1>a, <1>b DEF MutualExclusion, Inside, GetQ, AddQ, Take
<1>7. ListsSpellFifo'
  <2> SUFFICES ASSUME NEW r \in Queues PROVE ListRep(r)'
    BY DEF ListsSpellFifo
  <2>0. ListRep(r)
    BY DEF ListsSpellFifo
  <2>a. \A u \in Threads : /\ pc'[u] = "tail" <=> pc[u] = "tail"
                           /\ pc'[u] = "tail" => arg'[u] = arg[u]
    BY <1>0, <1>a
  <2>1. CASE r # q
    <3>1. head'[r] = head[r] /\ tail'[r] = tail[r] /\ next'[r] = next[r] /\ fifo'[r] = fifo[r]
      BY <1>0, <2>1 DEF Take
    <3> QED
      BY <2>0, <2>a, <3>1 DEF ListRep, AddQ
  <2>2. CASE r = q /\ Len(s) = 1
    <3>1. head'[q] = Null /\ tail'[q] = Null /\ fifo'[q] = <<>>
      BY <2>2, <1>0, <1>b, <1>d, <1>f DEF Take
    <3> QED
      BY <2>2, <2>a, <3>1, <1>c, EmptySeq DEF ListRep, AddQ
  <2>3. CASE r = q /\ Len(s) # 1
    <3> DEFINE s1 == Rest(s)
    <3> HIDE DEF s1
    <3>0. /\ s1 # <<>> /\ Len(s1) = Len(s) - 1 /\ Len(s) \in Nat /\ Len(s) > 1
          /\ \A i \in 1 .. Len(s) - 1 : s1[i] = s[i + 1]
      BY <2>3, <1>d DEF s1
    <3>1. head'[q] = s[2] /\ tail'[q] = s[Len(s)] /\ next' = next /\ fifo'[q] = s1
      BY <2>3, <3>0, <1>0, <1>b, <1>d, <1>e, <1>f DEF Take, NextOf, s1
    <3>2. s1[1] = s[2] /\ s1[Len(s1)] = s[Len(s)]
      BY <3>0
    <3>3. \A i \in 1 .. Len(s1) - 1 : next[q][s1[i]] = s1[i + 1]
      <4> TAKE i \in 1 .. Len(s1) - 1
      <4>1. i + 1 \in 1 .. Len(s) - 1 /\ i \in 1 .. Len(s) - 1
        BY <3>0
      <4> QED
        BY <4>1, <3>0, <1>e
    <3> QED
      BY <2>3, <2>a, <3>0, <3>1, <3>2, <3>3, <1>c DEF ListRep, AddQ
  <2> QED
    BY <2>1, <2>2, <2>3
<1>g. \A r \in Queues : \A i \in 1 .. Len(fifo'[r]) :
         \/ r # q /\ i \in 1 .. Len(fifo[r]) /\ fifo'[r][i] = fifo[r][i]
         \/ r = q /\ i + 1 \in 1 .. Len(fifo[r]) /\ fifo'[r][i] = fifo[r][i + 1]
  BY <1>0, <1>b, <1>d
<1>h. \A r \in Queues : \A i \in 1 .. Len(fifo[r]) :
         \/ r = q /\ i = 1
         \/ \E k \in 1 .. Len(fifo'[r]) : fifo'[r][k] = fifo[r][i]
  <2> TAKE r \in Queues
  <2> TAKE i \in 1 .. Len(fifo[r])
  <2>1. CASE r # q
    BY <2>1, <1>0, <1>d
  <2>2. CASE r = q /\ i # 1
    <3>1. i - 1 \in 1 .. Len(fifo'[q]) /\ fifo'[q][i - 1] = s[i]
      BY <2>2, <1>0, <1>b, <1>d
    <3> QED
      BY <2>2, <3>1
  <2> QED
    BY <2>1, <2>2
<1>i. 1 \in 1 .. Len(s) /\ s[1] \in live /\ s[1] # Null
  BY <1>b, <1>d, <1>e DEF OnePlaceEach, Jobs, Null
<1>j. \A r \in Queues : \A i \in 1 .. Len(fifo'[r]) : fifo'[r][i] # s[1]
  BY <1>b, <1>g, <1>i DEF OnePlaceEach
<1>8. OnePlaceEach'
  <2>1. (\A r1, r2 \in Queues : \A i \in 1 .. Len(fifo[r1]), k \in 1 .. Len(fifo[r2]) :
           fifo[r1][i] = fifo[r2][k] => r1 = r2 /\ i = k)'
    BY <1>g DEF OnePlaceEach
  <2>2. (\A u \in Threads : Held(u) # Null =>
           /\ Held(u) \in live
           /\ \A v \in Threads : Held(v) = Held(u) => v = u
           /\ \A r \in Queues : \A i \in 1 .. Len(fifo[r]) : fifo[r][i] # Held(u))'
    <3>1. live' = live
      BY DEF Take
    <3>2. \A u \in Threads : Held(u) # s[1]
      BY <1>b, <1>i DEF OnePlaceEach
    <3> QED
      BY <3>1, <3>2, <1>3, <1>g, <1>i, <1>j DEF OnePlaceEach
  <2>3. (\A r \in Queues : \A i \in 1 .. Len(fifo[r]) : fifo[r][i] \in live)'
    BY <1>g DEF OnePlaceEach, Take
  <2>4. (\A j \in live : \/ \E u \in Threads : Held(u) = j
                         \/ \E r \in Queues : \E i \in 1 .. Len(fifo[r]) : fifo[r][i] = j)'
    <3> SUFFICES ASSUME NEW j \in live,
                        \A r \in Queues : \A i \in 1 .. Len(fifo'[r]) : fifo'[r][i] # j
                 PROVE  \E u \in Threads : Held(u)' = j
      BY DEF Take
    <3>1. CASE \E u \in Threads : Held(u) = j
      <4> PICK u \in Threads : Held(u) = j
        BY <3>1
      <4>1. Held(t) = Null /\ j # Null
        BY <1>a, <1>0 DEF Held, Jobs, Null
      <4> QED
        BY <4>1, <1>3
    <3>2. CASE \E r \in Queues : \E i \in 1 .. Len(fifo[r]) : fifo[r][i] = j
      BY <3>2, <1>0, <1>3, <1>h
    <3> QED
      BY <3>1, <3>2 DEF OnePlaceEach
  <2> QED
    BY <2>1, <2>2, <2>3, <2>4 DEF OnePlaceEach
<1>9. StageFitsPlace'
  <2>1. stage' = stage
    BY DEF Take
  <2>2. /\ t \in Workers => stage[s[1]] = READ_END_STAGE
        /\ t = IO => stage[s[1]] \in {INIT_STAGE, MODEL_END_STAGE}
    BY <1>i DEF StageFitsPlace, GetQ
  <2>3. (\A i \in 1 .. Len(fifo["job"]) : stage[fifo["job"][i]] = READ_END_STAGE)'
    BY <2>1, <1>g DEF StageFitsPlace, Queues
  <2>4. (\A i \in 1 .. Len(fifo["io"]) : stage[fifo["io"][i]] \in {INIT_STAGE, MODEL_END_STAGE})'
    BY <2>1, <1>g DEF StageFitsPlace, Queues
  <2>5. pc'[t] = "got" /\ (t \in Workers \/ t = IO)
    BY <1>0, <1>a DEF Loopers
  <2> QED
    BY <2>1, <2>2, <2>3, <2>4, <2>5, <1>3 DEF StageFitsPlace, StagesFor
<1> QED
  BY <1>1, <1>2, <1>4, <1>5, <1>6, <1>7, <1>8, <1>9

-----------------------------------------------------------------------------
(***************************************************************************)
(* The work on a testcase.                                                 *)
(***************************************************************************)

\* The testcase a thread holds is nobody else's and on no list.
LEMMA OwnTestCase ==
  ASSUME IInv, NEW t \in Threads, pc[t] \in {"got", "add", "link", "tail", "record"}
  PROVE  /\ arg[t] \in Jobs /\ arg[t] \in live
         /\ \A u \in Threads : u # t => Held(u) # arg[t]
         /\ \A q \in Queues : \A i \in 1 .. Len(fifo[q]) : fifo[q][i] # arg[t]
<1>1. Held(t) = arg[t] /\ arg[t] \in Jobs /\ arg[t] # Null
  BY NumJobsAssumption DEF IInv, HoldersHold, Held, Jobs, Null
<1> QED
  BY <1>1 DEF IInv, OnePlaceEach

\* doReading, doParsing and the files of doWriting: the testcase stays in the
\* hands of the thread, at the stage the code gives it.
LEMMA StageStep ==
  ASSUME IInv, NEW t \in Loopers, DoParsing(t) \/ DoReading(t) \/ WriteFiles(t)
  PROVE  IInv'
<1> USE NumJobsAssumption, ThreadsAssumption DEF IInv, lists, cases
<1> USE DEF INIT_STAGE, READ_END_STAGE, MODEL_END_STAGE, WRITE_END_STAGE
<1>0. /\ pc \in [Threads -> Idle \cup Busy] /\ arg \in [Threads -> Pointers]
      /\ stage \in [Jobs -> INIT_STAGE .. WRITE_END_STAGE] /\ t \in Threads
      /\ t \in Workers \/ t = IO
  BY DEF TypeOK, Threads, Loopers
<1>a. pc[t] = "got" /\ UNCHANGED <<proc, loopWorking, arg, lists, live, records>>
  BY DEF DoParsing, DoReading, WriteFiles
<1>b. /\ arg[t] \in Jobs
      /\ \A u \in Threads : u # t => Held(u) # arg[t]
      /\ \A q \in Queues : \A i \in 1 .. Len(fifo[q]) : fifo[q][i] # arg[t]
  BY <1>0, <1>a, OwnTestCase
<1>c. /\ t \in Workers => stage[arg[t]] = READ_END_STAGE
      /\ t = IO => stage[arg[t]] \in {INIT_STAGE, MODEL_END_STAGE}
  BY <1>0, <1>a, <1>b DEF StageFitsPlace, StagesFor, Held, Jobs, Null
<1>d. \/ /\ t \in Workers /\ pc' = [pc EXCEPT ![t] = "add"] /\ files' = files
         /\ stage' = [stage EXCEPT ![arg[t]] = MODEL_END_STAGE]
      \/ /\ t = IO /\ pc' = [pc EXCEPT ![t] = "add"] /\ files' = files
         /\ stage' = [stage EXCEPT ![arg[t]] = READ_END_STAGE]
      \/ /\ t = IO /\ pc' = [pc EXCEPT ![t] = "record"] /\ files' = files \cup {arg[t]}
         /\ stage' = stage /\ stage[arg[t]] = MODEL_END_STAGE
  BY <1>b, <1>c DEF DoParsing, DoReading, WriteFiles, StageOf, Goto
<1>1. TypeOK'
  <2>1. pc' \in [Threads -> Idle \cup Busy]
    BY <1>0, <1>d DEF Busy
  <2>2. stage' \in [Jobs -> INIT_STAGE .. WRITE_END_STAGE]
    BY <1>0, <1>d
  <2>3. files' \in SUBSET Jobs
    BY <1>b, <1>d DEF TypeOK
  <2> QED
    BY <2>1, <2>2, <2>3, <1>a DEF TypeOK
<1>2. Phases'
  BY <1>0, <1>a, <1>d DEF Phases, Threads, Loopers, Idle, Busy
<1>3. \A u \in Threads :
        /\ Held(u)' = Held(u)
        /\ u # t => pc'[u] = pc[u]
  BY <1>0, <1>a, <1>d DEF Held
<1>4. HoldersHold'
  BY <1>0, <1>a, <1>d DEF HoldersHold
<1>5. TakersFind'
  BY <1>0, <1>a, <1>d DEF TakersFind, GetQ
<1>6. MutualExclusion'
  BY <1>0, <1>a, <1>d DEF MutualExclusion, Inside, GetQ, AddQ
<1>7. ListsSpellFifo'
  <2>1. \A u \in Threads : pc'[u] = "tail" <=> pc[u] = "tail"
    BY <1>0, <1>a, <1>d
  <2> QED
    BY <2>1, <1>a DEF ListsSpellFifo, ListRep, AddQ
<1>8. OnePlaceEach'
  BY <1>3, <1>a DEF OnePlaceEach
<1>9. StageFitsPlace'
  <2>1. \A j \in Jobs : j # arg[t] => stage'[j] = stage[j]
    BY <1>0, <1>d
  <2>2. \A q \in Queues : \A i \in 1 .. Len(fifo[q]) :
          fifo'[q][i] = fifo[q][i] /\ stage'[fifo[q][i]] = stage[fifo[q][i]]
    BY <2>1, <1>a, <1>b, ElementOfSeq DEF TypeOK
  <2>3. \A u \in Threads : u # t /\ Held(u) # Null => stage'[Held(u)] = stage[Held(u)]
    BY <2>1, <1>b DEF HoldersHold, Held
  <2>4. Held(t) = arg[t] /\ Held(t)' = arg[t]
    BY <1>0, <1>3, <1>a DEF Held
  <2>5. \/ t \in Workers /\ pc'[t] = "add" /\ stage'[arg[t]] = MODEL_END_STAGE
        \/ t = IO /\ pc'[t] = "add" /\ stage'[arg[t]] = READ_END_STAGE
        \/ t = IO /\ pc'[t] = "record" /\ stage'[arg[t]] = MODEL_END_STAGE
    BY <1>0, <1>b, <1>d
  <2>6. (\A i \in 1 .. Len(fifo["job"]) : stage[fifo["job"][i]] = READ_END_STAGE)'
    BY <2>2, <1>a DEF StageFitsPlace, Queues
  <2>7. (\A i \in 1 .. Len(fifo["io"]) : stage[fifo["io"][i]] \in {INIT_STAGE, MODEL_END_STAGE})'
    BY <2>2, <1>a DEF StageFitsPlace, Queues
  <2>8. ASSUME NEW u \in Threads, Held(u)' # Null, u # t
        PROVE  (stage[Held(u)] \in StagesFor(u))'
    BY <2>3, <2>8, <1>3 DEF StageFitsPlace, StagesFor
  <2>9. (stage[Held(t)] \in StagesFor(t))'
    BY <2>4, <2>5 DEF StagesFor
  <2> QED
    BY <2>6, <2>7, <2>8, <2>9 DEF StageFitsPlace
<1> QED
  BY <1>1, <1>2, <1>4, <1>5, <1>6, <1>7, <1>8, <1>9

\* The row of doWriting and the delete: the testcase is gone.
LEMMA WriteRecordStep ==
  ASSUME IInv, NEW t \in Loopers, WriteRecord(t)
  PROVE  IInv'
<1> USE NumJobsAssumption, ThreadsAssumption DEF IInv, lists, cases
<1> USE DEF INIT_STAGE, READ_END_STAGE, MODEL_END_STAGE, WRITE_END_STAGE
<1>0. /\ pc \in [Threads -> Idle \cup Busy] /\ arg \in [Threads -> Pointers]
      /\ stage \in [Jobs -> INIT_STAGE .. WRITE_END_STAGE] /\ t \in Threads
  BY DEF TypeOK, Threads, Loopers
<1>a. /\ pc[t] = "record" /\ pc' = [pc EXCEPT ![t] = "loop"]
      /\ live' = live \ {arg[t]} /\ stage' = [stage EXCEPT ![arg[t]] = WRITE_END_STAGE]
      /\ UNCHANGED <<proc, loopWorking, arg, lists, files>>
  BY DEF WriteRecord, Goto
<1>b. /\ arg[t] \in Jobs
      /\ \A u \in Threads : u # t => Held(u) # arg[t]
      /\ \A q \in Queues : \A i \in 1 .. Len(fifo[q]) : fifo[q][i] # arg[t]
  BY <1>0, <1>a, OwnTestCase
<1>1. TypeOK'
  <2>1. pc' \in [Threads -> Idle \cup Busy]
    BY <1>0, <1>a DEF Idle
  <2>2. stage' \in [Jobs -> INIT_STAGE .. WRITE_END_STAGE]
    <3>1. WRITE_END_STAGE \in INIT_STAGE .. WRITE_END_STAGE
      OBVIOUS
    <3> HIDE DEF INIT_STAGE, WRITE_END_STAGE
    <3> QED
      BY <3>1, <1>0, <1>a
  <2>3. records' \in Seq(Jobs)
    BY <1>b, AppendFacts DEF TypeOK, WriteRecord
  <2> QED
    BY <2>1, <2>2, <2>3, <1>a DEF TypeOK
<1>2. Phases'
  BY <1>0, <1>a DEF Phases, Threads, Loopers, Idle, Busy
<1>3. \A u \in Threads :
        /\ Held(u)' = IF u = t THEN Null ELSE Held(u)
        /\ u # t => pc'[u] = pc[u]
  BY <1>0, <1>a DEF Held
<1>4. HoldersHold'
  BY <1>0, <1>a DEF HoldersHold
<1>5. TakersFind'
  BY <1>0, <1>a DEF TakersFind, GetQ
<1>6. MutualExclusion'
  BY <1>0, <1>a DEF MutualExclusion, Inside, GetQ, AddQ
<1>7. ListsSpellFifo'
  <2>1. \A u \in Threads : pc'[u] = "tail" <=> pc[u] = "tail"
    BY <1>0, <1>a
  <2> QED
    BY <2>1, <1>a DEF ListsSpellFifo, ListRep, AddQ
<1>8. OnePlaceEach'
  <2>1. Held(t) = arg[t]
    BY <1>a DEF Held
  <2> QED
    BY <2>1, <1>3, <1>a, <1>b DEF OnePlaceEach
<1>9. StageFitsPlace'
  <2>1. \A j \in Jobs : j # arg[t] => stage'[j] = stage[j]
    BY <1>0, <1>a
  <2>2. \A q \in Queues : \A i \in 1 .. Len(fifo[q]) :
          fifo'[q][i] = fifo[q][i] /\ stage'[fifo[q][i]] = stage[fifo[q][i]]
    BY <2>1, <1>a, <1>b, ElementOfSeq DEF TypeOK
  <2>3. \A u \in Threads : u # t /\ Held(u) # Null => stage'[Held(u)] = stage[Held(u)]
    BY <2>1, <1>b DEF HoldersHold, Held
  <2>4. (\A i \in 1 .. Len(fifo["job"]) : stage[fifo["job"][i]] = READ_END_STAGE)'
    BY <2>2, <1>a DEF StageFitsPlace, Queues
  <2>5. (\A i \in 1 .. Len(fifo["io"]) : stage[fifo["io"][i]] \in {INIT_STAGE, MODEL_END_STAGE})'
    BY <2>2, <1>a DEF StageFitsPlace, Queues
  <2>6. ASSUME NEW u \in Threads, Held(u)' # Null
        PROVE  (stage[Held(u)] \in StagesFor(u))'
    BY <2>3, <2>6, <1>3 DEF StageFitsPlace, StagesFor
  <2> QED
    BY <2>4, <2>5, <2>6 DEF StageFitsPlace
<1> QED
  BY <1>1, <1>2, <1>4, <1>5, <1>6, <1>7, <1>8, <1>9

\* A testcase is constructed: it is nowhere else yet.
LEMMA NewTestCaseStep ==
  ASSUME IInv, NewTestCase
  PROVE  IInv'
<1> USE NumJobsAssumption, ThreadsAssumption DEF IInv, lists, cases
<1> USE DEF INIT_STAGE, READ_END_STAGE, MODEL_END_STAGE, WRITE_END_STAGE
<1> DEFINE j == arg[Main] + 1
<1>0. /\ pc \in [Threads -> Idle \cup Busy] /\ arg \in [Threads -> Pointers]
      /\ stage \in [Jobs -> INIT_STAGE .. WRITE_END_STAGE] /\ Main \in Threads
      /\ fifo \in [Queues -> Seq(Jobs)]
  BY DEF TypeOK, Threads, Loopers
<1>a. /\ pc[Main] = "new" /\ pc' = [pc EXCEPT ![Main] = "add"]
      /\ arg' = [arg EXCEPT ![Main] = j] /\ live' = live \cup {j}
      /\ stage' = [stage EXCEPT ![j] = INIT_STAGE]
      /\ UNCHANGED <<proc, loopWorking, lists, files, records>>
  BY DEF NewTestCase, Goto
<1>b. arg[Main] \in 0 .. NumJobs /\ j \in Jobs /\ j # Null /\ j \notin live
  BY DEF Phases, NewTestCase, Jobs, Null
<1>c. \A u \in Threads : Held(u) = Null
  BY <1>a DEF Phases, Held, Threads, Loopers
<1>1. TypeOK'
  <2>1. pc' \in [Threads -> Idle \cup Busy]
    BY <1>0, <1>a DEF Busy
  <2>2. arg' \in [Threads -> Pointers]
    BY <1>0, <1>a, <1>b DEF Pointers
  <2>3. stage' \in [Jobs -> INIT_STAGE .. WRITE_END_STAGE]
    <3>1. INIT_STAGE \in INIT_STAGE .. WRITE_END_STAGE
      OBVIOUS
    <3> HIDE DEF INIT_STAGE, WRITE_END_STAGE
    <3> QED
      BY <3>1, <1>0, <1>a
  <2>4. live' \in SUBSET Jobs
    BY <1>a, <1>b DEF TypeOK
  <2> QED
    BY <2>1, <2>2, <2>3, <2>4, <1>a DEF TypeOK
<1>2. Phases'
  <2>1. /\ arg'[Main] = j /\ pc'[Main] = "add" /\ j \in 0 .. NumJobs
        /\ \A u \in Threads : u # Main => pc'[u] = pc[u]
    BY <1>0, <1>a, <1>b DEF Jobs
  <2>2. \A i \in live' : i <= j
    BY <1>a, <1>b DEF Phases, TypeOK, Jobs
  <2> QED
    BY <2>1, <2>2, <1>a DEF Phases, Threads, Loopers
<1>3. \A u \in Threads :
        /\ Held(u)' = IF u = Main THEN j ELSE Null
        /\ u # Main => pc'[u] = pc[u]
  BY <1>0, <1>a, <1>c DEF Held
<1>4. HoldersHold'
  BY <1>0, <1>a, <1>b DEF HoldersHold
<1>5. TakersFind'
  BY <1>0, <1>a DEF TakersFind, GetQ
<1>6. MutualExclusion'
  BY <1>0, <1>a DEF MutualExclusion, Inside, GetQ, AddQ
<1>7. ListsSpellFifo'
  <2>1. \A u \in Threads : pc[u] # "tail" /\ pc'[u] # "tail"
    BY <1>0, <1>a DEF Phases, Threads, Loopers
  <2>2. UNCHANGED <<head, tail, next, fifo>>
    BY <1>a
  <2> QED
    BY <2>1, <2>2 DEF ListsSpellFifo, ListRep
<1>8. OnePlaceEach'
  <2>1. fifo' = fifo /\ \A q \in Queues : \A i \in 1 .. Len(fifo[q]) : fifo[q][i] \in live
    BY <1>a DEF OnePlaceEach
  <2>2. (\A q, r \in Queues : \A i \in 1 .. Len(fifo[q]), k \in 1 .. Len(fifo[r]) :
           fifo[q][i] = fifo[r][k] => q = r /\ i = k)'
    BY <2>1 DEF OnePlaceEach
  <2>3. (\A u \in Threads : Held(u) # Null =>
           /\ Held(u) \in live
           /\ \A v \in Threads : Held(v) = Held(u) => v = u
           /\ \A q \in Queues : \A i \in 1 .. Len(fifo[q]) : fifo[q][i] # Held(u))'
    BY <2>1, <1>3, <1>a, <1>b
  <2>4. (\A q \in Queues : \A i \in 1 .. Len(fifo[q]) : fifo[q][i] \in live)'
    BY <2>1, <1>a
  <2>5. (\A k \in live : \/ \E u \in Threads : Held(u) = k
                         \/ \E q \in Queues : \E i \in 1 .. Len(fifo[q]) : fifo[q][i] = k)'
    <3> SUFFICES ASSUME NEW k \in live', k # j
                 PROVE  \E q \in Queues : \E i \in 1 .. Len(fifo[q]) : fifo[q][i] = k
      BY <2>1, <1>0, <1>3
    <3>1. k \in live /\ k # Null
      BY <1>a DEF TypeOK, Jobs, Null
    <3> QED
      BY <3>1, <1>c DEF OnePlaceEach
  <2> QED
    BY <2>2, <2>3, <2>4, <2>5 DEF OnePlaceEach
<1>9. StageFitsPlace'
  <2>1. \A q \in Queues : \A i \in 1 .. Len(fifo[q]) : fifo[q][i] # j /\ fifo[q][i] \in Jobs
    BY <1>0, <1>b, ElementOfSeq DEF OnePlaceEach
  <2>2. /\ \A i \in 1 .. Len(fifo["job"]) : stage'[fifo["job"][i]] = stage[fifo["job"][i]]
        /\ \A i \in 1 .. Len(fifo["io"]) : stage'[fifo["io"][i]] = stage[fifo["io"][i]]
    BY <2>1, <1>0, <1>a DEF Queues
  <2>3. stage'[j] = INIT_STAGE /\ StagesFor(Main)' = {INIT_STAGE}
    BY <1>0, <1>a, <1>b DEF StagesFor
  <2> QED
    BY <2>2, <2>3, <1>3, <1>a DEF StageFitsPlace
<1> QED
  BY <1>1, <1>2, <1>4, <1>5, <1>6, <1>7, <1>8, <1>9

-----------------------------------------------------------------------------
(***************************************************************************)
(* The theorems.                                                           *)
(***************************************************************************)

\* Every step of the scheduler keeps the inductive invariant.
LEMMA NextIInv == IInv /\ [Next]_vars => IInv'
<1> SUFFICES ASSUME IInv, [Next]_vars PROVE IInv'
  OBVIOUS
<1>1. CASE UNCHANGED vars
  <2>1. Phases'
    BY <1>1 DEF vars, lists, cases, IInv, Phases
  <2>2. UNCHANGED <<arg, lists, cases>> /\ pc' = pc /\ proc' = proc /\ loopWorking' = loopWorking
    BY <1>1 DEF vars
  <2> QED
    BY <2>1, <2>2, QuietStep DEF IInv, TypeOK
<1>2. CASE Next /\ proc = "running"
  <2>1. \/ NewTestCase
        \/ StartThreads \/ Join \/ Rejoin \/ SetLoopWorking
        \/ \E t \in Loopers : Loop(t) \/ Abort(t)
        \/ \E t \in Loopers \cup {Main} : AddLock(t) \/ Link(t) \/ SetTail(t)
        \/ \E t \in Loopers : GetLock(t) \/ LookEmpty(t) \/ LookFound(t) \/ Take(t)
        \/ \E t \in Loopers : DoParsing(t) \/ DoReading(t) \/ WriteFiles(t) \/ WriteRecord(t)
    BY <1>2 DEF Next, Ended, Step, MainStep, LooperStep, ListStep, WorkStep
  <2>2. Loopers \cup {Main} \subseteq Threads
    BY DEF Threads
  <2>3. ASSUME NEW t \in Loopers \cup {Main}, AddLock(t) \/ Link(t) \/ SetTail(t) PROVE IInv'
    BY <2>2, <2>3, LockStep, LinkStep, SetTailStep
  <2>4. ASSUME NEW t \in Loopers, GetLock(t) \/ LookEmpty(t) \/ LookFound(t) \/ Take(t) PROVE IInv'
    BY <2>2, <2>4, LockStep, TakeStep
  <2>5. ASSUME NEW t \in Loopers, DoParsing(t) \/ DoReading(t) \/ WriteFiles(t) \/ WriteRecord(t)
        PROVE  IInv'
    BY <2>5, StageStep, WriteRecordStep
  <2> QED
    BY <2>1, <2>3, <2>4, <2>5, NewTestCaseStep, QuietSteps
<1> QED
  BY <1>1, <1>2 DEF Next, Step, Ended

\* The inductive invariant holds throughout, for any number of testcases and any
\* number of worker threads.
THEOREM Invariance == Spec => []IInv
  BY InitIInv, NextIInv, PTL DEF Spec

\* Every variable keeps its type: no pointer to nothing ever reaches a stage, a
\* row, a list or the set of finished files.
THEOREM TypeCorrect == Spec => []TypeOK
<1>1. IInv => TypeOK
  BY DEF IInv
<1> QED
  BY <1>1, Invariance, PTL

\* CLock around each list operation of CMgrJob keeps threads apart.
THEOREM Exclusion == Spec => []MutualExclusion
<1>1. IInv => MutualExclusion
  BY DEF IInv
<1> QED
  BY <1>1, Invariance, PTL

\* mpHead, mpTail and the links, never cleared and never initialised, always
\* spell the testcases in the order they were added.
THEOREM ListsCorrect == Spec => []ListsSpellFifo
<1>1. IInv => ListsSpellFifo
  BY DEF IInv
<1> QED
  BY <1>1, Invariance, PTL

\* CMgrJob loses no testcase, hands none to two threads and never touches a
\* deleted one.
THEOREM NoLossNoDuplicate == Spec => []OnePlaceEach
<1>1. IInv => OnePlaceEach
  BY DEF IInv
<1> QED
  BY <1>1, Invariance, PTL

\* The stage tests of dwLoopWork and dwLoopIOWork never drop a testcase.
THEOREM NothingDropped == Spec => []StageFitsPlace
<1>1. IInv => StageFitsPlace
  BY DEF IInv
<1> QED
  BY <1>1, Invariance, PTL

-----------------------------------------------------------------------------
(***************************************************************************)
(* The inductive invariant, beside IInv.                                   *)
(***************************************************************************)

\* Testcase j has its row.
Row(j) == \E p \in 1 .. Len(records) : records[p] = j

\* Main makes every testcase before it starts a thread.  The flag is toggled once,
\* nothing ends before, and main returns only from its second wait.
Lifecycle ==
  /\ pc[Main] \in {"join", "rejoin"} => arg[Main] = NumJobs
  /\ pc[Main] \notin {"join", "rejoin"} => pc[Stop] = "off"
  /\ loopWorking <=> pc[Stop] # "done"
  /\ \A t \in Loopers : pc[t] = "done" => ~loopWorking
  /\ pc[Main] = "rejoin" => pc[FirstWorker] = "done"
  /\ proc = "exited" => pc[Main] = "rejoin"

\* A testcase main has made is alive until its row is written; one it has not made
\* is untouched.
Made ==
  \A j \in Jobs : IF j <= arg[Main] THEN j \in live \/ Row(j)
                                    ELSE stage[j] = INIT_STAGE /\ ~Row(j)

\* The files of the testcase whose row is due are complete.
FilesFirst == pc[IO] = "record" => arg[IO] \in files

\* The IO list holds the unread testcases in menu order, and the one the IO
\* thread is about to read is the first unread one.
UnreadInOrder ==
  /\ \A i, k \in 1 .. Len(fifo["io"]) :
       i < k /\ stage[fifo["io"][i]] = INIT_STAGE /\ stage[fifo["io"][k]] = INIT_STAGE =>
         fifo["io"][i] < fifo["io"][k]
  /\ pc[IO] = "got" /\ stage[arg[IO]] = INIT_STAGE =>
       \A i \in 1 .. arg[IO] - 1 : stage[i] # INIT_STAGE

\* The job list is in menu order, and what the IO thread is about to add to it
\* comes after all it holds.
JobListInOrder ==
  /\ \A i, k \in 1 .. Len(fifo["job"]) : i < k => fifo["job"][i] < fifo["job"][k]
  /\ pc[IO] \in {"add", "link", "tail"} =>
       \A i \in 1 .. Len(fifo["job"]) : fifo["job"][i] < arg[IO]

\* Testcase j has not reached a worker.
Waiting(j) == stage[j] \in {INIT_STAGE, READ_END_STAGE} /\ \A w \in Workers : Held(w) # j

\* Workers get the testcases in menu order.
TakenInMenuOrder ==
  \A j \in Jobs : ~Waiting(j) => \A i \in 1 .. j - 1 : ~Waiting(i)

\* The testcases testcase r passes over: they come before it in the menu and have
\* no row, and neither does the IO thread hold them nor the IO list in front of r.
InFront(i, r) ==
  \E k, m \in 1 .. Len(fifo["io"]) : k < m /\ fifo["io"][k] = i /\ fifo["io"][m] = r
Passed(r) == {i \in 1 .. r - 1 : ~Row(i) /\ Held(IO) # i /\ ~InFront(i, r)}

\* A parsed testcase no worker holds any more passes over fewer testcases than
\* there are workers.
FewPassed ==
  \A r \in live : stage[r] = MODEL_END_STAGE /\ (\A w \in Workers : Held(w) # r) =>
    Cardinality(Passed(r)) < Cardinality(Workers)

\* What the steps leave behind, apart from the threads' locations.
Orders ==
  /\ Made /\ FilesFirst /\ OutputConsistent
  /\ UnreadInOrder /\ ReadInMenuOrder
  /\ JobListInOrder /\ TakenInMenuOrder
  /\ FewPassed /\ OvertakingBounded

-----------------------------------------------------------------------------
(***************************************************************************)
(* The initial state, and the threads' locations.                          *)
(***************************************************************************)

\* What CMgrJob's constructor sets up satisfies both parts.
LEMMA InitOrders == Init => Lifecycle /\ Orders
<1> SUFFICES ASSUME Init PROVE Lifecycle /\ Orders
  OBVIOUS
<1> USE NumJobsAssumption, ThreadsAssumption
<1>1. Lifecycle
  BY DEF Init, Lifecycle, Threads, Loopers
<1>2. Len(records) = 0 /\ Len(fifo["io"]) = 0 /\ Len(fifo["job"]) = 0 /\ pc[IO] = "off"
  BY DEF Init, Queues, Threads, Loopers
<1>3. Made /\ FilesFirst /\ OutputConsistent /\ OvertakingBounded
  BY <1>2 DEF Init, Made, Row, FilesFirst, OutputConsistent, OvertakingBounded, Jobs,
              Null, Threads
<1>4. UnreadInOrder /\ JobListInOrder /\ FewPassed
  BY <1>2 DEF Init, UnreadInOrder, JobListInOrder, FewPassed
<1>5. ReadInMenuOrder
  BY DEF Init, ReadInMenuOrder
<1>6. TakenInMenuOrder
  <2>1. \A w \in Workers : Held(w) = Null
    BY DEF Init, Held, Threads, Loopers
  <2> QED
    BY <2>1 DEF Init, TakenInMenuOrder, Waiting, Jobs, Null
<1> QED
  BY <1>1, <1>3, <1>4, <1>5, <1>6 DEF Orders

\* OnParserOpenfiles, StopThread and the loop conditions take the threads through
\* their lives in this order only.
LEMMA LifecycleStep == IInv /\ Lifecycle /\ [Next]_vars => Lifecycle'
<1> SUFFICES ASSUME IInv, Lifecycle, [Next]_vars PROVE Lifecycle'
  OBVIOUS
<1> USE NumJobsAssumption, ThreadsAssumption DEF Lifecycle
<1>0. /\ pc \in [Threads -> Idle \cup Busy] /\ arg \in [Threads -> Pointers] /\ Phases
      /\ Main \in Threads /\ Stop \in Threads /\ Loopers \subseteq Threads
      /\ FirstWorker \in Loopers /\ Main \notin Loopers /\ Stop \notin Loopers /\ Main # Stop
  BY DEF IInv, TypeOK, Threads, Loopers
<1>1. CASE UNCHANGED vars
  BY <1>1 DEF vars
<1>2. CASE NewTestCase
  BY <1>0, <1>2 DEF NewTestCase, Goto
<1>3. CASE StartThreads
  BY <1>0, <1>3 DEF StartThreads, Phases
<1>4. CASE Join
  BY <1>0, <1>4 DEF Join, Goto
<1>5. CASE Rejoin
  BY <1>0, <1>5 DEF Rejoin
<1>6. CASE SetLoopWorking
  BY <1>0, <1>6 DEF SetLoopWorking, Goto
<1>7. ASSUME NEW t \in Loopers, Loop(t) \/ Abort(t) PROVE Lifecycle'
  BY <1>0, <1>7 DEF Loop, Abort, Goto, Phases
<1>8. ASSUME NEW t \in Loopers \cup {Main}, AddLock(t) \/ Link(t) \/ SetTail(t)
      PROVE  Lifecycle'
  BY <1>0, <1>8 DEF AddLock, Link, SetTail, Goto, Phases
<1>9. ASSUME NEW t \in Loopers, GetLock(t) \/ LookEmpty(t) \/ LookFound(t) \/ Take(t)
      PROVE  Lifecycle'
  BY <1>0, <1>9 DEF GetLock, LookEmpty, LookFound, Take, Goto, Phases
<1>10. ASSUME NEW t \in Loopers, DoParsing(t) \/ DoReading(t) \/ WriteFiles(t) \/ WriteRecord(t)
       PROVE  Lifecycle'
  BY <1>0, <1>10 DEF DoParsing, DoReading, WriteFiles, WriteRecord, Goto, Phases
<1> QED
  BY <1>1, <1>2, <1>3, <1>4, <1>5, <1>6, <1>7, <1>8, <1>9, <1>10
  DEF Next, Ended, Step, MainStep, LooperStep, ListStep, WorkStep

-----------------------------------------------------------------------------
(***************************************************************************)
(* Steps that leave testcases and lists alone.                             *)
(***************************************************************************)

\* What a step that leaves the testcases themselves alone keeps.
LEMMA CasesKept ==
  ASSUME Orders, UNCHANGED <<stage, live, files, records>>, arg'[Main] = arg[Main],
         pc'[IO] = "record" <=> pc[IO] = "record",
         pc[IO] = "record" => arg'[IO] = arg[IO]
  PROVE  Made' /\ FilesFirst' /\ OutputConsistent' /\ ReadInMenuOrder' /\ OvertakingBounded'
<1>1. Made'
  BY DEF Orders, Made, Row
<1>2. FilesFirst' /\ OutputConsistent'
  BY DEF Orders, FilesFirst, OutputConsistent
<1>3. ReadInMenuOrder' /\ OvertakingBounded'
  BY DEF Orders, ReadInMenuOrder, OvertakingBounded
<1> QED
  BY <1>1, <1>2, <1>3

\* Nobody takes, hands on or works on a testcase.
LEMMA CalmStep ==
  ASSUME Orders, UNCHANGED <<fifo, cases>>, arg'[Main] = arg[Main],
         \A t \in Workers : Held(t)' = Held(t),
         Held(IO)' = Held(IO),
         pc'[IO] = "got" <=> pc[IO] = "got",
         pc'[IO] = "record" <=> pc[IO] = "record",
         pc'[IO] \in {"add", "link", "tail"} <=> pc[IO] \in {"add", "link", "tail"},
         pc[IO] \in {"got", "add", "link", "tail", "record"} => arg'[IO] = arg[IO]
  PROVE  Orders'
<1> USE DEF Orders, cases
<1>1. Made' /\ FilesFirst' /\ OutputConsistent' /\ ReadInMenuOrder' /\ OvertakingBounded'
  BY CasesKept
<1>2. UnreadInOrder' /\ JobListInOrder'
  BY DEF UnreadInOrder, JobListInOrder
<1>4. TakenInMenuOrder'
  BY DEF TakenInMenuOrder, Waiting
<1>5. \A r : Passed(r)' = Passed(r)
  BY DEF Passed, Row, InFront
<1>6. FewPassed'
  BY <1>5 DEF FewPassed
<1> QED
  BY <1>1, <1>2, <1>4, <1>6

\* Starting, joining and stopping threads, the loop conditions, Lock, the look at
\* the tail and the link.
LEMMA CalmSteps ==
  ASSUME IInv, Orders,
         \/ StartThreads \/ Join \/ Rejoin \/ SetLoopWorking \/ UNCHANGED vars
         \/ \E t \in Loopers : Loop(t) \/ Abort(t) \/ GetLock(t) \/ LookEmpty(t) \/ LookFound(t)
         \/ \E t \in Loopers \cup {Main} : AddLock(t) \/ Link(t)
  PROVE  Orders'
<1> USE ThreadsAssumption DEF lists
<1>0. /\ pc \in [Threads -> Idle \cup Busy] /\ arg \in [Threads -> Pointers] /\ Phases
      /\ IO \in Threads /\ Main \in Threads /\ Workers \subseteq Threads
      /\ Loopers \subseteq Threads /\ Main \notin Loopers
  BY DEF IInv, TypeOK, Threads, Loopers
<1>1. CASE UNCHANGED vars
  BY <1>1, CalmStep DEF vars, Held
<1>2. CASE StartThreads
  BY <1>0, <1>2, CalmStep DEF StartThreads, Held, Phases, Loopers
<1>3. CASE Join \/ Rejoin \/ SetLoopWorking
  BY <1>0, <1>3, CalmStep DEF Join, Rejoin, SetLoopWorking, Goto, Held, Phases, Loopers
<1>4. ASSUME NEW t \in Loopers,
             Loop(t) \/ Abort(t) \/ GetLock(t) \/ LookEmpty(t) \/ LookFound(t)
      PROVE  Orders'
  BY <1>0, <1>4, CalmStep
  DEF Loop, Abort, GetLock, LookEmpty, LookFound, Goto, Held, Phases, Loopers, cases
<1>5. ASSUME NEW t \in Loopers \cup {Main}, AddLock(t) \/ Link(t) PROVE Orders'
  BY <1>0, <1>5, CalmStep DEF AddLock, Link, Goto, Held, Loopers, cases
<1> QED
  BY <1>1, <1>2, <1>3, <1>4, <1>5

-----------------------------------------------------------------------------
(***************************************************************************)
(* Making a testcase, and the work on one.                                 *)
(***************************************************************************)

\* A testcase is constructed: it was untouched, so no order is disturbed.
LEMMA NewOrders ==
  ASSUME IInv, Lifecycle, Orders, NewTestCase
  PROVE  Orders'
<1> USE NumJobsAssumption, ThreadsAssumption DEF Orders, lists
<1> DEFINE j == arg[Main] + 1
<1>0. /\ arg \in [Threads -> Pointers] /\ stage \in [Jobs -> INIT_STAGE .. WRITE_END_STAGE]
      /\ pc \in [Threads -> Idle \cup Busy]
      /\ Main \in Threads /\ IO \in Threads /\ Workers \subseteq Threads /\ live \subseteq Jobs
      /\ Main # IO /\ Main \notin Workers
  BY DEF IInv, TypeOK, Threads, Loopers
<1>1. arg[Main] \in 0 .. NumJobs /\ j \in Jobs /\ ~(j <= arg[Main])
  BY DEF IInv, Phases, NewTestCase, Jobs
<1>2. stage[j] = INIT_STAGE /\ ~Row(j)
  BY <1>1 DEF Made
<1>3. /\ stage' = stage /\ live' = live \cup {j} /\ arg'[Main] = j
      /\ UNCHANGED <<files, records, fifo>>
      /\ \A t \in Threads : t # Main => arg'[t] = arg[t] /\ pc'[t] = pc[t]
  BY <1>0, <1>1, <1>2 DEF NewTestCase, Goto
<1>4. (\A w \in Workers : Held(w)' = Held(w)) /\ Held(IO)' = Held(IO)
  BY <1>0, <1>3 DEF Held
<1>5. Made'
  BY <1>1, <1>3 DEF Made, Row, Jobs
<1>6. OutputConsistent'
  BY <1>0, <1>2, <1>3 DEF OutputConsistent, Row
<1>7. FilesFirst' /\ UnreadInOrder' /\ JobListInOrder' /\ ReadInMenuOrder' /\ OvertakingBounded'
  BY <1>0, <1>3 DEF FilesFirst, UnreadInOrder, JobListInOrder, ReadInMenuOrder, OvertakingBounded
<1>8. TakenInMenuOrder'
  BY <1>3, <1>4 DEF TakenInMenuOrder, Waiting
<1>9. FewPassed'
  <2>1. \A r : Passed(r)' = Passed(r)
    BY <1>3, <1>4 DEF Passed, Row, InFront
  <2>2. stage[j] # MODEL_END_STAGE
    BY <1>2 DEF INIT_STAGE, MODEL_END_STAGE
  <2> QED
    BY <2>1, <2>2, <1>3, <1>4 DEF FewPassed
<1> QED
  BY <1>5, <1>6, <1>7, <1>8, <1>9

\* doParsing: a testcase that was with a worker stays there, past reading.
LEMMA ParsingOrders ==
  ASSUME IInv, Orders, NEW t \in Loopers, DoParsing(t)
  PROVE  Orders'
<1> USE NumJobsAssumption, ThreadsAssumption DEF Orders, lists
<1> USE DEF INIT_STAGE, READ_END_STAGE, MODEL_END_STAGE, WRITE_END_STAGE
<1> DEFINE j == arg[t]
<1>0. /\ pc \in [Threads -> Idle \cup Busy] /\ t \in Threads /\ t \in Workers /\ t # IO
      /\ IO \in Threads /\ Workers \subseteq Threads /\ live \subseteq Jobs
      /\ stage \in [Jobs -> INIT_STAGE .. WRITE_END_STAGE] /\ records \in Seq(Jobs)
      /\ fifo["io"] \in Seq(Jobs) /\ pc[t] = "got"
  BY DEF IInv, TypeOK, Threads, Loopers, Queues, DoParsing
<1>1. /\ j \in Jobs /\ j \in live /\ Held(t) = j
      /\ \A i \in 1 .. Len(fifo["io"]) : fifo["io"][i] # j
      /\ \A u \in Threads : u # t => Held(u) # j
  BY <1>0, OwnTestCase DEF Held, Queues
<1>2. stage[j] = READ_END_STAGE
  BY <1>0, <1>1 DEF IInv, StageFitsPlace, StagesFor, Held, Jobs, Null
<1>3. /\ UNCHANGED <<arg, fifo, live, files, records>> /\ pc'[IO] = pc[IO]
      /\ stage' = [stage EXCEPT ![j] = MODEL_END_STAGE] /\ pc' = [pc EXCEPT ![t] = "add"]
  BY <1>0, <1>1, <1>2 DEF DoParsing, StageOf, Goto
<1>4. /\ \A u \in Threads : Held(u)' = Held(u)
      /\ \A i \in Jobs : i # j => stage'[i] = stage[i]
      /\ stage'[j] = MODEL_END_STAGE
      /\ \A i \in Jobs : stage'[i] = INIT_STAGE <=> stage[i] = INIT_STAGE
  BY <1>0, <1>1, <1>2, <1>3 DEF Held
<1>5. Made' /\ FilesFirst' /\ OvertakingBounded' /\ JobListInOrder'
  <2>1. Made'
    BY <1>3, <1>4 DEF Made, Row
  <2> QED
    BY <2>1, <1>3 DEF FilesFirst, OvertakingBounded, JobListInOrder
<1>6. OutputConsistent'
  <2>1. \A p \in 1 .. Len(records) : records[p] \in Jobs /\ records[p] # j
    BY <1>0, <1>1, ElementOfSeq DEF OutputConsistent
  <2> QED
    BY <2>1, <1>3, <1>4 DEF OutputConsistent
<1>7. UnreadInOrder' /\ ReadInMenuOrder'
  <2>1. \A i \in 1 .. Len(fifo["io"]) : fifo["io"][i] \in Jobs
    BY <1>0, ElementOfSeq
  <2>2. pc[IO] = "got" => arg[IO] \in Jobs
    BY <1>0 DEF IInv, HoldersHold
  <2>3. \A k \in Jobs : \A i \in 1 .. k - 1 : i \in Jobs
    BY DEF Jobs
  <2>4. UnreadInOrder'
    BY <2>1, <2>2, <2>3, <1>3, <1>4 DEF UnreadInOrder
  <2>5. ReadInMenuOrder'
    BY <2>3, <1>4 DEF ReadInMenuOrder
  <2> QED
    BY <2>4, <2>5
<1>8. TakenInMenuOrder'
  <2>1. \A i \in Jobs : Waiting(i)' <=> Waiting(i)
    BY <1>0, <1>1, <1>4 DEF Waiting
  <2>2. \A k \in Jobs : \A i \in 1 .. k - 1 : i \in Jobs
    BY DEF Jobs
  <2> QED
    BY <2>1, <2>2 DEF TakenInMenuOrder
<1>9. FewPassed'
  <2>1. \A r : Passed(r)' = Passed(r)
    BY <1>0, <1>3, <1>4 DEF Passed, Row, InFront
  <2> QED
    BY <2>1, <1>0, <1>1, <1>3, <1>4 DEF FewPassed
<1> QED
  BY <1>5, <1>6, <1>7, <1>8, <1>9

\* doReading: the testcase read is the first unread one, and comes after all on
\* the job list.
LEMMA ReadingOrders ==
  ASSUME IInv, Orders, NEW t \in Loopers, DoReading(t)
  PROVE  Orders'
<1> USE NumJobsAssumption, ThreadsAssumption DEF Orders, lists
<1> USE DEF INIT_STAGE, READ_END_STAGE, MODEL_END_STAGE, WRITE_END_STAGE
<1> DEFINE j == arg[IO]
<1>0. /\ pc \in [Threads -> Idle \cup Busy] /\ t = IO /\ IO \notin Workers
      /\ IO \in Threads /\ Workers \subseteq Threads /\ live \subseteq Jobs
      /\ stage \in [Jobs -> INIT_STAGE .. WRITE_END_STAGE] /\ records \in Seq(Jobs)
      /\ fifo["io"] \in Seq(Jobs) /\ fifo["job"] \in Seq(Jobs) /\ pc[IO] = "got"
  BY DEF IInv, TypeOK, Threads, Loopers, Queues, DoReading
<1>1. /\ j \in Jobs /\ j \in live /\ Held(IO) = j
      /\ \A i \in 1 .. Len(fifo["io"]) : fifo["io"][i] # j
      /\ \A u \in Threads : u # IO => Held(u) # j
  BY <1>0, OwnTestCase DEF Held, Queues
<1>2. stage[j] = INIT_STAGE
  BY <1>0, <1>1 DEF IInv, StageFitsPlace, StagesFor, Held, Jobs, Null, DoReading, StageOf
<1>3. /\ UNCHANGED <<arg, fifo, live, files, records>> /\ pc'[IO] = "add"
      /\ stage' = [stage EXCEPT ![j] = READ_END_STAGE] /\ pc' = [pc EXCEPT ![IO] = "add"]
  BY <1>0, <1>1, <1>2 DEF DoReading, StageOf, Goto
<1>4. /\ \A u \in Threads : Held(u)' = Held(u)
      /\ \A i \in Jobs : i # j => stage'[i] = stage[i]
      /\ stage'[j] = READ_END_STAGE
  BY <1>0, <1>1, <1>2, <1>3 DEF Held
<1>a. \A k \in Jobs : \A i \in 1 .. k - 1 : i \in Jobs
  BY DEF Jobs
<1>5. Made' /\ FilesFirst' /\ OvertakingBounded'
  <2>1. j <= arg[Main]
    BY <1>1 DEF IInv, Phases
  <2> QED
    BY <2>1, <1>3, <1>4 DEF Made, Row, FilesFirst, OvertakingBounded
<1>6. OutputConsistent'
  <2>1. \A p \in 1 .. Len(records) : records[p] \in Jobs /\ records[p] # j
    BY <1>0, <1>1, ElementOfSeq DEF OutputConsistent
  <2>2. \A p \in 1 .. Len(records) : stage'[records[p]] = stage[records[p]]
    BY <2>1, <1>4
  <2>3. pc[IO] # "record" /\ pc'[IO] # "record"
    BY <1>0, <1>3
  <2> HIDE DEF INIT_STAGE, READ_END_STAGE, MODEL_END_STAGE, WRITE_END_STAGE
  <2> QED
    BY <2>2, <2>3, <1>3 DEF OutputConsistent
<1>7. UnreadInOrder'
  <2>1. \A i \in 1 .. Len(fifo["io"]) : fifo["io"][i] \in Jobs
    BY <1>0, ElementOfSeq
  <2> QED
    BY <2>1, <1>1, <1>3, <1>4 DEF UnreadInOrder
<1>8. ReadInMenuOrder'
  <2>1. \A i \in 1 .. j - 1 : stage[i] # INIT_STAGE
    BY <1>0, <1>2 DEF UnreadInOrder
  <2> QED
    BY <2>1, <1>a, <1>1, <1>4 DEF ReadInMenuOrder
<1>9. JobListInOrder'
  <2>1. ASSUME NEW i \in 1 .. Len(fifo["job"]) PROVE fifo["job"][i] < j
    <3>1. fifo["job"][i] \in Jobs /\ stage[fifo["job"][i]] = READ_END_STAGE
      BY <1>0, ElementOfSeq DEF IInv, StageFitsPlace
    <3>2. j \notin 1 .. fifo["job"][i] - 1
      BY <3>1, <1>2 DEF ReadInMenuOrder
    <3> QED
      BY <3>1, <3>2, <1>1, <1>2 DEF Jobs
  <2> QED
    BY <2>1, <1>3 DEF JobListInOrder
<1>10. TakenInMenuOrder'
  <2>1. \A i \in Jobs : Waiting(i)' <=> Waiting(i)
    BY <1>0, <1>1, <1>2, <1>4 DEF Waiting
  <2> QED
    BY <2>1, <1>a DEF TakenInMenuOrder
<1>11. FewPassed'
  <2>1. \A r : Passed(r)' = Passed(r)
    BY <1>0, <1>3, <1>4 DEF Passed, Row, InFront
  <2> QED
    BY <2>1, <1>0, <1>1, <1>3, <1>4 DEF FewPassed
<1> QED
  BY <1>5, <1>6, <1>7, <1>8, <1>9, <1>10, <1>11

\* doWriting's files: only the set of complete outputs changes.
LEMMA FilesOrders ==
  ASSUME IInv, Orders, NEW t \in Loopers, WriteFiles(t)
  PROVE  Orders'
<1> USE ThreadsAssumption DEF Orders, lists
<1>0. /\ pc \in [Threads -> Idle \cup Busy] /\ t = IO /\ IO \notin Workers
      /\ IO \in Threads /\ Workers \subseteq Threads /\ pc[IO] = "got"
  BY DEF IInv, TypeOK, Threads, Loopers, WriteFiles
<1>1. /\ UNCHANGED <<arg, fifo, live, stage, records>> /\ pc' = [pc EXCEPT ![IO] = "record"]
      /\ files' = files \cup {arg[IO]} /\ pc'[IO] = "record"
  BY <1>0 DEF WriteFiles, Goto
<1>2. \A u \in Threads : Held(u)' = Held(u)
  BY <1>0, <1>1 DEF Held
<1>3. Made' /\ FilesFirst' /\ OvertakingBounded' /\ OutputConsistent'
  BY <1>0, <1>1 DEF Made, Row, FilesFirst, OvertakingBounded, OutputConsistent
<1>4. UnreadInOrder' /\ JobListInOrder' /\ ReadInMenuOrder'
  BY <1>0, <1>1 DEF UnreadInOrder, JobListInOrder, ReadInMenuOrder
<1>5. TakenInMenuOrder'
  BY <1>0, <1>1, <1>2 DEF TakenInMenuOrder, Waiting
<1>6. FewPassed'
  <2>1. \A r : Passed(r)' = Passed(r)
    BY <1>0, <1>1, <1>2 DEF Passed, Row, InFront
  <2> QED
    BY <2>1, <1>0, <1>1, <1>2 DEF FewPassed
<1> QED
  BY <1>3, <1>4, <1>5, <1>6

\* The row of doWriting: it passes over no more testcases than it did on the IO list.
LEMMA RecordOrders ==
  ASSUME IInv, Orders, NEW t \in Loopers, WriteRecord(t)
  PROVE  Orders'
<1> USE NumJobsAssumption, ThreadsAssumption DEF Orders, lists
<1> USE DEF INIT_STAGE, READ_END_STAGE, MODEL_END_STAGE, WRITE_END_STAGE
<1> DEFINE j == arg[IO]
<1> DEFINE rows == Append(records, j)
<1>0. /\ pc \in [Threads -> Idle \cup Busy] /\ t = IO /\ IO \notin Workers
      /\ IO \in Threads /\ Workers \subseteq Threads /\ live \subseteq Jobs
      /\ stage \in [Jobs -> INIT_STAGE .. WRITE_END_STAGE] /\ records \in Seq(Jobs)
      /\ fifo["io"] \in Seq(Jobs) /\ pc[IO] = "record"
  BY DEF IInv, TypeOK, Phases, Threads, Loopers, Queues, WriteRecord
<1>1. /\ j \in Jobs /\ j \in live /\ Held(IO) = j
      /\ \A i \in 1 .. Len(fifo["io"]) : fifo["io"][i] # j
      /\ \A u \in Threads : u # IO => Held(u) # j
  BY <1>0, OwnTestCase DEF Held, Queues
<1>2. stage[j] = MODEL_END_STAGE
  BY <1>0, <1>1 DEF IInv, StageFitsPlace, StagesFor, Held, Jobs, Null
<1>3. /\ UNCHANGED <<arg, fifo, files>> /\ pc' = [pc EXCEPT ![IO] = "loop"] /\ pc'[IO] = "loop"
      /\ stage' = [stage EXCEPT ![j] = WRITE_END_STAGE]
      /\ live' = live \ {j} /\ records' = rows
  BY <1>0 DEF WriteRecord, Goto
<1>4. /\ \A u \in Threads : u # IO => Held(u)' = Held(u)
      /\ Held(IO)' = Null
      /\ \A i \in Jobs : i # j => stage'[i] = stage[i]
      /\ stage'[j] = WRITE_END_STAGE
      /\ \A i \in Jobs : stage'[i] = INIT_STAGE <=> stage[i] = INIT_STAGE
  BY <1>0, <1>1, <1>2, <1>3 DEF Held
<1>r. /\ Len(records) \in Nat /\ Len(rows) = Len(records) + 1
      /\ \A i \in 1 .. Len(records) : rows[i] = records[i] /\ records[i] \in Jobs
      /\ rows[Len(records) + 1] = j
  BY <1>0, <1>1, AppendFacts, ElementOfSeq
<1> HIDE DEF rows
<1>s. /\ \A p \in 1 .. Len(rows) : \/ p \in 1 .. Len(records) /\ rows[p] = records[p]
                                   \/ p = Len(records) + 1 /\ rows[p] = j
      /\ \A p \in 1 .. Len(records) : p \in 1 .. Len(rows) /\ rows[p] = records[p]
      /\ Len(records) + 1 \in 1 .. Len(rows)
  BY <1>r
<1>t. \A i : Row(i)' <=> Row(i) \/ i = j
  BY <1>3, <1>r, <1>s DEF Row
<1>a. \A k \in Jobs : \A i \in 1 .. k - 1 : i \in Jobs
  BY DEF Jobs
<1>5. Made' /\ FilesFirst'
  <2>1. j <= arg[Main]
    BY <1>1 DEF IInv, Phases
  <2> QED
    BY <2>1, <1>3, <1>4, <1>t DEF Made, FilesFirst
<1>6. OutputConsistent'
  <2>1. \A p \in 1 .. Len(records) : records[p] # j
    BY <1>1 DEF OutputConsistent
  <2>2. (\A p, k \in 1 .. Len(records) : records[p] = records[k] => p = k)'
    BY <2>1, <1>3, <1>s DEF OutputConsistent
  <2>3. (\A p \in 1 .. Len(records) :
           records[p] \in files /\ records[p] \notin live /\ stage[records[p]] = WRITE_END_STAGE)'
    BY <2>1, <1>0, <1>3, <1>4, <1>r, <1>s DEF OutputConsistent, FilesFirst
  <2>4. (\A i \in files : \E p \in 1 .. Len(records) : records[p] = i)'
    BY <1>3, <1>r, <1>s DEF OutputConsistent
  <2> QED
    BY <2>2, <2>3, <2>4 DEF OutputConsistent
<1>7. UnreadInOrder' /\ ReadInMenuOrder' /\ JobListInOrder'
  <2>1. \A i \in 1 .. Len(fifo["io"]) : fifo["io"][i] \in Jobs
    BY <1>0, ElementOfSeq
  <2>2. UnreadInOrder'
    BY <2>1, <1>1, <1>3, <1>4 DEF UnreadInOrder
  <2>3. ReadInMenuOrder'
    BY <1>a, <1>4 DEF ReadInMenuOrder
  <2>4. JobListInOrder'
    BY <1>3 DEF JobListInOrder
  <2> QED
    BY <2>2, <2>3, <2>4
<1>8. TakenInMenuOrder'
  <2>1. \A i \in Jobs : Waiting(i)' <=> Waiting(i)
    BY <1>0, <1>1, <1>2, <1>4 DEF Waiting
  <2> QED
    BY <2>1, <1>a DEF TakenInMenuOrder
<1>9. FewPassed'
  <2>1. ASSUME NEW r \in Jobs PROVE Passed(r)' = Passed(r)
    <3>1. \A i \in 1 .. r - 1 : i # Null
      BY DEF Jobs, Null
    <3> QED
      BY <3>1, <1>1, <1>3, <1>4, <1>t DEF Passed, InFront
  <2> QED
    BY <2>1, <1>0, <1>1, <1>3, <1>4 DEF FewPassed
<1>10. OvertakingBounded'
  <2> DEFINE Over(s, p) == {i \in 1 .. s[p] - 1 : \A k \in 1 .. p - 1 : s[k] # i}
  <2>1. ASSUME NEW p \in 1 .. Len(records) PROVE Over(rows, p) = Over(records, p)
    <3>1. rows[p] = records[p] /\ \A k \in 1 .. p - 1 : rows[k] = records[k]
      BY <1>r
    <3> QED
      BY <3>1
  <2>2. Over(rows, Len(records) + 1) = Passed(j)
    <3>1. \A i : (\A k \in 1 .. Len(records) + 1 - 1 : rows[k] # i) <=> ~Row(i)
      BY <1>r DEF Row
    <3>2. \A i \in 1 .. j - 1 : Held(IO) # i /\ ~InFront(i, j)
      BY <1>1 DEF InFront, Jobs
    <3> QED
      BY <3>1, <3>2, <1>r DEF Passed
  <2>3. Cardinality(Passed(j)) < Cardinality(Workers)
    BY <1>0, <1>1, <1>2 DEF FewPassed
  <2>4. \A p \in 1 .. Len(records) : Cardinality(Over(records, p)) < Cardinality(Workers)
    BY DEF OvertakingBounded
  <2>5. \A p \in 1 .. Len(rows) : Cardinality(Over(rows, p)) < Cardinality(Workers)
    <3> HIDE DEF Over
    <3> QED
      BY <2>1, <2>2, <2>3, <2>4, <1>s
  <2> QED
    BY <2>5, <1>3 DEF OvertakingBounded
<1> QED
  BY <1>5, <1>6, <1>7, <1>8, <1>9, <1>10

-----------------------------------------------------------------------------
(***************************************************************************)
(* Counting what a testcase passes over.                                   *)
(***************************************************************************)

\* A testcase that passes over no new one still passes over few.
LEMMA Fewer ==
  ASSUME NEW r \in Jobs, NEW S \in SUBSET (1 .. r - 1), NEW T \in SUBSET S
  PROVE  Cardinality(S) < Cardinality(Workers) => Cardinality(T) < Cardinality(Workers)
<1>1. r \in Int /\ IsFiniteSet(1 .. r - 1)
  BY NumJobsAssumption, FS_Interval DEF Jobs
<1>2. IsFiniteSet(S)
  BY <1>1, FS_Subset
<1>3. /\ Cardinality(S) \in Nat /\ Cardinality(T) \in Nat /\ Cardinality(Workers) \in Nat
      /\ Cardinality(T) <= Cardinality(S)
  BY <1>2, WorkersAssumption, FS_Subset, FS_CardinalityType
<1> QED
  BY <1>3

\* A step keeps FewPassed if it adds nothing to what a parsed testcase passes over.
LEMMA KeepsFewPassed ==
  ASSUME FewPassed, live' \subseteq Jobs,
         \A r \in live' : stage'[r] = MODEL_END_STAGE /\ (\A w \in Workers : Held(w)' # r) =>
           \/ Cardinality(Passed(r)') < Cardinality(Workers)
           \/ /\ r \in live /\ stage[r] = MODEL_END_STAGE /\ \A w \in Workers : Held(w) # r
              /\ Passed(r)' \subseteq Passed(r)
  PROVE  FewPassed'
<1> SUFFICES ASSUME NEW r \in live', r \in live, stage[r] = MODEL_END_STAGE,
                    \A w \in Workers : Held(w) # r, Passed(r)' \subseteq Passed(r)
             PROVE  Cardinality(Passed(r)') < Cardinality(Workers)
  BY DEF FewPassed
<1>1. r \in Jobs /\ Passed(r) \in SUBSET (1 .. r - 1)
  BY DEF Passed
<1>2. Cardinality(Passed(r)) < Cardinality(Workers)
  BY DEF FewPassed
<1> QED
  BY <1>1, <1>2, Fewer

\* Testcases held by different threads are no more than the threads.
LEMMA FewHeld ==
  ASSUME NEW w \in Workers, NEW h, NEW S,
         \A i \in S : \E u \in Workers \ {w} : h[u] = i
  PROVE  Cardinality(S) < Cardinality(Workers)
<1> DEFINE W == Workers \ {w}
<1> DEFINE f == [i \in S |-> CHOOSE u \in W : h[u] = i]
<1>1. f \in [S -> W] /\ \A i \in S : h[f[i]] = i
  OBVIOUS
<1>2. f \in Injection(S, W)
  BY <1>1 DEF Injection, IsInjective
<1>3. IsFiniteSet(W) /\ Cardinality(W) = Cardinality(Workers) - 1 /\ Cardinality(Workers) \in Nat
  BY WorkersAssumption, FS_RemoveElement, FS_CardinalityType
<1>4. IsFiniteSet(S) /\ Cardinality(S) <= Cardinality(W)
  <2> HIDE DEF f, W
  <2> QED
    BY <1>2, <1>3, FS_Injection
<1>5. Cardinality(S) \in Nat
  BY <1>4, FS_CardinalityType
<1> QED
  BY <1>3, <1>4, <1>5

-----------------------------------------------------------------------------
(***************************************************************************)
(* getJob and getIOJob.                                                    *)
(***************************************************************************)

\* What taking the first testcase of a list changes.
LEMMA TakeEffect ==
  ASSUME IInv, NEW t \in Loopers, Take(t)
  PROVE  LET q == GetQ(t)
             s == fifo[q]
         IN  /\ t \in Threads /\ q \in Queues /\ pc[t] = "take" /\ Held(t) = Null
             /\ UNCHANGED <<stage, live, files, records>>
             /\ s \in Seq(Jobs) /\ Len(s) \in Nat /\ Len(s) >= 1
             /\ s[1] \in Jobs /\ s[1] \in live
             /\ Len(fifo'[q]) = Len(s) - 1
             /\ \A i \in 1 .. Len(s) - 1 : fifo'[q][i] = s[i + 1]
             /\ \A r \in Queues : r # q => fifo'[r] = fifo[r]
             /\ pc'[t] = "got" /\ arg'[t] = s[1] /\ Held(t)' = s[1]
             /\ \A u \in Threads : u # t =>
                  pc'[u] = pc[u] /\ arg'[u] = arg[u] /\ Held(u)' = Held(u)
<1> USE ThreadsAssumption DEF IInv, lists, cases
<1> DEFINE q == GetQ(t)
<1> DEFINE s == fifo[q]
<1>0. /\ pc \in [Threads -> Idle \cup Busy] /\ arg \in [Threads -> Pointers]
      /\ fifo \in [Queues -> Seq(Jobs)] /\ t \in Threads /\ q \in Queues
  BY DEF TypeOK, Threads, Loopers, GetQ, Queues
<1>1. /\ pc[t] = "take" /\ pc' = [pc EXCEPT ![t] = "got"] /\ arg' = [arg EXCEPT ![t] = head[q]]
      /\ fifo' = [fifo EXCEPT ![q] = Rest(s)] /\ UNCHANGED <<stage, live, files, records>>
  BY DEF Take, Goto
<1>2. s \in Seq(Jobs) /\ s # <<>>
  BY <1>0, <1>1 DEF TakersFind
<1>3. /\ Len(s) \in Nat /\ Len(s) >= 1 /\ Len(Rest(s)) = Len(s) - 1
      /\ \A i \in 1 .. Len(s) - 1 : Rest(s)[i] = s[i + 1]
  BY <1>2, RestFacts
<1>4. head[q] = s[1] /\ s[1] \in Jobs /\ s[1] \in live
  BY <1>0, <1>2, <1>3, ElementOfSeq DEF ListsSpellFifo, ListRep, OnePlaceEach
<1>5. Held(t) = Null /\ Held(t)' = s[1]
  BY <1>0, <1>1, <1>4 DEF Held
<1>6. \A u \in Threads : u # t => pc'[u] = pc[u] /\ arg'[u] = arg[u] /\ Held(u)' = Held(u)
  BY <1>0, <1>1 DEF Held
<1> QED
  BY <1>0, <1>1, <1>2, <1>3, <1>4, <1>5, <1>6

\* A testcase that is alive and at INIT_STAGE or READ_END_STAGE is where the stages
\* say, once all are made.
LEMMA WhereWaiting ==
  ASSUME IInv, Lifecycle, Orders, pc[Main] \in {"join", "rejoin"}, NEW i \in Jobs, Waiting(i)
  PROVE  /\ i \in live
         /\ stage[i] = INIT_STAGE =>
              Held(IO) = i \/ \E k \in 1 .. Len(fifo["io"]) : fifo["io"][k] = i
         /\ stage[i] = READ_END_STAGE =>
              Held(IO) = i \/ \E k \in 1 .. Len(fifo["job"]) : fifo["job"][k] = i
<1> USE NumJobsAssumption, ThreadsAssumption
<1> USE DEF INIT_STAGE, READ_END_STAGE, MODEL_END_STAGE, WRITE_END_STAGE
<1>1. i \in live
  <2>1. i <= arg[Main]
    BY DEF Lifecycle, Jobs
  <2>2. ~Row(i)
    BY DEF Orders, OutputConsistent, Row, Waiting
  <2> QED
    BY <2>1, <2>2 DEF Orders, Made
<1>2. Held(Main) = Null /\ Held(Stop) = Null /\ i # Null
  BY DEF Held, IInv, Phases, Jobs, Null
<1>3. \/ Held(IO) = i
      \/ \E k \in 1 .. Len(fifo["io"]) : fifo["io"][k] = i
      \/ \E k \in 1 .. Len(fifo["job"]) : fifo["job"][k] = i
  BY <1>1, <1>2 DEF IInv, OnePlaceEach, Threads, Loopers, Queues, Waiting
<1>4. /\ \A k \in 1 .. Len(fifo["io"]) : fifo["io"][k] = i => stage[i] # READ_END_STAGE
      /\ \A k \in 1 .. Len(fifo["job"]) : fifo["job"][k] = i => stage[i] # INIT_STAGE
  BY DEF IInv, StageFitsPlace
<1> QED
  BY <1>1, <1>3, <1>4

\* getIOJob: the first unread testcase of the list is the first unread of all.
LEMMA TakeIOOrders ==
  ASSUME IInv, Lifecycle, Orders, Take(IO)
  PROVE  Orders'
<1> USE NumJobsAssumption, ThreadsAssumption DEF Orders
<1> DEFINE s == fifo["io"]
<1> DEFINE s1 == fifo'["io"]
<1>1. /\ IO \in Threads /\ pc[IO] = "take" /\ Held(IO) = Null
      /\ UNCHANGED <<stage, live, files, records>>
      /\ s \in Seq(Jobs) /\ Len(s) \in Nat /\ Len(s) >= 1
      /\ s[1] \in Jobs /\ s[1] \in live
      /\ Len(s1) = Len(s) - 1 /\ \A i \in 1 .. Len(s) - 1 : s1[i] = s[i + 1]
      /\ fifo'["job"] = fifo["job"]
      /\ pc'[IO] = "got" /\ arg'[IO] = s[1] /\ Held(IO)' = s[1]
      /\ \A u \in Threads : u # IO =>
           pc'[u] = pc[u] /\ arg'[u] = arg[u] /\ Held(u)' = Held(u)
  BY TakeEffect DEF Loopers, GetQ, Queues
<1>2. Main \in Threads /\ Main # IO /\ Workers \subseteq Threads /\ IO \notin Workers
  BY DEF Threads, Loopers
<1>3. pc[Main] \in {"join", "rejoin"}
  BY <1>1 DEF IInv, Phases, Loopers
<1>4. Made' /\ FilesFirst' /\ OutputConsistent' /\ ReadInMenuOrder' /\ OvertakingBounded'
  BY <1>1, <1>2, CasesKept
<1>5. JobListInOrder'
  BY <1>1 DEF JobListInOrder
<1>6. TakenInMenuOrder'
  BY <1>1, <1>2 DEF TakenInMenuOrder, Waiting
<1>7. UnreadInOrder'
  <2>1. ASSUME NEW i \in 1 .. Len(s1), NEW k \in 1 .. Len(s1), i < k,
               stage[s1[i]] = INIT_STAGE, stage[s1[k]] = INIT_STAGE
        PROVE  s1[i] < s1[k]
    <3>1. i + 1 \in 1 .. Len(s) /\ k + 1 \in 1 .. Len(s) /\ i + 1 < k + 1
      BY <2>1, <1>1
    <3>2. s1[i] = s[i + 1] /\ s1[k] = s[k + 1]
      BY <1>1
    <3> QED
      BY <2>1, <3>1, <3>2 DEF UnreadInOrder
  <2>2. ASSUME stage[s[1]] = INIT_STAGE, NEW i \in 1 .. s[1] - 1, stage[i] = INIT_STAGE
        PROVE  FALSE
    <3>1. i \in Jobs /\ i < s[1]
      BY <1>1 DEF Jobs
    <3>2. Waiting(i)
      <4>1. \A w \in Workers : Held(w) = i => stage[i] # INIT_STAGE
        BY <3>1, <1>2 DEF IInv, StageFitsPlace, StagesFor, Jobs, Null, INIT_STAGE,
                          READ_END_STAGE, MODEL_END_STAGE
      <4> QED
        BY <4>1, <2>2 DEF Waiting
    <3>3. PICK k \in 1 .. Len(s) : s[k] = i
      BY <3>1, <3>2, <2>2, <1>1, <1>3, WhereWaiting DEF Jobs, Null
    <3>4. k # 1
      BY <3>1, <3>3, <1>1 DEF Jobs
    <3>5. 1 \in 1 .. Len(s) /\ 1 < k
      BY <3>4, <1>1
    <3>6. s[1] < s[k]
      BY <3>3, <3>5, <2>2 DEF UnreadInOrder
    <3> QED
      BY <3>1, <3>3, <3>6, <1>1 DEF Jobs
  <2> QED
    BY <2>1, <2>2, <1>1 DEF UnreadInOrder
<1>8. FewPassed'
  <2>1. ASSUME NEW r \in Jobs PROVE Passed(r)' \subseteq Passed(r)
    <3> SUFFICES ASSUME NEW i \in 1 .. r - 1, Row(i)' <=> Row(i), i # s[1], ~InFront(i, r)'
                 PROVE  Held(IO) # i /\ ~InFront(i, r)
      BY <1>1 DEF Passed, Row
    <3>1. Held(IO) # i
      BY <1>1 DEF Null, Jobs
    <3>2. ASSUME NEW k \in 1 .. Len(s), NEW m \in 1 .. Len(s), k < m, s[k] = i, s[m] = r
          PROVE  FALSE
      <4>1. k # 1
        BY <3>2
      <4>2. k - 1 \in 1 .. Len(s1) /\ m - 1 \in 1 .. Len(s1) /\ k - 1 < m - 1
        BY <4>1, <3>2, <1>1
      <4>3. s1[k - 1] = i /\ s1[m - 1] = r
        BY <4>2, <3>2, <1>1
      <4> QED
        BY <4>2, <4>3 DEF InFront
    <3> QED
      BY <3>1, <3>2 DEF InFront
  <2> QED
    BY <2>1, <1>1, <1>2, KeepsFewPassed DEF IInv, TypeOK
<1> QED
  BY <1>4, <1>5, <1>6, <1>7, <1>8

\* getJob: the first testcase of the job list is the first no worker has had.
LEMMA TakeJobOrders ==
  ASSUME IInv, Lifecycle, Orders, NEW t \in Workers, Take(t)
  PROVE  Orders'
<1> USE NumJobsAssumption, ThreadsAssumption DEF Orders
<1> DEFINE s == fifo["job"]
<1> DEFINE s1 == fifo'["job"]
<1>1. /\ t \in Threads /\ pc[t] = "take" /\ Held(t) = Null
      /\ UNCHANGED <<stage, live, files, records>>
      /\ s \in Seq(Jobs) /\ Len(s) \in Nat /\ Len(s) >= 1
      /\ s[1] \in Jobs /\ s[1] \in live
      /\ Len(s1) = Len(s) - 1 /\ \A i \in 1 .. Len(s) - 1 : s1[i] = s[i + 1]
      /\ fifo'["io"] = fifo["io"]
      /\ pc'[t] = "got" /\ arg'[t] = s[1] /\ Held(t)' = s[1]
      /\ \A u \in Threads : u # t =>
           pc'[u] = pc[u] /\ arg'[u] = arg[u] /\ Held(u)' = Held(u)
  BY TakeEffect DEF Loopers, GetQ, Queues
<1>2. /\ Main \in Threads /\ Main # t /\ Workers \subseteq Threads /\ IO \in Threads /\ IO # t
      /\ live \subseteq Jobs
  BY DEF Threads, Loopers, IInv, TypeOK
<1>3. pc[Main] \in {"join", "rejoin"}
  BY <1>1 DEF IInv, Phases, Loopers
<1>4. Made' /\ FilesFirst' /\ OutputConsistent' /\ ReadInMenuOrder' /\ OvertakingBounded'
  BY <1>1, <1>2, CasesKept
<1>5. UnreadInOrder'
  BY <1>1, <1>2 DEF UnreadInOrder
<1>6. JobListInOrder'
  <2>1. \A i \in 1 .. Len(s1) : i + 1 \in 1 .. Len(s) /\ s1[i] = s[i + 1]
    BY <1>1
  <2>2. \A i, k \in 1 .. Len(s1) : i < k => s1[i] < s1[k]
    BY <2>1 DEF JobListInOrder
  <2>3. pc[IO] \in {"add", "link", "tail"} => \A i \in 1 .. Len(s1) : s1[i] < arg[IO]
    BY <2>1 DEF JobListInOrder
  <2> QED
    BY <2>2, <2>3, <1>1, <1>2 DEF JobListInOrder
<1>7. TakenInMenuOrder'
  <2>1. \A i \in Jobs : Waiting(i)' <=> Waiting(i) /\ i # s[1]
    <3>1. \A i \in Jobs : Held(t) # i
      BY <1>1 DEF Jobs, Null
    <3> QED
      BY <3>1, <1>1, <1>2 DEF Waiting
  <2>2. ASSUME NEW i \in 1 .. s[1] - 1, Waiting(i) PROVE FALSE
    <3>1. i \in Jobs /\ i < s[1]
      BY <1>1 DEF Jobs
    <3>2. stage[s[1]] = READ_END_STAGE
      BY <1>1 DEF IInv, StageFitsPlace
    <3>3. stage[i] = READ_END_STAGE
      BY <3>2, <2>2, <1>1 DEF Waiting, ReadInMenuOrder, INIT_STAGE, READ_END_STAGE
    <3>4. CASE \E k \in 1 .. Len(s) : s[k] = i
      <4>1. PICK k \in 1 .. Len(s) : s[k] = i
        BY <3>4
      <4>2. 1 \in 1 .. Len(s) /\ 1 < k
        BY <4>1, <3>1, <1>1 DEF Jobs
      <4>3. s[1] < s[k]
        BY <4>1, <4>2 DEF JobListInOrder
      <4> QED
        BY <4>1, <4>3, <3>1, <1>1 DEF Jobs
    <3>5. CASE Held(IO) = i
      <4>1. pc[IO] \in {"got", "add", "link", "tail", "record"} /\ arg[IO] = i
        BY <3>1, <3>5 DEF Held, Jobs, Null
      <4>2. pc[IO] \in {"add", "link", "tail"}
        BY <4>1, <3>1, <3>3, <3>5, <1>2 DEF IInv, StageFitsPlace, StagesFor, Jobs, Null,
          INIT_STAGE, READ_END_STAGE, MODEL_END_STAGE
      <4>3. 1 \in 1 .. Len(s)
        BY <1>1
      <4>4. s[1] < arg[IO]
        BY <4>2, <4>3 DEF JobListInOrder
      <4> QED
        BY <4>1, <4>4, <3>1, <1>1 DEF Jobs
    <3> QED
      BY <3>1, <3>3, <3>4, <3>5, <2>2, <1>3, WhereWaiting
  <2>3. \A k \in Jobs : \A i \in 1 .. k - 1 : i \in Jobs
    BY DEF Jobs
  <2> QED
    BY <2>1, <2>2, <2>3 DEF TakenInMenuOrder
<1>8. FewPassed'
  <2>1. \A r : Passed(r)' = Passed(r)
    BY <1>1, <1>2 DEF Passed, Row, InFront
  <2>2. \A r \in live : Held(t) # r
    BY <1>1, <1>2 DEF Jobs, Null
  <2> QED
    BY <2>1, <2>2, <1>1, <1>2, KeepsFewPassed
<1> QED
  BY <1>4, <1>5, <1>6, <1>7, <1>8

-----------------------------------------------------------------------------
(***************************************************************************)
(* addJob and addIOJob.                                                    *)
(***************************************************************************)

\* What handing on a testcase changes.
LEMMA SetTailEffect ==
  ASSUME IInv, NEW t \in Loopers \cup {Main}, SetTail(t)
  PROVE  LET q == AddQ(t)
             s == fifo[q]
         IN  /\ t \in Threads /\ q \in Queues /\ pc[t] = "tail" /\ Held(t) = arg[t]
             /\ arg[t] \in Jobs /\ arg[t] \in live
             /\ UNCHANGED <<stage, live, files, records, arg>>
             /\ s \in Seq(Jobs) /\ Len(s) \in Nat /\ Len(fifo'[q]) = Len(s) + 1
             /\ \A i \in 1 .. Len(s) : fifo'[q][i] = s[i] /\ s[i] \in Jobs /\ s[i] \in live
             /\ \A i \in 1 .. Len(s) : s[i] # arg[t]
             /\ fifo'[q][Len(s) + 1] = arg[t]
             /\ \A r \in Queues : r # q => fifo'[r] = fifo[r]
             /\ pc'[t] \in {"new", "loop"} /\ Held(t)' = Null
             /\ \A u \in Threads : u # t =>
                  pc'[u] = pc[u] /\ Held(u)' = Held(u) /\ Held(u) # arg[t]
<1> USE ThreadsAssumption DEF IInv, lists, cases
<1> DEFINE q == AddQ(t)
<1> DEFINE s == fifo[q]
<1>0. /\ pc \in [Threads -> Idle \cup Busy] /\ fifo \in [Queues -> Seq(Jobs)]
      /\ t \in Threads /\ q \in Queues
  BY DEF TypeOK, Threads, Loopers, AddQ, Queues
<1>1. /\ pc[t] = "tail" /\ pc' = [pc EXCEPT ![t] = IF t = Main THEN "new" ELSE "loop"]
      /\ fifo' = [fifo EXCEPT ![q] = Append(s, arg[t])]
      /\ UNCHANGED <<stage, live, files, records, arg>>
  BY DEF SetTail, Goto
<1>2. /\ arg[t] \in Jobs /\ arg[t] \in live
      /\ \A u \in Threads : u # t => Held(u) # arg[t]
      /\ \A i \in 1 .. Len(s) : s[i] # arg[t]
  BY <1>0, <1>1, OwnTestCase
<1>3. s \in Seq(Jobs) /\ \A i \in 1 .. Len(s) : s[i] \in Jobs /\ s[i] \in live
  BY <1>0, ElementOfSeq DEF OnePlaceEach
<1>4. /\ Len(s) \in Nat /\ Len(Append(s, arg[t])) = Len(s) + 1
      /\ \A i \in 1 .. Len(s) : Append(s, arg[t])[i] = s[i]
      /\ Append(s, arg[t])[Len(s) + 1] = arg[t]
  BY <1>2, <1>3, AppendFacts
<1>5. Held(t) = arg[t] /\ Held(t)' = Null /\ pc'[t] \in {"new", "loop"}
  BY <1>0, <1>1 DEF Held
<1>6. \A u \in Threads : u # t => pc'[u] = pc[u] /\ Held(u)' = Held(u)
  BY <1>0, <1>1 DEF Held
<1> QED
  BY <1>0, <1>1, <1>2, <1>3, <1>4, <1>5, <1>6

\* addJob: the testcase goes behind all smaller ones.
LEMMA AddJobOrders ==
  ASSUME IInv, Orders, SetTail(IO)
  PROVE  Orders'
<1> USE NumJobsAssumption, ThreadsAssumption DEF Orders
<1> DEFINE s == fifo["job"]
<1> DEFINE s1 == fifo'["job"]
<1> DEFINE e == arg[IO]
<1>1. /\ IO \in Threads /\ pc[IO] = "tail" /\ Held(IO) = e /\ e \in Jobs /\ e \in live
      /\ UNCHANGED <<stage, live, files, records, arg>>
      /\ s \in Seq(Jobs) /\ Len(s) \in Nat /\ Len(s1) = Len(s) + 1
      /\ \A i \in 1 .. Len(s) : s1[i] = s[i] /\ s[i] \in Jobs
      /\ s1[Len(s) + 1] = e /\ fifo'["io"] = fifo["io"]
      /\ pc'[IO] \in {"new", "loop"} /\ Held(IO)' = Null
      /\ \A u \in Threads : u # IO =>
           pc'[u] = pc[u] /\ Held(u)' = Held(u) /\ Held(u) # e
  BY SetTailEffect DEF Loopers, AddQ, Queues
<1>2. Workers \subseteq Threads /\ IO \notin Workers /\ live \subseteq Jobs
  BY DEF Threads, Loopers, IInv, TypeOK
<1>4. Made' /\ FilesFirst' /\ OutputConsistent' /\ ReadInMenuOrder' /\ OvertakingBounded'
  BY <1>1, CasesKept
<1>5. UnreadInOrder'
  BY <1>1 DEF UnreadInOrder
<1>6. JobListInOrder'
  <2>1. \A i \in 1 .. Len(s) : s[i] < e
    BY <1>1 DEF JobListInOrder
  <2>2. \A i, k \in 1 .. Len(s1) : i < k =>
          i \in 1 .. Len(s) /\ (k \in 1 .. Len(s) \/ k = Len(s) + 1)
    BY <1>1
  <2>3. \A i, k \in 1 .. Len(s1) : i < k => s1[i] < s1[k]
    BY <2>1, <2>2, <1>1 DEF JobListInOrder
  <2> QED
    BY <2>3, <1>1 DEF JobListInOrder
<1>7. \A i \in Jobs : Waiting(i)' <=> Waiting(i)
  BY <1>1, <1>2 DEF Waiting
<1>8. TakenInMenuOrder'
  <2>1. \A k \in Jobs : \A i \in 1 .. k - 1 : i \in Jobs
    BY DEF Jobs
  <2> QED
    BY <2>1, <1>7 DEF TakenInMenuOrder
<1>9. FewPassed'
  <2>1. Waiting(e)
    BY <1>1, <1>2 DEF Waiting, IInv, StageFitsPlace, StagesFor, Jobs, Null
  <2>2. ASSUME NEW r \in Jobs, stage[r] = MODEL_END_STAGE PROVE Passed(r)' \subseteq Passed(r)
    <3>1. ~Waiting(r)
      BY <2>2 DEF Waiting, INIT_STAGE, READ_END_STAGE, MODEL_END_STAGE
    <3>2. e \notin 1 .. r - 1
      BY <2>1, <3>1 DEF TakenInMenuOrder
    <3> QED
      BY <3>2, <1>1 DEF Passed, Row, InFront
  <2> QED
    BY <2>2, <1>1, <1>2, KeepsFewPassed
<1> QED
  BY <1>4, <1>5, <1>6, <1>8, <1>9

\* addIOJob: main's testcases come in menu order, a worker's is past reading and
\* passes over testcases that other workers hold.
LEMMA AddIOOrders ==
  ASSUME IInv, Lifecycle, Orders, NEW t \in Workers \cup {Main}, SetTail(t)
  PROVE  Orders'
<1> USE NumJobsAssumption, ThreadsAssumption DEF Orders
<1> DEFINE s == fifo["io"]
<1> DEFINE s1 == fifo'["io"]
<1> DEFINE e == arg[t]
<1>1. /\ t \in Threads /\ pc[t] = "tail" /\ Held(t) = e /\ e \in Jobs /\ e \in live
      /\ UNCHANGED <<stage, live, files, records, arg>>
      /\ s \in Seq(Jobs) /\ Len(s) \in Nat /\ Len(s1) = Len(s) + 1
      /\ \A i \in 1 .. Len(s) : s1[i] = s[i] /\ s[i] \in Jobs /\ s[i] \in live /\ s[i] # e
      /\ s1[Len(s) + 1] = e /\ fifo'["job"] = fifo["job"]
      /\ pc'[t] \in {"new", "loop"} /\ Held(t)' = Null
      /\ \A u \in Threads : u # t =>
           pc'[u] = pc[u] /\ Held(u)' = Held(u) /\ Held(u) # e
  BY SetTailEffect DEF Loopers, AddQ, Queues
<1>2. /\ Workers \subseteq Threads /\ IO \in Threads /\ IO # t /\ live \subseteq Jobs
      /\ Main \notin Workers /\ IO \notin Workers
  BY DEF Threads, Loopers, IInv, TypeOK
<1>3. stage[e] = IF t = Main THEN INIT_STAGE ELSE MODEL_END_STAGE
  BY <1>1, <1>2 DEF IInv, StageFitsPlace, StagesFor, Jobs, Null
<1>4. Made' /\ FilesFirst' /\ OutputConsistent' /\ ReadInMenuOrder' /\ OvertakingBounded'
  BY <1>1, <1>2, CasesKept
<1>5. JobListInOrder'
  BY <1>1, <1>2 DEF JobListInOrder
<1>a. \A i \in 1 .. Len(s1) : i \in 1 .. Len(s) \/ i = Len(s) + 1
  BY <1>1
<1>6. UnreadInOrder'
  <2>1. t = Main => \A i \in 1 .. Len(s) : s[i] < e
    BY <1>1 DEF IInv, Phases, Jobs
  <2>2. t # Main => stage[e] # INIT_STAGE
    BY <1>3 DEF INIT_STAGE, MODEL_END_STAGE
  <2>3. \A i, k \in 1 .. Len(s1) :
          i < k /\ stage[s1[i]] = INIT_STAGE /\ stage[s1[k]] = INIT_STAGE => s1[i] < s1[k]
    <3> TAKE i, k \in 1 .. Len(s1)
    <3>1. i < k => i \in 1 .. Len(s)
      BY <1>1
    <3> QED
      BY <3>1, <2>1, <2>2, <1>1, <1>a DEF UnreadInOrder
  <2> QED
    BY <2>3, <1>1, <1>2 DEF UnreadInOrder
<1>7. \A i \in Jobs : Waiting(i)' <=> Waiting(i)
  BY <1>1, <1>2, <1>3 DEF Waiting, INIT_STAGE, READ_END_STAGE, MODEL_END_STAGE, Jobs, Null
<1>8. TakenInMenuOrder'
  <2>1. \A k \in Jobs : \A i \in 1 .. k - 1 : i \in Jobs
    BY DEF Jobs
  <2> QED
    BY <2>1, <1>7 DEF TakenInMenuOrder
<1>9. FewPassed'
  <2>1. \A i, r : InFront(i, r) => InFront(i, r)'
    <3>1. \A i \in 1 .. Len(s) : i \in 1 .. Len(s1) /\ s1[i] = s[i]
      BY <1>1
    <3> QED
      BY <3>1 DEF InFront
  <2>2. \A r : Passed(r)' \subseteq Passed(r)
    BY <2>1, <1>1, <1>2 DEF Passed, Row
  <2>3. t \in Workers => Cardinality(Passed(e)') < Cardinality(Workers)
    <3> HAVE t \in Workers
    <3> DEFINE h == [u \in Workers |-> Held(u)]
    <3>1. ASSUME NEW i \in Passed(e)' PROVE \E u \in Workers \ {t} : h[u] = i
      <4>1. i \in 1 .. e - 1 /\ ~Row(i) /\ Held(IO) # i /\ ~InFront(i, e)'
        BY <3>1, <1>1, <1>2 DEF Passed, Row
      <4>2. i \in Jobs /\ i # e
        BY <4>1, <1>1 DEF Jobs
      <4>3. i \in live
        <5>1. pc[Main] \in {"join", "rejoin"} => i <= arg[Main]
          BY <4>2 DEF Lifecycle, Jobs
        <5>2. pc[Main] \in {"join", "rejoin"}
          BY <1>1, <1>2 DEF IInv, Phases, Loopers
        <5> QED
          BY <5>1, <5>2, <4>1, <4>2 DEF Made
      <4>4. ~Waiting(i)
        <5>1. ~Waiting(e)
          BY <1>2, <1>3 DEF Waiting, INIT_STAGE, READ_END_STAGE, MODEL_END_STAGE
        <5> QED
          BY <5>1, <4>1, <1>1 DEF TakenInMenuOrder
      <4>5. \A k \in 1 .. Len(s) : s[k] # i
        <5> SUFFICES ASSUME NEW k \in 1 .. Len(s), s[k] = i PROVE FALSE
          OBVIOUS
        <5>1. k \in 1 .. Len(s1) /\ Len(s) + 1 \in 1 .. Len(s1) /\ k < Len(s) + 1
          BY <1>1
        <5> QED
          BY <5>1, <4>1, <1>1 DEF InFront
      <4>6. CASE \E u \in Workers : Held(u) = i
        BY <4>2, <4>6, <1>1
      <4>7. CASE \A u \in Workers : Held(u) # i
        <5>1. Held(Main) # i /\ Held(Stop) # i
          BY <4>2, <1>1, <1>2 DEF Held, IInv, Phases, Loopers, Jobs, Null
        <5>2. PICK k \in 1 .. Len(fifo["job"]) : fifo["job"][k] = i
          BY <5>1, <4>1, <4>3, <4>5, <4>7 DEF IInv, OnePlaceEach, Threads, Loopers, Queues
        <5>3. stage[i] = READ_END_STAGE
          BY <5>2 DEF IInv, StageFitsPlace
        <5> QED
          BY <5>3, <4>4, <4>7 DEF Waiting
      <4> QED
        BY <4>6, <4>7
    <3> HIDE DEF h
    <3> QED
      BY <3>1, FewHeld
  <2>4. t = Main => stage[e] # MODEL_END_STAGE
    BY <1>3 DEF INIT_STAGE, MODEL_END_STAGE
  <2> QED
    BY <2>2, <2>3, <2>4, <1>1, <1>2, KeepsFewPassed
<1> QED
  BY <1>4, <1>5, <1>6, <1>8, <1>9

-----------------------------------------------------------------------------
(***************************************************************************)
(* The theorems.                                                           *)
(***************************************************************************)

\* Every step of the scheduler keeps the orders.
LEMMA NextOrders == IInv /\ Lifecycle /\ Orders /\ [Next]_vars => Orders'
<1> SUFFICES ASSUME IInv, Lifecycle, Orders, [Next]_vars PROVE Orders'
  OBVIOUS
<1>1. \/ NewTestCase
      \/ StartThreads \/ Join \/ Rejoin \/ SetLoopWorking \/ UNCHANGED vars
      \/ \E t \in Loopers : Loop(t) \/ Abort(t) \/ GetLock(t) \/ LookEmpty(t) \/ LookFound(t)
      \/ \E t \in Loopers \cup {Main} : AddLock(t) \/ Link(t)
      \/ \E t \in Loopers \cup {Main} : SetTail(t)
      \/ \E t \in Loopers : Take(t)
      \/ \E t \in Loopers : DoParsing(t) \/ DoReading(t) \/ WriteFiles(t) \/ WriteRecord(t)
  BY DEF Next, Ended, Step, MainStep, LooperStep, ListStep, WorkStep
<1>2. ASSUME NEW t \in Loopers \cup {Main}, SetTail(t) PROVE Orders'
  BY <1>2, AddJobOrders, AddIOOrders DEF Loopers
<1>3. ASSUME NEW t \in Loopers, Take(t) PROVE Orders'
  BY <1>3, TakeIOOrders, TakeJobOrders DEF Loopers
<1>4. ASSUME NEW t \in Loopers, DoParsing(t) \/ DoReading(t) \/ WriteFiles(t) \/ WriteRecord(t)
      PROVE  Orders'
  BY <1>4, ParsingOrders, ReadingOrders, FilesOrders, RecordOrders
<1> QED
  BY <1>1, <1>2, <1>3, <1>4, NewOrders, CalmSteps

\* Both parts hold throughout, for any number of testcases and workers.
THEOREM OrdersInvariance == Spec => [](IInv /\ Lifecycle /\ Orders)
<1>1. Init => IInv /\ Lifecycle /\ Orders
  BY InitIInv, InitOrders
<1>2. IInv /\ Lifecycle /\ Orders /\ [Next]_vars => (IInv /\ Lifecycle /\ Orders)'
  BY NextIInv, LifecycleStep, NextOrders
<1> QED
  BY <1>1, <1>2, PTL DEF Spec

\* dwLoopIOWork reads the testcases in the order of testcases_menu.txt.
THEOREM MenuOrder == Spec => []ReadInMenuOrder
<1>1. Orders => ReadInMenuOrder
  BY DEF Orders
<1> QED
  BY <1>1, OrdersInvariance, PTL

\* doWriting's files and rows survive any ending: one row at most, no row without
\* complete files, and at most one testcase with files and no row.
THEOREM OutputSafe == Spec => []OutputConsistent
<1>1. Orders => OutputConsistent
  BY DEF Orders
<1> QED
  BY <1>1, OrdersInvariance, PTL

\* A row of recordsForExcel.txt passes over fewer testcases than there are threads
\* in dwLoopWork.
THEOREM OvertakingLimited == Spec => []OvertakingBounded
<1>1. Orders => OvertakingBounded
  BY DEF Orders
<1> QED
  BY <1>1, OrdersInvariance, PTL

\* OnParserOpenfiles returns only after "exit" and after the first worker has
\* handed on its testcase.
THEOREM OrderlyExit == Spec => []ExitAfterFirstWorker
<1>1. ASSUME IInv, Lifecycle PROVE ExitAfterFirstWorker
  <2> SUFFICES ASSUME proc = "exited" PROVE /\ ~loopWorking
                                            /\ pc[FirstWorker] = "done"
                                            /\ \A j \in live : stage[j] \in {INIT_STAGE, READ_END_STAGE} \/
                                                 (\E i \in 1 .. Len(fifo["io"]) : fifo["io"][i] = j) \/
                                                 (\E t \in Loopers \ {FirstWorker} : Held(t) = j)
    BY DEF ExitAfterFirstWorker
  <2> USE ThreadsAssumption
  <2>1. pc[FirstWorker] = "done" /\ ~loopWorking /\ FirstWorker \in Loopers
    BY <1>1 DEF Lifecycle, Loopers
  <2>2. Held(FirstWorker) = Null /\ Held(Main) = Null /\ Held(Stop) = Null
    BY <2>1, <1>1 DEF Held, Lifecycle, IInv, Phases
  <2> SUFFICES ASSUME NEW j \in live
               PROVE  stage[j] \in {INIT_STAGE, READ_END_STAGE} \/
                        (\E i \in 1 .. Len(fifo["io"]) : fifo["io"][i] = j) \/
                        (\E t \in Loopers \ {FirstWorker} : Held(t) = j)
    BY <2>1
  <2>3. j # Null
    BY <1>1 DEF IInv, TypeOK, Jobs, Null
  <2>4. \/ \E t \in Threads : Held(t) = j
        \/ \E i \in 1 .. Len(fifo["job"]) : fifo["job"][i] = j
        \/ \E i \in 1 .. Len(fifo["io"]) : fifo["io"][i] = j
    BY <1>1 DEF IInv, OnePlaceEach, Queues
  <2>5. ASSUME NEW t \in Threads, Held(t) = j PROVE t \in Loopers \ {FirstWorker}
    BY <2>2, <2>3, <2>5 DEF Threads
  <2>6. ASSUME NEW i \in 1 .. Len(fifo["job"]), fifo["job"][i] = j PROVE stage[j] = READ_END_STAGE
    BY <2>6, <1>1 DEF IInv, StageFitsPlace
  <2> QED
    BY <2>4, <2>5, <2>6
<1> QED
  BY <1>1, OrdersInvariance, PTL

-----------------------------------------------------------------------------
(***************************************************************************)
(* The scheduler with its locks and pointers implements Pipeline.          *)
(***************************************************************************)

\* What the constructor sets up is an initial state of Pipeline.
LEMMA InitMaps == Init => P!PInit
<1> SUFFICES ASSUME Init PROVE P!PInit
  OBVIOUS
<1> USE NumJobsAssumption, ThreadsAssumption
<1>1. [t \in Threads |-> Held(t)] = [t \in P!PThreads |-> P!Nothing]
  BY DEF Init, Held, Threads, Loopers, P!PThreads, P!Nothing, Null
<1> QED
  BY <1>1 DEF Init, P!PInit, P!Nothing, Queues, Threads, Null, Jobs, INIT_STAGE

\* A step that moves no testcase is invisible to Pipeline.
LEMMA Invisible ==
  ASSUME UNCHANGED <<fifo, stage, records, loopWorking, proc>>, arg'[Main] = arg[Main],
         \A t \in Threads : Held(t)' = Held(t)
  PROVE  UNCHANGED P!pvars
<1>1. [t \in Threads |-> Held(t)]' = [t \in Threads |-> Held(t)]
  OBVIOUS
<1> QED
  BY <1>1 DEF P!pvars

\* Lock, the look at the tail, the link, the loop conditions, the files of
\* doWriting and the start of the threads move no testcase.
LEMMA InvisibleSteps ==
  ASSUME IInv,
         \/ StartThreads \/ Join \/ UNCHANGED vars
         \/ \E t \in Loopers : Loop(t) \/ GetLock(t) \/ LookEmpty(t) \/ LookFound(t) \/ WriteFiles(t)
         \/ \E t \in Loopers \cup {Main} : AddLock(t) \/ Link(t)
  PROVE  UNCHANGED P!pvars
<1> USE ThreadsAssumption DEF lists, cases
<1>0. /\ pc \in [Threads -> Idle \cup Busy] /\ arg \in [Threads -> Pointers] /\ Phases
      /\ Loopers \subseteq Threads /\ Main \in Threads /\ Main \notin Loopers
  BY DEF IInv, TypeOK, Threads, Loopers
<1>1. CASE UNCHANGED vars
  BY <1>1, Invisible DEF vars, Held
<1>2. CASE StartThreads
  BY <1>0, <1>2, Invisible DEF StartThreads, Held, Phases, Threads, Loopers
<1>3. CASE Join
  BY <1>0, <1>3, Invisible DEF Join, Goto, Held
<1>4. ASSUME NEW t \in Loopers,
             Loop(t) \/ GetLock(t) \/ LookEmpty(t) \/ LookFound(t) \/ WriteFiles(t)
      PROVE  UNCHANGED P!pvars
  BY <1>0, <1>4, Invisible DEF Loop, GetLock, LookEmpty, LookFound, WriteFiles, Goto, Held
<1>5. ASSUME NEW t \in Loopers \cup {Main}, AddLock(t) \/ Link(t) PROVE UNCHANGED P!pvars
  BY <1>0, <1>5, Invisible DEF AddLock, Link, Goto, Held
<1> QED
  BY <1>1, <1>2, <1>3, <1>4, <1>5

\* OnParserOpenfiles makes a testcase.
LEMMA MakeMaps ==
  ASSUME IInv, Lifecycle, Orders, NewTestCase
  PROVE  P!Make
<1> USE NumJobsAssumption, ThreadsAssumption DEF lists
<1> DEFINE j == arg[Main] + 1
<1>0. /\ pc \in [Threads -> Idle \cup Busy] /\ arg \in [Threads -> Pointers]
      /\ stage \in [Jobs -> INIT_STAGE .. WRITE_END_STAGE] /\ Main \in Threads
  BY DEF IInv, TypeOK, Threads
<1>1. arg[Main] \in 0 .. NumJobs /\ j \in Jobs /\ ~(j <= arg[Main]) /\ arg[Main] < NumJobs
  BY DEF IInv, Phases, NewTestCase, Jobs
<1>2. stage[j] = INIT_STAGE
  BY <1>1 DEF Orders, Made
<1>3. stage' = stage /\ arg'[Main] = j /\ UNCHANGED <<proc, loopWorking, fifo, records>>
  BY <1>0, <1>1, <1>2 DEF NewTestCase
<1>4. Held(Main) = Null /\ \A t \in Threads : Held(t)' = IF t = Main THEN j ELSE Held(t)
  BY <1>0 DEF NewTestCase, Goto, Held
<1>5. [t \in Threads |-> Held(t)]' = [[t \in Threads |-> Held(t)] EXCEPT ![Main] = j]
  BY <1>4
<1> QED
  BY <1>0, <1>1, <1>3, <1>4, <1>5 DEF P!Make, P!Nothing, Null

\* addJob and addIOJob, at the step that unlocks.
LEMMA PutMaps ==
  ASSUME IInv, NEW t \in Loopers \cup {Main}, SetTail(t)
  PROVE  IF t = IO THEN P!PutJob ELSE P!PutIO(t)
<1> USE ThreadsAssumption
<1> DEFINE q == AddQ(t)
<1> DEFINE H == [u \in Threads |-> Held(u)]
<1>1. /\ t \in Threads /\ q \in Queues /\ pc[t] = "tail" /\ Held(t) = arg[t] /\ arg[t] \in Jobs
      /\ UNCHANGED <<stage, records, arg>> /\ Held(t)' = Null
      /\ \A u \in Threads : u # t => Held(u)' = Held(u)
  BY SetTailEffect
<1>2. /\ fifo \in [Queues -> Seq(Jobs)] /\ fifo' = [fifo EXCEPT ![q] = Append(@, arg[t])]
      /\ UNCHANGED <<proc, loopWorking>>
  BY DEF IInv, TypeOK, SetTail
<1>3. H' = [H EXCEPT ![t] = Null] /\ H[t] = arg[t]
  BY <1>1
<1>4. /\ arg[t] # Null
      /\ stage[arg[t]] = IF t = Main THEN 0 ELSE IF t = IO THEN 1 ELSE 2
  BY NumJobsAssumption, <1>1 DEF IInv, StageFitsPlace, StagesFor, Jobs, Null, Loopers,
     INIT_STAGE, READ_END_STAGE, MODEL_END_STAGE
<1>5. CASE t = IO
  BY <1>1, <1>2, <1>3, <1>4, <1>5 DEF P!PutJob, P!Nothing, Null, AddQ, Queues
<1>6. CASE t # IO
  BY <1>1, <1>2, <1>3, <1>4, <1>6 DEF P!PutIO, P!Nothing, Null, AddQ, Queues, Loopers
<1> QED
  BY <1>5, <1>6

\* getJob and getIOJob, at the step that unlocks.
LEMMA GetMaps ==
  ASSUME IInv, Lifecycle, NEW t \in Loopers, Take(t)
  PROVE  IF t = IO THEN P!GetIO ELSE P!GetJob(t)
<1> USE ThreadsAssumption
<1> DEFINE q == GetQ(t)
<1> DEFINE H == [u \in Threads |-> Held(u)]
<1>1. /\ t \in Threads /\ q \in Queues /\ pc[t] = "take" /\ Held(t) = Null
      /\ UNCHANGED <<stage, records>> /\ fifo[q] \in Seq(Jobs) /\ Len(fifo[q]) >= 1
      /\ Held(t)' = fifo[q][1] /\ \A u \in Threads : u # t => arg'[u] = arg[u] /\ Held(u)' = Held(u)
  BY TakeEffect
<1>2. /\ fifo \in [Queues -> Seq(Jobs)] /\ fifo' = [fifo EXCEPT ![q] = Rest(@)]
      /\ UNCHANGED <<proc, loopWorking>>
  BY DEF IInv, TypeOK, Take
<1>3. fifo[q] # <<>> /\ Rest(fifo[q]) = Tail(fifo[q]) /\ Head(fifo[q]) = fifo[q][1]
  BY <1>1 DEF Rest
<1>4. H' = [H EXCEPT ![t] = Head(fifo[q])] /\ H[t] = Null
  BY <1>1, <1>3
<1>5. arg[Main] = NumJobs /\ arg'[Main] = arg[Main]
  BY <1>1 DEF IInv, Phases, Lifecycle, Loopers, Threads
<1>6. CASE t = IO
  BY <1>1, <1>2, <1>3, <1>4, <1>5, <1>6 DEF P!GetIO, P!Nothing, Null, GetQ, Queues
<1>7. CASE t # IO
  BY <1>1, <1>2, <1>3, <1>4, <1>5, <1>7 DEF P!GetJob, P!Nothing, Null, GetQ, Queues, Loopers
<1> QED
  BY <1>6, <1>7

\* doReading, doParsing and the row of doWriting.
LEMMA WorkMaps ==
  ASSUME IInv, NEW t \in Loopers, DoReading(t) \/ DoParsing(t) \/ WriteRecord(t)
  PROVE  \/ P!Read \/ P!Write
         \/ \E w \in Workers : P!Parse(w)
<1> USE NumJobsAssumption, ThreadsAssumption DEF lists
<1> USE DEF INIT_STAGE, READ_END_STAGE, MODEL_END_STAGE, WRITE_END_STAGE
<1> DEFINE H == [u \in Threads |-> Held(u)]
<1>0. /\ pc \in [Threads -> Idle \cup Busy] /\ Workers \subseteq Threads /\ IO \in Threads
      /\ t \in Threads /\ Main # t /\ IO \notin Workers
  BY DEF IInv, TypeOK, Threads, Loopers
<1>1. /\ pc[t] \in {"got", "record"} /\ arg[t] \in Jobs /\ Held(t) = arg[t] /\ arg[t] # Null
      /\ H[t] = arg[t] /\ (WriteRecord(t) => t = IO)
  BY <1>0 DEF DoReading, DoParsing, WriteRecord, Held, IInv, HoldersHold, Phases, Jobs, Null, Loopers
<1>2. stage[arg[t]] \in StagesFor(t)
  BY <1>0, <1>1 DEF IInv, StageFitsPlace
<1>3. UNCHANGED <<proc, loopWorking, arg, fifo>> /\ \A u \in Threads : u # t => Held(u)' = Held(u)
  BY <1>0 DEF DoReading, DoParsing, WriteRecord, Goto, Held
<1>4. CASE DoReading(t)
  <2>1. t = IO /\ stage[arg[t]] = 0 /\ records' = records
    BY <1>1, <1>2, <1>4 DEF DoReading, StageOf, StagesFor
  <2>2. stage' = [stage EXCEPT ![arg[t]] = 1] /\ Held(t)' = arg[t]
    BY <2>1, <1>0, <1>1, <1>4 DEF DoReading, StageOf, Held, Goto
  <2>3. H' = H
    BY <2>2, <1>1, <1>3
  <2> QED
    BY <2>1, <2>2, <2>3, <1>1, <1>3 DEF P!Read, P!Nothing, Null
<1>5. CASE DoParsing(t)
  <2>1. t \in Workers /\ stage[arg[t]] = 1 /\ records' = records
    BY <1>1, <1>2, <1>5 DEF DoParsing, StagesFor
  <2>2. stage' = [stage EXCEPT ![arg[t]] = 2] /\ Held(t)' = arg[t]
    BY <2>1, <1>0, <1>1, <1>5 DEF DoParsing, StageOf, Held, Goto
  <2>3. H' = H
    BY <2>2, <1>1, <1>3
  <2>4. P!Parse(t)
    BY <2>1, <2>2, <2>3, <1>1, <1>3 DEF P!Parse, P!Nothing, Null
  <2> QED
    BY <2>1, <2>4
<1>6. CASE WriteRecord(t)
  <2>1. /\ t = IO /\ pc[t] = "record" /\ pc' = [pc EXCEPT ![t] = "loop"]
        /\ records' = Append(records, arg[t]) /\ stage' = [stage EXCEPT ![arg[t]] = 3]
    BY <1>1, <1>6 DEF WriteRecord, Goto
  <2>2. stage[arg[t]] = 2
    BY <2>1, <1>2 DEF StagesFor
  <2>3. Held(t)' = Null
    BY <2>1, <1>0 DEF Held
  <2>4. H' = [H EXCEPT ![t] = Null]
    BY <2>3, <1>1, <1>3
  <2> QED
    BY <2>1, <2>2, <2>4, <1>1, <1>3 DEF P!Write, P!Nothing, Null
<1> QED
  BY <1>4, <1>5, <1>6

\* "exit", main's return and a fatal error.
LEMMA EndMaps ==
  ASSUME IInv, Lifecycle, SetLoopWorking \/ Rejoin \/ \E t \in Loopers : Abort(t)
  PROVE  P!RequestStop \/ P!End \/ P!Crash
<1> USE NumJobsAssumption, ThreadsAssumption DEF lists, cases
<1> DEFINE H == [u \in Threads |-> Held(u)]
<1>0. /\ pc \in [Threads -> Idle \cup Busy] /\ Loopers \subseteq Threads
      /\ FirstWorker \in Loopers /\ Stop \in Threads
  BY DEF IInv, TypeOK, Threads, Loopers
<1>1. CASE SetLoopWorking
  <2>1. loopWorking /\ ~loopWorking' /\ arg[Main] = NumJobs /\ UNCHANGED <<proc, arg, fifo, stage, records>>
    BY <1>1 DEF SetLoopWorking, Lifecycle
  <2>2. \A t \in Threads : Held(t)' = Held(t)
    BY <1>0, <1>1 DEF SetLoopWorking, Goto, Held
  <2>3. H' = H
    BY <2>2
  <2> QED
    BY <2>1, <2>3 DEF P!RequestStop
<1>2. CASE Rejoin
  <2>1. /\ ~loopWorking /\ Held(FirstWorker) = Null /\ H' = H
        /\ UNCHANGED <<loopWorking, arg, fifo, stage, records>>
        /\ proc' = "exited" \/ (Faults /\ proc' = "aborted")
    BY <1>0, <1>2 DEF Rejoin, Lifecycle, Held
  <2> QED
    BY <2>1, <1>0 DEF P!End, P!Crash, P!Nothing, Null
<1>3. ASSUME NEW t \in Loopers, Abort(t) PROVE P!Crash
  <2>1. /\ Faults /\ Held(t) = arg[t] /\ arg[t] # Null /\ H' = H /\ H[t] = Held(t)
        /\ UNCHANGED <<loopWorking, arg, fifo, stage, records>> /\ proc' = "aborted"
    BY <1>0, <1>3 DEF Abort, Held, IInv, HoldersHold, Jobs, Null
  <2>2. \E u \in Workers \cup {IO} : H[u] # 0
    BY <2>1 DEF Loopers, Null
  <2> QED
    BY <2>1, <2>2 DEF P!Crash, P!Nothing
<1> QED
  BY <1>1, <1>2, <1>3

-----------------------------------------------------------------------------
\* Every step of the scheduler is one of Pipeline or leaves it alone.
LEMMA NextMaps == IInv /\ Lifecycle /\ Orders /\ [Next]_vars => [P!PNext]_(P!pvars)
<1> SUFFICES ASSUME IInv, Lifecycle, Orders, [Next]_vars PROVE [P!PNext]_(P!pvars)
  OBVIOUS
<1>0. CASE UNCHANGED vars
  BY <1>0, InvisibleSteps
<1>1. CASE Ended
  BY <1>1, InvisibleSteps DEF Ended
<1>2. CASE Step
  <2>1. \/ NewTestCase
        \/ SetLoopWorking \/ Rejoin \/ \E t \in Loopers : Abort(t)
        \/ StartThreads \/ Join
        \/ \E t \in Loopers : Loop(t) \/ GetLock(t) \/ LookEmpty(t) \/ LookFound(t) \/ WriteFiles(t)
        \/ \E t \in Loopers \cup {Main} : AddLock(t) \/ Link(t)
        \/ \E t \in Loopers \cup {Main} : SetTail(t)
        \/ \E t \in Loopers : Take(t)
        \/ \E t \in Loopers : DoReading(t) \/ DoParsing(t) \/ WriteRecord(t)
    BY <1>2 DEF Step, MainStep, LooperStep, ListStep, WorkStep
  <2>2. ASSUME NEW t \in Loopers \cup {Main}, SetTail(t) PROVE P!PNext
    BY <2>2, <1>2, PutMaps DEF Step, Loopers, P!PNext
  <2>3. ASSUME NEW t \in Loopers, Take(t) PROVE P!PNext
    BY <2>3, <1>2, GetMaps DEF Step, Loopers, P!PNext
  <2>4. ASSUME NEW t \in Loopers, DoReading(t) \/ DoParsing(t) \/ WriteRecord(t) PROVE P!PNext
    BY <2>4, <1>2, WorkMaps DEF Step, P!PNext
  <2>5. CASE NewTestCase
    BY <2>5, <1>2, MakeMaps DEF Step, P!PNext
  <2>6. CASE SetLoopWorking \/ Rejoin \/ \E t \in Loopers : Abort(t)
    BY <2>6, <1>2, EndMaps DEF Step, P!PNext
  <2> QED
    BY <2>1, <2>2, <2>3, <2>4, <2>5, <2>6, InvisibleSteps
<1> QED
  BY <1>0, <1>1, <1>2 DEF Next

\* CMgrJob, with its locks, its pointers that nobody clears and its threads, does
\* what Pipeline promises: each testcase is read, parsed and written once, in that
\* order, by the thread that holds it.
THEOREM Refinement == Spec => ImplementsPipeline
  BY OrdersInvariance, InitMaps, NextMaps, PTL DEF Spec, ImplementsPipeline, P!PSpec

=============================================================================
