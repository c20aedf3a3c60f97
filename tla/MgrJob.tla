------------------------------- MODULE MgrJob -------------------------------
(***************************************************************************)
(* The testcase scheduler of CArchitecture: CMgrJob's two linked lists,    *)
(* the threads that OnParserOpenfiles starts and the locks between them.   *)
(*                                                                         *)
(* A testcase travels  IO list -> doReading -> job list -> doParsing ->    *)
(* IO list -> doWriting -> delete.  The lists are intrusive: the link of a *)
(* testcase on the job list is its m_pNext_test, on the IO list its        *)
(* m_pIONext_test, and neither field is initialised by a constructor or    *)
(* cleared when the testcase leaves a list.                                *)
(*                                                                         *)
(* Every list operation is cut at the places where another thread could    *)
(* interfere if the lock were not held: acquire, read or link, finish and  *)
(* release.                                                                *)
(***************************************************************************)
EXTENDS Integers, Sequences, FiniteSets

CONSTANTS
  NumJobs,      \* lines of testcases_menu.txt that hold "path:"
  Workers,      \* the threads running dwLoopWork (the program starts two)
  FirstWorker,  \* cpDealThread, the only thread main waits for
  IO,           \* the thread running dwLoopIOWork
  Stop,         \* the thread reading "exit" from standard input
  Main,         \* the main thread
  Nobody,       \* the holder of a lock that is free
  Faults        \* whether unreadable files and undefined joins may happen

ASSUME NumJobsAssumption == NumJobs \in Nat

ASSUME ThreadsAssumption ==
  /\ FirstWorker \in Workers
  /\ IO \notin Workers
  /\ Stop \notin Workers \cup {IO}
  /\ Main \notin Workers \cup {IO, Stop}
  /\ Nobody \notin Workers \cup {IO, Stop, Main}

ASSUME WorkersAssumption == IsFiniteSet(Workers)

ASSUME FaultsAssumption == Faults \in BOOLEAN

\* stage values of TestCase.h
INIT_STAGE      == 0
READ_END_STAGE  == 1
MODEL_END_STAGE == 2
WRITE_END_STAGE == 3

Jobs     == 1 .. NumJobs          \* testcases, numbered in menu order
Null     == 0                     \* NULL
Wild     == -1                    \* the content of a pointer nobody has written
Pointers == Jobs \cup {Null, Wild}
Queues   == {"job", "io"}         \* mpHead/mpTail and mpIOHead/mpIOTail
Loopers  == Workers \cup {IO}
Threads  == Loopers \cup {Stop, Main}

VARIABLES
  proc,         \* "running", "exited" (main returned) or "aborted"
  loopWorking,  \* CMgrJob::loopWorking
  pc,           \* where each thread is
  arg,          \* each thread's LPTESTCASE local (dealJob, IOJob, pTestCase)
  owner,        \* holder of mpLock ("job") and of mpIOLock ("io")
  head, tail,   \* mpHead, mpTail ("job"); mpIOHead, mpIOTail ("io")
  next,         \* m_pNext_test ("job") and m_pIONext_test ("io") of each testcase
  stage,        \* CTestCase::stage
  live,         \* testcases constructed and not yet deleted
  files,        \* testcases whose output/<name>/ files are complete
  records,      \* rows of recordsForExcel.txt, oldest first
  fifo          \* history: what each list holds, first to last (no step reads it)

lists == <<owner, head, tail, next, fifo>>
cases == <<stage, live, files, records>>
vars  == <<proc, loopWorking, pc, arg, lists, cases>>

-----------------------------------------------------------------------------
\* The list a thread takes from and the list it adds to.
GetQ(t) == IF t \in Workers THEN "job" ELSE "io"
AddQ(t) == IF t = IO THEN "job" ELSE "io"

\* getNext/getIONext and getStage through a pointer that may be no testcase.
NextOf(q, p) == IF p \in Jobs THEN next[q][p] ELSE Wild
StageOf(p)   == IF p \in Jobs THEN stage[p] ELSE Wild

Init ==
  /\ proc = "running"
  /\ loopWorking = TRUE
  /\ pc = [t \in Threads |-> IF t = Main THEN "new" ELSE "off"]
  /\ arg = [t \in Threads |-> Null]
  /\ owner = [q \in Queues |-> Nobody]
  /\ head = [q \in Queues |-> Null]
  /\ tail = [q \in Queues |-> Null]
  /\ next = [q \in Queues |-> [j \in Jobs |-> Wild]]
  /\ stage = [j \in Jobs |-> INIT_STAGE]
  /\ live = {}
  /\ files = {}
  /\ records = <<>>
  /\ fifo = [q \in Queues |-> <<>>]

Goto(t, l) == pc' = [pc EXCEPT ![t] = l]

\* A list without its first element.
Rest(s) == IF s = <<>> THEN s ELSE Tail(s)

-----------------------------------------------------------------------------
\* Operators named Faulty... are slips this code invites.  No action uses them:
\* each is the variant of the definition below it that a property must catch.

\* for(i = 0; i <= size; ...)
FaultyNewTestCase ==
  /\ pc[Main] = "new" /\ arg[Main] <= NumJobs
  /\ LET j == arg[Main] + 1
     IN  arg' = [arg EXCEPT ![Main] = j] /\ live' = live \cup {j}
  /\ Goto(Main, "add")
  /\ UNCHANGED <<proc, loopWorking, lists, stage, files, records>>

\* OnParserOpenfiles, before the threads start: the next menu line becomes a
\* testcase, which addIOJob then queues.
NewTestCase ==
  /\ pc[Main] = "new" /\ arg[Main] < NumJobs
  /\ LET j == arg[Main] + 1
     IN  /\ arg' = [arg EXCEPT ![Main] = j]
         /\ live' = live \cup {j}
         /\ stage' = [stage EXCEPT ![j] = INIT_STAGE]
  /\ Goto(Main, "add")
  /\ UNCHANGED <<proc, loopWorking, lists, files, records>>

StartThreads ==
  /\ pc[Main] = "new" /\ arg[Main] = NumJobs
  /\ pc' = [t \in Threads |-> CASE t = Main -> "join"
                                [] t = Stop -> "stdin"
                                [] OTHER    -> "loop"]
  /\ UNCHANGED <<proc, loopWorking, arg, lists, cases>>

\* Whichever worker ends first is waited for.
FaultyJoin ==
  /\ pc[Main] = "join" /\ \E w \in Workers : pc[w] = "done"
  /\ Goto(Main, "rejoin")
  /\ UNCHANGED <<proc, loopWorking, arg, lists, cases>>

\* cpDealThread->wait4ThisThread() and the sleep after it.
Join ==
  /\ pc[Main] = "join" /\ pc[FirstWorker] = "done"
  /\ Goto(Main, "rejoin")
  /\ UNCHANGED <<proc, loopWorking, arg, lists, cases>>

\* The same thread is joined a second time, which POSIX leaves undefined: the
\* call returns, and main sleeps and returns too, or it brings the process down.
Rejoin ==
  /\ pc[Main] = "rejoin"
  /\ proc' \in IF Faults THEN {"exited", "aborted"} ELSE {"exited"}
  /\ UNCHANGED <<loopWorking, pc, arg, lists, cases>>

\* StopThread has read "exit": setLoopWorking negates the flag.
SetLoopWorking ==
  /\ pc[Stop] = "stdin"
  /\ loopWorking' = ~loopWorking
  /\ Goto(Stop, "done")
  /\ UNCHANGED <<proc, arg, lists, cases>>

-----------------------------------------------------------------------------
\* while(loopWorking) of dwLoopWork and dwLoopIOWork
Loop(t) ==
  /\ pc[t] = "loop"
  /\ Goto(t, IF loopWorking THEN "get" ELSE "done")
  /\ UNCHANGED <<proc, loopWorking, arg, lists, cases>>

\* The lock is not waited for.
FaultyGetLock(t) ==
  /\ pc[t] = "get"
  /\ owner' = [owner EXCEPT ![GetQ(t)] = t]
  /\ Goto(t, "look")
  /\ UNCHANGED <<proc, loopWorking, arg, head, tail, next, fifo, cases>>

\* getJob and getIOJob: Lock ...
GetLock(t) ==
  /\ pc[t] = "get" /\ owner[GetQ(t)] = Nobody
  /\ owner' = [owner EXCEPT ![GetQ(t)] = t]
  /\ Goto(t, "look")
  /\ UNCHANGED <<proc, loopWorking, arg, head, tail, next, fifo, cases>>

\* The early return forgets Unlock.
FaultyLookEmpty(t) ==
  /\ pc[t] = "look" /\ tail[GetQ(t)] = Null
  /\ arg' = [arg EXCEPT ![t] = Null]
  /\ Goto(t, "loop")
  /\ UNCHANGED <<proc, loopWorking, owner, head, tail, next, fifo, cases>>

\* ... leave with NULL when the tail is NULL ...
LookEmpty(t) ==
  /\ pc[t] = "look" /\ tail[GetQ(t)] = Null
  /\ owner' = [owner EXCEPT ![GetQ(t)] = Nobody]
  /\ arg' = [arg EXCEPT ![t] = Null]
  /\ Goto(t, "loop")
  /\ UNCHANGED <<proc, loopWorking, head, tail, next, fifo, cases>>

LookFound(t) ==
  /\ pc[t] = "look" /\ tail[GetQ(t)] # Null
  /\ Goto(t, "take")
  /\ UNCHANGED <<proc, loopWorking, arg, lists, cases>>

\* Taking the last testcase leaves the tail pointing at it.
FaultyTake(t) ==
  LET q == GetQ(t)
  IN  /\ pc[t] = "take"
      /\ arg' = [arg EXCEPT ![t] = head[q]]
      /\ head' = [head EXCEPT ![q] = IF @ = tail[q] THEN Null ELSE NextOf(q, @)]
      /\ owner' = [owner EXCEPT ![q] = Nobody]
      /\ fifo' = [fifo EXCEPT ![q] = Rest(@)]
      /\ Goto(t, "got")
      /\ UNCHANGED <<proc, loopWorking, tail, next, cases>>

\* ... or unlink the head and Unlock.
Take(t) ==
  LET q == GetQ(t)
  IN  /\ pc[t] = "take"
      /\ arg' = [arg EXCEPT ![t] = head[q]]
      /\ IF head[q] = tail[q]
           THEN /\ head' = [head EXCEPT ![q] = Null]
                /\ tail' = [tail EXCEPT ![q] = Null]
           ELSE /\ head' = [head EXCEPT ![q] = NextOf(q, head[q])]
                /\ UNCHANGED tail
      /\ owner' = [owner EXCEPT ![q] = Nobody]
      /\ fifo' = [fifo EXCEPT ![q] = Rest(@)]
      /\ Goto(t, "got")
      /\ UNCHANGED <<proc, loopWorking, next, cases>>

\* The lock is not waited for.
FaultyAddLock(t) ==
  /\ pc[t] = "add"
  /\ owner' = [owner EXCEPT ![AddQ(t)] = t]
  /\ Goto(t, "link")
  /\ UNCHANGED <<proc, loopWorking, arg, head, tail, next, fifo, cases>>

\* addJob and addIOJob: Lock ...
AddLock(t) ==
  /\ pc[t] = "add" /\ owner[AddQ(t)] = Nobody
  /\ owner' = [owner EXCEPT ![AddQ(t)] = t]
  /\ Goto(t, "link")
  /\ UNCHANGED <<proc, loopWorking, arg, head, tail, next, fifo, cases>>

\* The testcase is pushed in front of the list.
FaultyLink(t) ==
  LET q == AddQ(t)
  IN  /\ pc[t] = "link"
      /\ next' = [next EXCEPT ![q] = [j \in Jobs |-> IF j = arg[t] THEN head[q] ELSE @[j]]]
      /\ head' = [head EXCEPT ![q] = arg[t]]
      /\ Goto(t, "tail")
      /\ UNCHANGED <<proc, loopWorking, arg, owner, tail, fifo, cases>>

\* ... hang the testcase on the head pointer or on the tail's link ...
Link(t) ==
  LET q == AddQ(t)
  IN  /\ pc[t] = "link"
      /\ IF head[q] = Null
           THEN /\ head' = [head EXCEPT ![q] = arg[t]]
                /\ UNCHANGED next
           ELSE /\ next' = [next EXCEPT ![q] =
                              [j \in Jobs |-> IF j = tail[q] THEN arg[t] ELSE @[j]]]
                /\ UNCHANGED head
      /\ Goto(t, "tail")
      /\ UNCHANGED <<proc, loopWorking, arg, owner, tail, fifo, cases>>

\* Unlock is forgotten.
FaultySetTail(t) ==
  LET q == AddQ(t)
  IN  /\ pc[t] = "tail"
      /\ tail' = [tail EXCEPT ![q] = arg[t]]
      /\ fifo' = [fifo EXCEPT ![q] = Append(@, arg[t])]
      /\ Goto(t, IF t = Main THEN "new" ELSE "loop")
      /\ UNCHANGED <<proc, loopWorking, arg, owner, head, next, cases>>

\* ... move the tail and Unlock.
SetTail(t) ==
  LET q == AddQ(t)
  IN  /\ pc[t] = "tail"
      /\ tail' = [tail EXCEPT ![q] = arg[t]]
      /\ owner' = [owner EXCEPT ![q] = Nobody]
      /\ fifo' = [fifo EXCEPT ![q] = Append(@, arg[t])]
      /\ Goto(t, IF t = Main THEN "new" ELSE "loop")
      /\ UNCHANGED <<proc, loopWorking, arg, head, next, cases>>

-----------------------------------------------------------------------------
\* The parsed testcase is not handed to addIOJob.
FaultyDoParsing(t) ==
  /\ pc[t] = "got" /\ t \in Workers
  /\ stage' = [stage EXCEPT ![arg[t]] = MODEL_END_STAGE]
  /\ Goto(t, "loop")
  /\ UNCHANGED <<proc, loopWorking, arg, lists, live, files, records>>

\* dwLoopWork: a testcase at READ_END_STAGE is parsed, modelled and cut; one at
\* any other stage is dropped.
DoParsing(t) ==
  /\ pc[t] = "got" /\ t \in Workers
  /\ IF StageOf(arg[t]) = READ_END_STAGE
       THEN /\ stage' = [stage EXCEPT ![arg[t]] = MODEL_END_STAGE]
            /\ Goto(t, "add")
       ELSE /\ UNCHANGED stage
            /\ Goto(t, "loop")
  /\ UNCHANGED <<proc, loopWorking, arg, lists, live, files, records>>

\* setStage(READ_END_STAGE) is missing.
FaultyDoReading(t) ==
  /\ pc[t] = "got" /\ t = IO /\ StageOf(arg[t]) # MODEL_END_STAGE
  /\ Goto(t, IF StageOf(arg[t]) = INIT_STAGE THEN "add" ELSE "loop")
  /\ UNCHANGED <<proc, loopWorking, arg, lists, cases>>

\* dwLoopIOWork, INIT_STAGE; the default case drops the testcase.
DoReading(t) ==
  /\ pc[t] = "got" /\ t = IO /\ StageOf(arg[t]) # MODEL_END_STAGE
  /\ IF StageOf(arg[t]) = INIT_STAGE
       THEN /\ stage' = [stage EXCEPT ![arg[t]] = READ_END_STAGE]
            /\ Goto(t, "add")
       ELSE /\ UNCHANGED stage
            /\ Goto(t, "loop")
  /\ UNCHANGED <<proc, loopWorking, arg, lists, live, files, records>>

\* The row is appended before the files are written.
FaultyWriteFiles(t) ==
  /\ pc[t] = "got" /\ t = IO /\ StageOf(arg[t]) = MODEL_END_STAGE
  /\ records' = Append(records, arg[t])
  /\ Goto(t, "record")
  /\ UNCHANGED <<proc, loopWorking, arg, lists, stage, live, files>>

\* dwLoopIOWork, MODEL_END_STAGE: doWriting fills output/<name>/ ...
WriteFiles(t) ==
  /\ pc[t] = "got" /\ t = IO /\ StageOf(arg[t]) = MODEL_END_STAGE
  /\ files' = files \cup {arg[t]}
  /\ Goto(t, "record")
  /\ UNCHANGED <<proc, loopWorking, arg, lists, stage, live, records>>

\* ... and appends the testcase's row to recordsForExcel.txt; then the loop
\* marks the testcase WRITE_END_STAGE and deletes it.
WriteRecord(t) ==
  /\ pc[t] = "record"
  /\ records' = Append(records, arg[t])
  /\ stage' = [stage EXCEPT ![arg[t]] = WRITE_END_STAGE]
  /\ live' = live \ {arg[t]}
  /\ Goto(t, "loop")
  /\ UNCHANGED <<proc, loopWorking, arg, lists, files>>

\* readallfile calls exit() on a file it cannot read, and the at() calls of the
\* parser throw on text they do not expect: either ends the whole process.
Abort(t) ==
  /\ Faults /\ pc[t] = "got"
  /\ proc' = "aborted"
  /\ UNCHANGED <<loopWorking, pc, arg, lists, cases>>

-----------------------------------------------------------------------------
ListStep(t) ==
  \/ GetLock(t) \/ LookEmpty(t) \/ LookFound(t) \/ Take(t)
  \/ AddLock(t) \/ Link(t) \/ SetTail(t)

WorkStep(t) ==
  \/ Loop(t) \/ DoParsing(t) \/ DoReading(t) \/ WriteFiles(t) \/ WriteRecord(t)

LooperStep(t) == ListStep(t) \/ WorkStep(t)

MainStep ==
  \/ NewTestCase \/ AddLock(Main) \/ Link(Main) \/ SetTail(Main)
  \/ StartThreads \/ Join \/ Rejoin

Step ==
  /\ proc = "running"
  /\ \/ MainStep
     \/ SetLoopWorking
     \/ \E t \in Loopers : LooperStep(t) \/ Abort(t)

\* The process is gone.
Ended == proc # "running" /\ UNCHANGED vars

Next == Step \/ Ended

Spec == Init /\ [][Next]_vars

-----------------------------------------------------------------------------
(***************************************************************************)
(* Properties.                                                             *)
(***************************************************************************)

\* Program locations: between two operations, then inside them.
Idle == {"off", "new", "join", "rejoin", "stdin", "loop", "get", "done"}
Busy == {"look", "take", "got", "add", "link", "tail", "record"}

\* Type invariant.
TypeOK ==
  /\ proc \in {"running", "exited", "aborted"}
  /\ loopWorking \in BOOLEAN
  /\ pc \in [Threads -> Idle \cup Busy]
  /\ arg \in [Threads -> Pointers]
  /\ owner \in [Queues -> Threads \cup {Nobody}]
  /\ head \in [Queues -> Pointers]
  /\ tail \in [Queues -> Pointers]
  /\ next \in [Queues -> [Jobs -> Pointers]]
  /\ stage \in [Jobs -> INIT_STAGE .. WRITE_END_STAGE]
  /\ live \in SUBSET Jobs
  /\ files \in SUBSET Jobs
  /\ records \in Seq(Jobs)
  /\ fifo \in [Queues -> Seq(Jobs)]

\* Thread t is between Lock and Unlock of list q.
Inside(t, q) ==
  \/ pc[t] \in {"look", "take"} /\ q = GetQ(t)
  \/ pc[t] \in {"link", "tail"} /\ q = AddQ(t)

\* The testcase thread t is responsible for.
Held(t) == IF pc[t] \in {"got", "add", "link", "tail", "record"} THEN arg[t] ELSE Null

\* A lock is held by exactly the thread inside the list's critical section, so
\* no two threads are ever inside one together.
MutualExclusion == \A q \in Queues, t \in Threads : Inside(t, q) <=> owner[q] = t

\* The pointers spell list q: the head is its first testcase, the tail its last,
\* each link leads to the following one, and a NULL tail means it is empty.
\* While a thread is between Link and SetTail its testcase already hangs on the
\* list's end.
ListRep(q) ==
  LET s == fifo[q]
      Linking(j) == \E t \in Threads : pc[t] = "tail" /\ AddQ(t) = q /\ arg[t] = j
  IN  /\ tail[q] = IF s = <<>> THEN Null ELSE s[Len(s)]
      /\ IF s = <<>> THEN head[q] = Null \/ Linking(head[q]) ELSE head[q] = s[1]
      /\ \A i \in 1 .. Len(s) - 1 : next[q][s[i]] = s[i + 1]
      /\ \A t \in Threads : pc[t] = "tail" /\ AddQ(t) = q =>
           IF s = <<>> THEN head[q] = arg[t] ELSE next[q][s[Len(s)]] = arg[t]

\* mpHead, mpTail and the links spell both lists in the order of the additions:
\* the links a testcase keeps from an earlier visit, and the links nobody has
\* written, are never part of a list.
ListsSpellFifo == \A q \in Queues : ListRep(q)

\* No testcase is lost, duplicated or used after delete: every testcase that is
\* constructed and not deleted is at exactly one place (one position of one list,
\* or in the hands of one thread), and only such testcases are anywhere.
OnePlaceEach ==
  /\ \A q, r \in Queues : \A i \in 1 .. Len(fifo[q]), k \in 1 .. Len(fifo[r]) :
       fifo[q][i] = fifo[r][k] => q = r /\ i = k
  /\ \A t \in Threads : Held(t) # Null =>
       /\ Held(t) \in live
       /\ \A u \in Threads : Held(u) = Held(t) => u = t
       /\ \A q \in Queues : \A i \in 1 .. Len(fifo[q]) : fifo[q][i] # Held(t)
  /\ \A q \in Queues : \A i \in 1 .. Len(fifo[q]) : fifo[q][i] \in live
  /\ \A j \in live : \/ \E t \in Threads : Held(t) = j
                     \/ \E q \in Queues : \E i \in 1 .. Len(fifo[q]) : fifo[q][i] = j

\* The stages the code of thread t expects of the testcase it holds.
StagesFor(t) ==
  CASE t \in Workers -> IF pc[t] = "got" THEN {READ_END_STAGE} ELSE {MODEL_END_STAGE}
    [] t = IO        -> CASE pc[t] = "got"    -> {INIT_STAGE, MODEL_END_STAGE}
                          [] pc[t] = "record" -> {MODEL_END_STAGE}
                          [] OTHER            -> {READ_END_STAGE}
    [] OTHER         -> {INIT_STAGE}

\* A testcase is never where the loops would drop it: the job list holds only
\* testcases at READ_END_STAGE, the IO list only ones at INIT_STAGE or
\* MODEL_END_STAGE, and a thread holds a testcase at the stage its next step
\* expects.  (Both loops silently forget a testcase at any other stage.)
StageFitsPlace ==
  /\ \A i \in 1 .. Len(fifo["job"]) : stage[fifo["job"][i]] = READ_END_STAGE
  /\ \A i \in 1 .. Len(fifo["io"]) : stage[fifo["io"][i]] \in {INIT_STAGE, MODEL_END_STAGE}
  /\ \A t \in Threads : Held(t) # Null => stage[Held(t)] \in StagesFor(t)

\* Testcases are read in the order of the menu, whatever the workers do: every
\* testcase that is past reading has all earlier ones past reading too.
ReadInMenuOrder ==
  \A j \in Jobs : stage[j] # INIT_STAGE => \A i \in 1 .. j - 1 : stage[i] # INIT_STAGE

\* Rows may leave menu order, but a row passes over fewer testcases than there
\* are workers: only one that another worker was still busy with.
OvertakingBounded ==
  \A p \in 1 .. Len(records) :
    Cardinality({i \in 1 .. records[p] - 1 : \A k \in 1 .. p - 1 : records[k] # i})
      < Cardinality(Workers)

\* The output survives any ending of the process: a testcase has at most one row,
\* a row stands for complete files and a finished testcase, and at most one
\* testcase (the one being written) has files and no row.
OutputConsistent ==
  /\ \A p, k \in 1 .. Len(records) : records[p] = records[k] => p = k
  /\ \A p \in 1 .. Len(records) :
       records[p] \in files /\ records[p] \notin live /\ stage[records[p]] = WRITE_END_STAGE
  /\ \A j \in files : \/ \E p \in 1 .. Len(records) : records[p] = j
                      \/ pc[IO] = "record" /\ arg[IO] = j

\* main returns only after "exit" was read and the first worker has handed on
\* what it was working on; it says nothing of the other threads.
ExitAfterFirstWorker ==
  proc = "exited" =>
    /\ ~loopWorking
    /\ pc[FirstWorker] = "done"
    /\ \A j \in live : stage[j] \in {INIT_STAGE, READ_END_STAGE} \/
         (\E i \in 1 .. Len(fifo["io"]) : fifo["io"][i] = j) \/
         (\E t \in Loopers \ {FirstWorker} : Held(t) = j)

-----------------------------------------------------------------------------
\* MgrJob implements Pipeline: a list is the sequence it spells and a thread
\* holds what it took and has not yet handed on.
P == INSTANCE Pipeline WITH
       ioQ     <- fifo["io"],
       jobQ    <- fifo["job"],
       held    <- [t \in Threads |-> Held(t)],
       made    <- arg[Main],
       stopped <- ~loopWorking

\* Every step of the scheduler, with its locks and pointers, is a step of
\* Pipeline or leaves Pipeline's state alone.
ImplementsPipeline == P!PSpec

-----------------------------------------------------------------------------
\* Fairness: the operating system runs every thread that can run.
Fairness ==
  /\ WF_vars(proc = "running" /\ MainStep)
  /\ \A t \in Loopers : WF_vars(proc = "running" /\ LooperStep(t))

\* ... and a thread that keeps asking for a lock which keeps being released gets it.
LockFairness ==
  \A t \in Loopers : /\ SF_vars(proc = "running" /\ GetLock(t))
                     /\ SF_vars(proc = "running" /\ AddLock(t))

LiveSpec == Spec /\ Fairness /\ LockFairness

\* Unless the program is stopped, every testcase of the menu gets its row.
AllWritten == <>(~loopWorking \/ \A j \in Jobs : \E p \in 1 .. Len(records) : records[p] = j)

\* Once "exit" is read the program ends, whatever the workers were doing.
StopEnds == ~loopWorking ~> proc # "running"

=============================================================================
