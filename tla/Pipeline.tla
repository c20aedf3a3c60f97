------------------------------ MODULE Pipeline ------------------------------
(***************************************************************************)
(* What CMgrJob promises, with its lists as sequences and every list       *)
(* operation as one indivisible step: each menu line becomes one testcase, *)
(* which is read, parsed and written once, in that order, each time by the *)
(* one thread that holds it.  MgrJob is shown to implement this.           *)
(***************************************************************************)
EXTENDS Integers, Sequences

CONSTANTS NumJobs, Workers, FirstWorker, IO, Stop, Main, Faults

Nothing == 0    \* a thread that holds no testcase

VARIABLES
  ioQ, jobQ,    \* the testcases waiting for the IO thread, for a worker
  held,         \* the testcase each thread is busy with
  stage,        \* how far each testcase is (the stages of TestCase.h)
  made,         \* testcases constructed so far
  records,      \* rows of recordsForExcel.txt
  stopped,      \* "exit" has been read
  proc          \* "running", "exited" or "aborted"

pvars == <<ioQ, jobQ, held, stage, made, records, stopped, proc>>

PThreads == Workers \cup {IO, Stop, Main}

PInit ==
  /\ ioQ = <<>> /\ jobQ = <<>>
  /\ held = [t \in PThreads |-> Nothing]
  /\ stage = [j \in 1 .. NumJobs |-> 0]
  /\ made = 0
  /\ records = <<>>
  /\ stopped = FALSE
  /\ proc = "running"

\* Main constructs the testcase of the next menu line.
Make ==
  /\ made < NumJobs /\ held[Main] = Nothing
  /\ made' = made + 1
  /\ held' = [held EXCEPT ![Main] = made + 1]
  /\ UNCHANGED <<ioQ, jobQ, stage, records, stopped, proc>>

\* A thread queues the testcase it holds for the IO thread (main, a worker) or
\* for the workers (the IO thread).
PutIO(t) ==
  /\ held[t] # Nothing
  /\ IF t = Main THEN stage[held[t]] = 0 ELSE t \in Workers /\ stage[held[t]] = 2
  /\ ioQ' = Append(ioQ, held[t])
  /\ held' = [held EXCEPT ![t] = Nothing]
  /\ UNCHANGED <<jobQ, stage, made, records, stopped, proc>>

PutJob ==
  /\ held[IO] # Nothing /\ stage[held[IO]] = 1
  /\ jobQ' = Append(jobQ, held[IO])
  /\ held' = [held EXCEPT ![IO] = Nothing]
  /\ UNCHANGED <<ioQ, stage, made, records, stopped, proc>>

\* The oldest waiting testcase goes to a free thread, once all are made.
GetIO ==
  /\ made = NumJobs /\ held[IO] = Nothing /\ ioQ # <<>>
  /\ held' = [held EXCEPT ![IO] = Head(ioQ)]
  /\ ioQ' = Tail(ioQ)
  /\ UNCHANGED <<jobQ, stage, made, records, stopped, proc>>

GetJob(w) ==
  /\ made = NumJobs /\ held[w] = Nothing /\ jobQ # <<>>
  /\ held' = [held EXCEPT ![w] = Head(jobQ)]
  /\ jobQ' = Tail(jobQ)
  /\ UNCHANGED <<ioQ, stage, made, records, stopped, proc>>

\* Reading and parsing move the testcase one stage on.
Read ==
  /\ held[IO] # Nothing /\ stage[held[IO]] = 0
  /\ stage' = [stage EXCEPT ![held[IO]] = 1]
  /\ UNCHANGED <<ioQ, jobQ, held, made, records, stopped, proc>>

Parse(w) ==
  /\ held[w] # Nothing /\ stage[held[w]] = 1
  /\ stage' = [stage EXCEPT ![held[w]] = 2]
  /\ UNCHANGED <<ioQ, jobQ, held, made, records, stopped, proc>>

\* A written testcase leaves a row and is gone.
Write ==
  /\ held[IO] # Nothing /\ stage[held[IO]] = 2
  /\ stage' = [stage EXCEPT ![held[IO]] = 3]
  /\ records' = Append(records, held[IO])
  /\ held' = [held EXCEPT ![IO] = Nothing]
  /\ UNCHANGED <<ioQ, jobQ, made, stopped, proc>>

RequestStop ==
  /\ made = NumJobs /\ ~stopped
  /\ stopped' = TRUE
  /\ UNCHANGED <<ioQ, jobQ, held, stage, made, records, proc>>

\* The process ends after a stop, once the first worker holds nothing; or it
\* aborts, while some thread reads, parses or writes or after the stop.
End ==
  /\ stopped /\ held[FirstWorker] = Nothing
  /\ proc' = "exited"
  /\ UNCHANGED <<ioQ, jobQ, held, stage, made, records, stopped>>

Crash ==
  /\ Faults
  /\ stopped \/ \E t \in Workers \cup {IO} : held[t] # Nothing
  /\ proc' = "aborted"
  /\ UNCHANGED <<ioQ, jobQ, held, stage, made, records, stopped>>

PNext ==
  /\ proc = "running"
  /\ \/ Make \/ PutIO(Main) \/ PutJob \/ GetIO \/ Read \/ Write
     \/ RequestStop \/ End \/ Crash
     \/ \E w \in Workers : GetJob(w) \/ Parse(w) \/ PutIO(w)

PSpec == PInit /\ [][PNext]_pvars

=============================================================================
