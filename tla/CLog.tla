-------------------------------- MODULE CLog --------------------------------
(***************************************************************************)
(* The log: CLogNote puts a note on CLog's linked list and the log thread  *)
(* writes the notes to clog.txt.  The main thread notes every testcase it  *)
(* constructs, before the log thread starts; the workers note every file   *)
(* and every name they look up.                                            *)
(*                                                                         *)
(* A note is <<w, k>>: the k-th one of thread w.  Like the testcases on    *)
(* CMgrJob's lists, a note has a link nobody initialises.                  *)
(***************************************************************************)
EXTENDS Integers, Sequences

CONSTANTS
  Workers,    \* the threads that run doParsing
  Main,       \* the main thread
  Logger,     \* the thread that runs CLog::loop
  Nobody,     \* the holder of the lock when it is free
  Null,       \* NULL
  Wild,       \* the content of a pointer nobody has written
  Quota       \* bound: the notes a thread makes

Writers == Workers \cup {Main}
Threads == Writers \cup {Logger}
Notes   == Writers \X (1 .. Quota)

ASSUME LogThreadsAssumption ==
  /\ Main \notin Workers /\ Logger \notin Writers /\ Nobody \notin Threads
  /\ Null \notin Notes /\ Wild \notin Notes \cup {Null}

ASSUME QuotaAssumption == Quota \in Nat

VARIABLES
  alive,      \* the process runs
  pc,         \* where each thread is
  made,       \* the notes each writer has made
  owner,      \* holder of mpLock
  head, tail, \* mpHead, mpTail
  next,       \* CLogWrite::next
  dowrite,    \* the log thread's local
  clog,       \* the lines of clog.txt
  added       \* history: every note added, in the order of the additions

list == <<owner, head, tail, next, added>>
vars == <<alive, pc, made, list, dowrite, clog>>

Init ==
  /\ alive = TRUE
  /\ pc = [t \in Threads |-> IF t = Main THEN "run" ELSE "off"]
  /\ made = [w \in Writers |-> 0]
  /\ owner = Nobody
  /\ head = Null /\ tail = Null
  /\ next = [n \in Notes |-> Wild]
  /\ dowrite = Null
  /\ clog = <<>>
  /\ added = <<>>

Goto(t, l) == pc' = [pc EXCEPT ![t] = l]

\* The note a writer is adding.
Mine(w) == <<w, made[w]>>

-----------------------------------------------------------------------------
\* CLogNote constructs the note.
CLogNote(w) ==
  /\ pc[w] = "run" /\ made[w] < Quota
  /\ made' = [made EXCEPT ![w] = @ + 1]
  /\ Goto(w, "add")
  /\ UNCHANGED <<alive, list, dowrite, clog>>

\* OnParserOpenfiles starts the log thread and the workers.
StartThreads ==
  /\ pc[Main] = "run" /\ pc[Logger] = "off"
  /\ pc' = [t \in Threads |-> CASE t = Main   -> "done"
                                [] t = Logger -> "loop"
                                [] OTHER      -> "run"]
  /\ UNCHANGED <<alive, made, list, dowrite, clog>>

\* addCLogWrite: Lock ...
AddLock(w) ==
  /\ pc[w] = "add" /\ owner = Nobody
  /\ owner' = w
  /\ Goto(w, "link")
  /\ UNCHANGED <<alive, made, head, tail, next, added, dowrite, clog>>

\* Faulty: the note is pushed in front of the list.
FaultyLink(w) ==
  /\ pc[w] = "link"
  /\ next' = [next EXCEPT ![Mine(w)] = head]
  /\ head' = Mine(w)
  /\ Goto(w, "tail")
  /\ UNCHANGED <<alive, made, owner, tail, added, dowrite, clog>>

\* ... hang the note on the head pointer or on the tail's link ...
Link(w) ==
  /\ pc[w] = "link"
  /\ IF head = Null
       THEN head' = Mine(w) /\ UNCHANGED next
       ELSE /\ next' = [n \in Notes |-> IF n = tail THEN Mine(w) ELSE next[n]]
            /\ UNCHANGED head
  /\ Goto(w, "tail")
  /\ UNCHANGED <<alive, made, owner, tail, added, dowrite, clog>>

\* ... move the tail and Unlock.
SetTail(w) ==
  /\ pc[w] = "tail"
  /\ tail' = Mine(w)
  /\ owner' = Nobody
  /\ added' = Append(added, Mine(w))
  /\ Goto(w, "run")
  /\ UNCHANGED <<alive, made, head, next, dowrite, clog>>

-----------------------------------------------------------------------------
\* loop calls getCLogWrite: Lock ...
GetLock ==
  /\ pc[Logger] = "loop" /\ owner = Nobody
  /\ owner' = Logger
  /\ Goto(Logger, "look")
  /\ UNCHANGED <<alive, made, head, tail, next, added, dowrite, clog>>

\* Faulty: the early return forgets Unlock.
FaultyLookEmpty ==
  /\ pc[Logger] = "look" /\ tail = Null
  /\ Goto(Logger, "sleep")
  /\ UNCHANGED <<alive, made, list, dowrite, clog>>

\* ... leave with NULL when the tail is NULL ...
LookEmpty ==
  /\ pc[Logger] = "look" /\ tail = Null
  /\ owner' = Nobody
  /\ dowrite' = Null
  /\ Goto(Logger, "sleep")
  /\ UNCHANGED <<alive, made, head, tail, next, added, clog>>

\* Faulty: taking the last note leaves the tail pointing at it.
FaultyTake ==
  /\ pc[Logger] = "look" /\ tail # Null
  /\ dowrite' = head
  /\ head' = IF head = tail THEN Null ELSE next[head]
  /\ owner' = Nobody
  /\ Goto(Logger, "write")
  /\ UNCHANGED <<alive, made, tail, next, added, clog>>

\* ... or unlink the head and Unlock.
Take ==
  /\ pc[Logger] = "look" /\ tail # Null
  /\ dowrite' = head
  /\ IF head = tail THEN head' = Null /\ tail' = Null
                    ELSE head' = next[head] /\ UNCHANGED tail
  /\ owner' = Nobody
  /\ Goto(Logger, "write")
  /\ UNCHANGED <<alive, made, next, added, clog>>

\* writeLogFile appends a line, without the lock.
writeLogFile ==
  /\ pc[Logger] = "write"
  /\ clog' = Append(clog, dowrite)
  /\ Goto(Logger, "loop")
  /\ UNCHANGED <<alive, made, list, dowrite>>

\* sleep(1); loopwork is never cleared, so the loop goes on.
Awake ==
  /\ pc[Logger] = "sleep"
  /\ Goto(Logger, "loop")
  /\ UNCHANGED <<alive, made, list, dowrite, clog>>

\* Nobody waits for the log thread: the process ends, by main's return or by an
\* exit() of another thread, wherever the threads are.
Exit ==
  /\ pc[Main] = "done"
  /\ alive' = FALSE
  /\ UNCHANGED <<pc, made, list, dowrite, clog>>

-----------------------------------------------------------------------------
WriterStep(w) == CLogNote(w) \/ AddLock(w) \/ Link(w) \/ SetTail(w)

LoggerStep == GetLock \/ LookEmpty \/ Take \/ writeLogFile \/ Awake

Ended == ~alive /\ UNCHANGED vars

Next ==
  \/ alive /\ (StartThreads \/ LoggerStep \/ Exit \/ \E w \in Writers : WriterStep(w))
  \/ Ended

Spec == Init /\ [][Next]_vars

\* The operating system runs every thread that can run, main goes on, and a
\* writer gets the lock that the log thread keeps releasing (it sleeps without it).
LogSpec ==
  /\ Spec
  /\ WF_vars(alive /\ StartThreads)
  /\ WF_vars(alive /\ LoggerStep)
  /\ \A w \in Writers : /\ WF_vars(alive /\ (Link(w) \/ SetTail(w)))
                        /\ SF_vars(alive /\ AddLock(w))

-----------------------------------------------------------------------------
(***************************************************************************)
(* Properties.                                                             *)
(***************************************************************************)

\* What the log thread has taken and not yet written.
Carried == IF pc[Logger] = "write" THEN <<dowrite>> ELSE <<>>

\* The notes still on the list.
Waiting == SubSeq(added, Len(clog) + Len(Carried) + 1, Len(added))

\* mpHead, mpTail and the links spell the notes that wait, in the order they were
\* added, whatever unwritten links the notes carry; and the thread between Lock
\* and Unlock holds the lock, so writeLogFile, which may be slow, never keeps a
\* worker waiting.
LogSpells ==
  LET Linking(w) == pc[w] = "tail"
  IN  /\ \A t \in Threads : owner = t <=> pc[t] \in {"link", "tail", "look"}
      /\ tail = IF Waiting = <<>> THEN Null ELSE Waiting[Len(Waiting)]
      /\ Waiting # <<>> => head = Waiting[1]
      /\ \A i \in 1 .. Len(Waiting) - 1 : next[Waiting[i]] = Waiting[i + 1]
      /\ \A w \in Writers : Linking(w) =>
           Mine(w) = IF Waiting = <<>> THEN head ELSE next[Waiting[Len(Waiting)]]
      /\ (Waiting = <<>> /\ \A w \in Writers : ~Linking(w)) => head = Null

\* However the process ends, clog.txt has no gaps: it is what was added first, in
\* that order, and of every thread it has the first notes, each once.
LogWithoutGaps ==
  /\ clog \o Carried = SubSeq(added, 1, Len(clog) + Len(Carried))
  /\ \A i \in 1 .. Len(clog) : \A k \in 1 .. clog[i][2] - 1 :
       \E j \in 1 .. i - 1 : clog[j] = <<clog[i][1], k>>
  /\ \A i, j \in 1 .. Len(clog) : clog[i] = clog[j] => i = j

\* As long as the process runs, every note made gets its line.
NotesWritten ==
  \A w \in Writers : \A k \in 1 .. Quota :
    made[w] >= k ~> (~alive \/ \E i \in 1 .. Len(clog) : clog[i] = <<w, k>>)

=============================================================================
