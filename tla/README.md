# CArchitecture: a TLA+ model of the program

CArchitecture reads C++ testcases (folders of sources), finds which classes use
which, makes a hypergraph of the classes, cuts it into parts by repeated two-way
splits, merges parts that hang together and writes the result. This directory
holds TLA+ modules of its scheduler, its parser and its cutting algorithms, the TLC
configurations that check them on small instances, and TLAPS proofs. All source
paths below are relative to `src/CArchitecture/`; the design notes quoted are in
`src/developLog.txt` (GBK encoded).

## 1. Inventory

| Part | State | Operations | Talks to |
|---|---|---|---|
| Scheduler: `CMgrJob`, `CThread`, `CLock`, `OnParserOpenfiles`, `StopThread` | two intrusive lists of testcases, their locks, `loopWorking`, the stage of each testcase | `addJob`, `addIOJob`, `getJob`, `getIOJob`, `dwLoopWork`, `dwLoopIOWork`, `setLoopWorking` | main, IO thread, two workers and stop thread share it; calls the stages of a testcase |
| Reading: `doReading`, `dfsFolder`, `readEachfile`, `CReadCpp`, `CReadH` | the files found, `hmap` (headers by name without folder), the list of sources; of each file its classes or methods, includes and global text | walk the folders, scan files; `exit()` on an unreadable one, an end in `readdir` on a folder that cannot be opened (WIN32: passed over) | called by the IO thread; a worker parses what it left |
| Symbol resolution: `doParsing`, `findsymbol`, `findtype`, `dealwithTypeDef` | `mapForTypeDef`, `calledrelation` (the callers of each class), the queue and the marks of a walk through include files | search the type of a name in method, class, source and include files | called by a worker |
| Hypergraph: `createHypergraph`, `CHypergraph` | vertices, `eptr`/`eind`, weights, sons, father | build from the relations | called by `doModeling` |
| Adjacency lists and measures: `CMygraph`, `FindCutEdges`, `FindCutNodes`, `NodeRank`, `ComputeModularity` | arc lists | pure | used by the refinement and by `mergeParts` |
| Seeding: `coarseningGraph`, `subpartition` | clusters; `part_res` (uninitialised) | cluster vertices, grow a half from a seed | called by `myPartition` |
| Refinement: `myFM`, `HillClimbing`, `CHeapSort` | partition, heap of moves, zero counts, stack of stones | move cut vertices, take moves back | called by `myPartition` |
| Two-way split: `myPartition` | seeds drawn, best split so far | ten rounds of seed, grow, refine | called by `doHmetis` |
| Split tree: `doHmetis`, `createSubGraph`, `dfsForWriteParts` | queue and tree of graphs | split, number the leaves | called by `doModeling` |
| Merging: `mergeParts` | `mapForLastPart` | merge parts with more than one common edge | called by `doHmetis` |
| Writing: `doWriting` | `output/<name>/`, `recordsForExcel.txt` | write files, append a row | called by the IO thread |
| Logger: `CLog` | linked list of notes, its lock, `clog.txt` | `CLogNote`, `addCLogWrite`, `getCLogWrite`, `loop` | main (a note per testcase) and the workers (notes per file and per name looked up) add; the log thread takes and writes |
| `OptimalSteps`, `HillClimbingBigEdgeFirst`, `doPartition`, `HeapSort::HeapSort` | | unused code | |

What is hard here. The scheduler has five threads and the log one more; their
lists have links that are never initialised or cleared; a testcase at an
unexpected stage is dropped without a word; the process can end while threads work. The cutting code is
sequential, but reads two arrays it never initialises, draws seeds at random,
keeps gains and counts by increments, takes moves back from a stack, renumbers
vertices at every level of a tree of any shape, and ends its loops on conditions
that are far from obvious. The parser follows include files that may include each
other, guesses declarations from the words before a name, and depends on the order
in which the file system lists files. `PROJECT.json` lists these hazards line by line with
the properties aimed at them.

## 2. Modules

| Module | Models | State and actions |
|---|---|---|
| `MgrJob` | scheduler | `head`/`tail`/`next`/`owner` per list (`"job"` and `"io"` name the two lists; `addJob`/`addIOJob` and `getJob`/`getIOJob` are the same code on each), `pc` and `arg` per thread, `stage`, `live`, `files`, `records`. A list operation is Lock, look or link, finish with Unlock. `fifo` is a history variable no step reads |
| `Pipeline` | what the scheduler promises | lists as sequences, list operations in one step |
| `FirstSeen`, `Hypergraph`, `HeapSort`, `Seeding` | pure algorithms of the cutting code | operators named after the methods |
| `HillClimb` | `myFM`, `HillClimbing` | one action per loop iteration; `trail` is a history of the stones |
| `MyPartition` | `myPartition`, extends `HillClimb` | drawing, trying, keeping, with the climb's own actions in between; `tried` is a history |
| `Reading` | `doReading` with `dfsFolder`, `readEachfile`, `CReadH`, `CReadCpp` | one action per file found (`dfsFolder`) and per file scanned (`ReadHeader`, `ReadSource`); `Unreadable` is `exit()`, `NoFolder` a folder that cannot be opened. A folder is its path, of any depth; `folder` is the one the walk is in |
| `Parsing` | `doParsing`, `createHypergraph`, extends `Reading` | `todo` holds the uses `findsymbol` has still to look at; one action for the near search, one per include file of the walk, one for the relation, one for the hypergraph |
| `RootGraph` | what `createHypergraph` hands over | `IsRoot`, which `SplitTree` assumes (`RootsAssumption`); `InOrder` and `OneEdgePerClass`, with which the `MC` modules keep to graphs the program can make. `ParsingProof` proves all three of `Parsing` (`GraphShape`) |
| `SplitTree` | `doHmetis`, `createSubGraph`, `dfsForWriteParts` | the tree as a sequence of nodes, the queue of positions in it; `PartsBefore` is the recursion of `dfsForWriteParts`: its argument `parts` at each graph |
| `MergeParts` | `mergeParts`, the numbering in `doWriting`, extends `SplitTree` | one action per round, one per line written; its `Next` is the cutting of a testcase from its hypergraph to `partition.txt` |
| `CLog` | the log | `head`/`tail`/`next`/`owner`, one action per piece of `addCLogWrite` and `getCLogWrite` as in `MgrJob`; `Exit` ends the process anywhere; `added` is a history |
| `MgrJobProof` | proofs about the scheduler and its refinement of `Pipeline` | |
| `CLogProof` | proofs about the log | |
| `SeqLemmas` | induction and recursion for the provers; lemmas about sequences and the operators of `FirstSeen` | |
| `GraphLemmas` | lemmas about the operators of `Hypergraph`, `HeapSort` and `Seeding` | |
| `HillClimbProof`, `MyPartitionProof` | proofs about the climb and the two-way split | |
| `MergePartsProof` | proofs about the split tree, the merging and `partition.txt` | |
| `ParsingProof` | proofs about reading, parsing and the construction of the hypergraph | |
| `MC...` | instances for TLC | graphs and model values |

Modelling decisions.

* *Threads.* `StartThreads` starts all threads in one step: a thread that is
  not created yet cannot be told from one that is not scheduled yet.
  `loopWorking` is read without a lock, as in the code.
* *Process end.* `Abort` stands for `exit()` in `readallfile` and for exceptions
  of the parser's `at()` calls. The second join of the same thread is undefined:
  it returns, or ends the process.
* *Uninitialised memory.* `part_res` beyond the grown half and `seedmap` hold
  anything: the model takes every choice the code can tell apart (0 or not for
  `part_res`, 1 or not for `seedmap`).
* *Random draws* are `\E` over all seeds.
* *Arithmetic.* Modularities are rationals with small denominators. They are kept
  exactly, as integers scaled by `Unit * Unit`, where `Unit` is a multiple of all
  vertex counts that occur. The code uses doubles, so a tie between two equal
  rationals computed along different paths is decided by rounding there; the
  model decides it as equal.
* *Texts.* A file is a sequence of items (include, class, method, phrase), a body
  a sequence of phrases, a phrase a run of words with the `->` or `.` after it.
  That is all `findtype` and `findsymbol` can tell apart: the word before a word,
  and the first occurrence of it. Words are numbers, as `std::map` orders its keys
  and the order decides which typedef wins and how classes are numbered. Two
  quirks are kept: includes after the first class (method) are not seen, and a
  header without a class has none; on the POSIX branch a file is a header if an
  "h" occurs anywhere in its name, and a `.cc` file is not seen at all.
* *Definitions by choice.* Where the code fills a `std::map` entry by entry and
  the first entry of a key wins (`getclass`, `dealwithTypeDef`), the model says
  which entry that is instead of repeating the loop; `Sorted` is the only
  increasing sequence of a set.
* *Files* come in any order the file system may give, as long as a subfolder is
  finished before the walk goes on. Any folder the walk comes to may fail to open.
* *Typedefs.* `dealwithTypeDef` also splits at commas and refuses lines with braces
  or brackets; here a typedef is a phrase, that is, a line it accepts.
* *The last write.* Row, stage and deletion of a written testcase are one step
  (`WriteRecord`): no list and no other thread has the testcase then, and an end of
  the process between them leaves the same files as one before or after.
* *Split tree.* `SplitTree` lets `myPartition` refuse or return any partition,
  so its properties do not rest on how good the cuts are. The root is any graph
  with the shape `IsRoot`. Where `pMyGraph` was never set, `mergeParts` loops over
  the edges of whatever is there: `WildGraph` crashes, hangs or goes on (what it might
  overwrite elsewhere is not modelled). `floor` is 1 for the root alone and is read
  as that.
* *Left out of modelled functions:* console output, time measuring, coupling and
  cohesion of subgraphs (no output shows them), `objectrelation` with all that only
  serves it (a local map that is dropped unread), counts and member flags of
  callers, the fathers of classes, the coarse graph's edges (never
  read, as the graph is coarsened once), memory that is never freed.
* Operators named `Faulty...` are slips the code invites. No action uses them;
  each property has one that it must catch.

## 3. Runs

| Run | Instance | Shows |
|---|---|---|
| `scheduler_safety` | 3 testcases, 2 workers, aborts on | `MutualExclusion`, `ListsSpellFifo`, `OnePlaceEach`, `StageFitsPlace` (lists right, nothing lost, doubled or dropped), `ReadInMenuOrder`, `OvertakingBounded` (how far rows leave menu order), `OutputConsistent` (output at any ending), `ExitAfterFirstWorker`, and the refinement `ImplementsPipeline` |
| `scheduler_live` | 2 testcases | `AllWritten`, `StopEnds` |
| `log` | main and 2 workers, 2 notes each | `LogSpells` (the list is right), `LogWithoutGaps` (`clog.txt` however the process ends), `NotesWritten` |
| `climb` | all graphs of 5 vertices, numbered as they occur, and 3 edges of 1 to 4 vertices, weights 0 and 1 (whole edges begin with different classes), every seed and every content of `part_res`, 3 moves | the bookkeeping of the climb stays true (`ZeroCountsTrue`, `RenewedGainsTrue`, `MovesOnce`), a move from a fresh heap is the best (`BestMoveAfterRenew`), and the climb returns exactly to its summit (`StackUndoes`, `ReturnsSummit`) |
| `partition` | 6 vertices, 3 interval edges as `createHypergraph` can make them, 2 rounds, 3 moves | `ClustersPartition`, `GrowsToHalf`, `BestKept`, and termination by a variant (`VariantDecreases`) |
| `parsing` | three testcases (`testcases/hTest_1`; one with members, typedefs and odd expressions; one with folders of three levels, colliding headers and odd names) and 1024 testcases in which three headers include each other in every way and any of them declare the variable; every order of the files, both platforms, unreadable files, folders that cannot be opened | `NearestDeclaration` (the walk ends at the nearest declaration, or with none if none can be reached), `WalkNarrows` (it ends), `EdgesFromCalls` (the edges are exactly the calls, headers of one name notwithstanding), `GraphShape` (what the cutting code takes for granted, numbered in order, one edge per called class), `RecordedOutput` (the model gives the vertices and edges recorded in `output/hTest_1`, whatever the order of the files) |
| `cutting` | six hypergraphs of 0 to 5 vertices and up to 6 edges, every answer of `myPartition` | `LeavesPartition`, `EdgesProject`, `PartsNumbered` and `QueueDrains` of the tree, `ChainsDescend`, `NoRoundInVain` and `PartsApart` of the merging (its loops end, and with what), `LabelsInOrder` (the file against the tree: classes no split has parted are written together), `PartitionWritten` (the whole of it ends with a line per class, unless a root too small to split makes `mergeParts` crash or hang) |

Five runs show where the program and its notes disagree (`findings` in
`PROJECT.json` quotes the lines):

* `climb_best_move`: while the gains are not renewed, `getMax` takes the last
  entry of the heap, which need not be the best.
* `partition_one_sided`: a split can be accepted that leaves all vertices in one
  part, with a modularity it does not have. A test in `HillClimbing` compares a
  part that is 1 with 0, and edges that become cut during the climb are not tracked,
  so gains go stale; the stale gain is recorded on the stone and compared with
  `CRITICAL`. `doHmetis` then makes a son without vertices and divides neither,
  although the climb went through a split in two with the same modularity. The
  attempt to prove the opposite (`SplitsInTwo`) led to the graph of this run: eight
  classes, three edges.
* `partition_halves`: the start partition need not have two halves, because
  `part_res` is not initialised; all six vertices can start in part 0.
* `parsing_members`: `findtype` takes the word before the first occurrence of a
  name, so in `return x->f()` the member `x` is of type "return" and the class
  that declares it is never asked; the call makes no edge.
* `split_tree_small`: with fewer than three classes `mergeParts` uses `pMyGraph`
  before anything has set it. The run leaves the testcase without calls out and shows
  one edge of two classes.

*Bounds.* Three testcases and two workers let one testcase overtake another, give
lists of length 0 to 3 and let both workers meet at one list; the stop comes at
any moment. Two notes of each of three threads fill and empty the log's list several
times. The proofs remove these bounds, and those below, for all safety properties but
`RecordedOutput`, which is about one testcase. Five or
six vertices give both halves inner edges, cut edges of several sizes, ties and
stale gains; three moves of at most `iDistance` (20 in the code) include the end
by exhaustion, by the last entry and by the limit; two rounds (10 in the code)
include a repeated seed, a marked seed and a worse second climb. Graphs of five
vertices give split trees of three levels with leaves on each and up to five parts,
which allow rounds with two merges and several rounds. Three headers give every
kind of cycle, headers reached along two ways and at two distances, and
declarations that compete; the rest of what parsing tells apart is in the three
hand-made testcases.

*Fairness.* `AllWritten` assumes that the operating system runs every thread that
can run (weak fairness of a thread's steps) and that a thread which keeps asking
for a mutex that keeps being released gets it (strong fairness of `Lock`): the
loops take and release the locks without sleeping, so weak fairness alone lets
one thread be shut out for ever. `StopEnds` is checked under the same assumptions.
Nothing is assumed of the stop thread: "exit" may never come. `NotesWritten` assumes
the same of the log: threads run, and a writer gets a lock the log thread keeps
releasing (it sleeps without it); no writer has to make a note and the process may
end at any moment.
`PartitionWritten` is about sequential code and assumes only that it goes on.

Deadlock is checked in every run: an ended process, a returned function and a
closed file are explicit stuttering steps, so a state without a step would be an
error of the model or of the program.

## 4. Proofs

Every theorem holds for all values of the constants that satisfy the named
assumptions; TLC evaluates these on every run. They are: the threads of the
scheduler have different names, the first worker is a worker and the workers are
finitely many (`WorkersAssumption`, which only the bound on overtaking needs);
`NumJobs`, `END_NUM`, `iDistance`, `MaxRounds` and `Unit` are numbers; every graph to cut is a
graph (`GraphsAssumption`: the edges are lists of different vertices, at least one
each, with natural weights) and has no vertex outside all edges
(`CoverAssumption`: `createHypergraph` and `createSubGraph` number the vertices of
edges only) and at least three vertices (`SizeAssumption`: `doHmetis` divides no
smaller one; half of a single vertex would be none, and the seed one too many); and
`CRITICAL` is not below the value `modularity` starts with
(`CriticalAssumption`; 0.0 against -10000 in the code). The last one is needed: with
a smaller `CRITICAL` a split could count as good and yet never be kept. The tree
assumes of `pHyper` that it is a root (`RootsAssumption`), which is what the parser is
proved to hand over. The parser assumes only what a file is (`ProjectsAssumption`): it
has a name and is a sequence of items, the names in the items are words, and a body is a
sequence of phrases, each with `->`, `.` or neither after it. That is no restriction of
the testcases: it says how module `Reading` writes texts down.

### Scheduler

`MgrJobProof`: `TypeCorrect`, `Exclusion`, `ListsCorrect`, `NoLossNoDuplicate` and
`NothingDropped` are `Spec => []P` for `TypeOK`, `MutualExclusion`,
`ListsSpellFifo`, `OnePlaceEach` and `StageFitsPlace`. None of these is inductive
alone. Unlinking a testcase keeps the list right only if the list is not empty,
which the thread saw in the step before and the lock preserves; linking keeps it
right only if nobody else is linking and the testcase is on no list; a pointer is a
testcase only if its holder really holds one. The inductive invariant `IInv` is the
conjunction of the five properties with `Phases` (main makes testcases before the
loops run), `HoldersHold` (a thread at work has a testcase) and `TakersFind`
(between the look and the unlink the list is not empty). There is one lemma per
kind of step, with one step per conjunct it can disturb; `NextIInv` puts them
together and `Invariance` is `Spec => []IInv`.

The second part of `MgrJobProof` builds on `IInv`: `MenuOrder` (`ReadInMenuOrder`), `OutputSafe`
(`OutputConsistent`), `OvertakingLimited` (`OvertakingBounded`) and `OrderlyExit`
(`ExitAfterFirstWorker`). The strengthening has three parts. `Lifecycle` says how
far the joins of the main thread have come, what the flag is and that an ended
worker has seen it, from which the exit follows. `Made`, `FilesFirst`,
`UnreadInOrder`, `JobListInOrder` and `TakenInMenuOrder` say where the order of the
menu is while a testcase moves: the unread ones are a tail of the menu, the read
ones pass the job list and come to the workers in its order. For the overtaking,
`FewPassed`: the testcases a parsed one has passed over are all held by workers,
one each, so they are fewer than the workers.

The third part is the refinement: `Refinement` is `Spec => ImplementsPipeline`. Taking a lock, looking
at a list, linking, and the steps of the threads that touch no list are stuttering
of `Pipeline`; a put takes effect at its last step (the tail is set and the lock
given back), a get at the unlink. That these are steps of `Pipeline` needs the
lists to be right (`IInv`).

### Log

`CLogProof`: `LogListCorrect` (`LogSpells`) and `LogComplete` (`LogWithoutGaps`).
The invariant adds to the two what each thread knows between its steps under the
lock, that a note is linked once, and that the notes added, in order, are those in
the file, the one in the log thread's hands and those on the list.

### Climb

`HillClimbProof` rests on `ClimbInv`, the conjunction of the run's invariants with
`Cuts` (what `myFM` hands over is made of edges and vertices of the graph),
`MovesApart` (no vertex is in the list twice), `StonesMatch` (a stone and the one
below it differ by the stone's move), `SummitAhead` (the largest modularity is
recorded on the hill and not above it) and `SummitReached`. From it follow
`ClimbTypeCorrect` (no division by zero, no counter below 0), `UndoCorrect`,
`NoVertexTwice`, `CountsCorrect`, `GainsCorrect` and `SummitReturned`, on every
hypergraph and for every number of moves. `BestMoveFirst` (`BestMoveAfterRenew`)
adds that the ranks of different cut vertices differ (`RanksApart`), so that
`Better` orders the moves, and that building the heap puts the best at the root.

Most of the work is in `SeqLemmas` and `GraphLemmas`: what the loops of the code
compute. The definitions are recursive functions, and the provers cannot use the
library's induction theorems, as those take an operator. `NatSetInduction` is the same
fact about a *set* of numbers, which they can use; from it `LoopExists` and
`LoopFollows` show that a loop with a body on a set is a function and follows
its body, and `RecursionExists` and `RankInduction` the same of a definition that
recurses along any rank (a tree, a chain). On these rest that sifting rearranges the
heap without losing an entry, that a built heap has its best entry at the root, that
ranks number the cut vertices without repetition, and that clusters do not overlap.

### Two-way split

`MyPartitionProof` rests on `PInv`: the variables of the seed loop (`Seeds`), the
locals of a climb being gone between climbs (`Between`), the height of the hill
(`Height`), the best climb so far (`BestSoFar`, which ties the local `modularity` to
`p->Modu`: without that a climb could be compared with another one's value) and,
during a climb, `ClimbInv`, taken over from `HillClimbProof` action by action.
`BestIsKept` is `BestKept`; `ClustersCorrect` is `ClustersPartition` (by `ClustersCluster`,
an induction along the three loops of `coarseningGraph`); `PartitionEnds` is
`VariantDecreases`: myPartition ends although a marked seed gives its round back,
because it is drawn at most once. `StartsFromHalf` is `GrowsToHalf`: an induction along
the queue of `subpartition` (`GrowHalf`) shows that more vertices have been found than
taken from the queue until half are found. In a graph of several components
that rests on the search for another seed, which finds a vertex still missing
(`AnotherSeedFacts`) because the list has no repetitions.

### Parser

`ParsingProof` is about every testcase, every order of its files and both platforms.

`ReadInv` and `ParseInv` say which shape the data have: `hmap` is a finite map of
headers, the uses in `todo` name sources and classes, `calledrelation` maps classes to
lists of callers without repetition, the class itself not among them. That the graph of
such a relation is a root is a fact about `createHypergraph` alone (`ModelIsRoot`), and
`GraphShape` is a part of `ParseInv`: theorem `ParsingGraphShape`. With the theorems
on the tree, which assume of it that the graph is a root, it joins the two halves of the
program. That the numbers follow the first occurrences (`OrderOfLists`) takes an
induction along each of two loops: `FlattenSeqOrder` (in the lists put together a class
stands behind nothing but what is before it) and `FirstSeenOrder` (dropping repetitions
keeps that order).
`ParsingWalkNarrows` (`WalkNarrows`) counts: what a header adds to the queue was never
in it, and is in `donemap` from then on.

`ParsingNearestDeclaration` (`NearestDeclaration`) is the correctness of a breadth-first
search with a queue, through headers that include each other in any way. The
property is not inductive; `WalkInv` adds `Reached`: for some distance `d`, all headers
nearer than `d` were searched; the first `k` files in the queue are at distance `d` and
all other headers at that distance were searched; the rest of the queue is one further;
what a searched header includes was put in the queue; and every distance so far took at
least one header. When the queue is empty, no header is
left at any distance (`WalkExhausts`): the distances up to the number of headers are
all there are, which takes a count of the headers searched.

`ParsingEdgesFromCalls` (`EdgesFromCalls`) combines four invariants. `FirstInv`: of the
headers scanned so far, `hmap` has the first of each name. `Meant`: `mapForTypeDef` gives
a word one of the meanings the typedefs give it, and itself if there are none.
`CallsInv`: every caller listed has a use that may be a call to the class (`Sound`), and
every use looked at that can only be a call to one class is listed (`Complete`); with
`WalkInv` at hand, `Relate` keeps both. `ModelEdges` says that `createHypergraph` makes
one edge of each entry of the relation, so that in the end the edges are the calls.

### Split tree

`MergePartsProof` is about every root, any answers of `myPartition` and any number of
splits. The invariant of `doHmetis` is `SplitInv`: the graphs are a tree (`Shaped`), the
queue holds different graphs without sons (`Waits`), `pMyGraph` is set as soon as there
is more than the root, and after `dfsForWriteParts` the parts are those of the tree
(`Numbered`). `Shaped` is the point: every graph is spanned by its edges
(`Spanned`, without which `createSubGraph` would lose vertices), sons come after their
father, and the sons of a graph are what `createSubGraph` makes of some division of it.
A split appends two graphs and touches no other, so `Shaped` is kept by looking at
one graph. The properties then follow from `Shaped` without a look at the steps, by
induction along the tree: `SplitLeavesPartition` (`LeavesPartition`) from father to
sons, `SplitEdgesProject` (`EdgesProject`) by composing two cuts of an edge into one,
`SplitPartsNumbered` (`PartsNumbered`) from the leaves dividing the vertices and from
`LeavesNumbered`: with what a graph hands its sons (`SonsHanded`), `parts` and
`parts + count`, the leaves get the numbers 0, 1, 2, ... from left to right.
`SplitQueueDrains` (`QueueDrains`) is the variant of the loop: a graph of `n` vertices can
cost `2n - 1` turns, and its sons together cost one less.

### Merging and writing

`MergeChainsDescend` (`ChainsDescend`): the loops that follow `mapForLastPart` meet
ever smaller numbers and so end. It is inductive as it stands: only that both
searches of a round look at pairs above the diagonal and that `insert` takes the larger
number as the key matters. From it and `SplitInv` follow `MergeNoRoundInVain`
(`NoRoundInVain`) and `MergeRoundsNarrow`: the end of a chain is a part that was not
merged (`ChainEndsType`), so a pair that shares edges is of such parts, and every round
leaves fewer of them. With `SplitQueueDrains` that is the safety half of
`PartitionWritten`.

`WriteInv` describes `partition.txt` line by line: the lines written so far number the
final parts of as many vertices (`Labelled`), and they are written only after no pair with
two common edges is left. `MergeLabelsInOrder` (`LabelsInOrder`) and `MergePartsApart`
(`PartsApart`) follow; the case in which `pMyGraph` was never set is covered, as there
is then one part only.

### Only model-checked

Liveness and everything under fairness (`AllWritten`, `StopEnds`, `NotesWritten`,
`PartitionWritten`), which is out of the provers' reach; for the sequential code the
theorems on `QueueDrains`, `NoRoundInVain`, `WalkNarrows` and `VariantDecreases` prove
that its loops end. `RecordedOutput`, as it is about one fixed testcase, which TLC runs
through. And the five violations of section 3, each a counterexample TLC finds.

## 5. Not modelled, and the plan

Done, in this order: `MgrJob` with `Pipeline` and its proofs; `Hypergraph`,
`HeapSort`, `Seeding`, `HillClimb`; `MyPartition`; `SplitTree`; `MergeParts` and
its proof; `CLog`; `Reading` and `Parsing`; the composition of `SplitTree` and
`MergeParts`, with `RootGraph` as the contract between the parser and the cutting.

Then the proofs: order, output and exit of the scheduler; that `MgrJob` implements
`Pipeline`; the log; the climb with its heap; the two-way split with its
clusters and its start partition; the split tree, the merging and the writing; the
parser. Nothing of the plan is left: every safety property of a run is a theorem,
`RecordedOutput` excepted.

Not modelled, and why:

* Scanning C++ text character by character in `CReadCpp` and `CReadH`, and what it
  makes of text that is odd in itself (braces in comments, a file that begins with
  a declaration, class names with an underscore). It is string processing; what it
  finds in plain text is modelled.
* `InitCalledParameter` and the `FOR_OBJECT` part of `findsymbol`: they fill
  `CallParemeter` and `objectrelation`, which nothing reads afterwards.
* The text of the output files other than the numbers in `partition.txt`.
* Unused code (`OptimalSteps`, `HillClimbingBigEdgeFirst`, `doPartition`,
  `HeapSort::HeapSort`) and the hMETIS library, which only `doPartition` would call.
* Failure to create a thread, which no code handles. Standard input that ends
  without "exit" is the case in which the stop never comes: the program then runs
  on, and `AllWritten` covers what it has to do.
* `src/testcases` and `src/output`: data the program reads as text and writes, not
  code of it. The testcases are copies of other projects' sources and make up
  nearly all of the repository's lines; of the program itself
  (`src/CArchitecture`, 4651 lines) the map covers three fifths, and most of the rest is
  the unused code above, headers, time measuring and console output.
