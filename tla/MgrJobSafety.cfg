SPECIFICATION Spec
CONSTANTS
  NumJobs = 3
  w1 = w1
  w2 = w2
  Workers <- MCWorkers
  FirstWorker = w1
  IO = IO
  Stop = Stop
  Main = Main
  Nobody = Nobody
  Faults = TRUE
INVARIANTS
  TypeOK
  MutualExclusion
  ListsSpellFifo
  OnePlaceEach
  StageFitsPlace
  ReadInMenuOrder
  OvertakingBounded
  OutputConsistent
  ExitAfterFirstWorker
PROPERTY
  ImplementsPipeline
