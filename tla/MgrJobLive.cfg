SPECIFICATION LiveSpec
CONSTANTS
  NumJobs = 2
  w1 = w1
  w2 = w2
  Workers <- MCWorkers
  FirstWorker = w1
  IO = IO
  Stop = Stop
  Main = Main
  Nobody = Nobody
  Faults = FALSE
PROPERTIES
  AllWritten
  StopEnds
