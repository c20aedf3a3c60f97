SPECIFICATION LogSpec
CONSTANTS
  w1 = w1
  w2 = w2
  Workers <- MCWorkers
  Main = Main
  Logger = Logger
  Nobody = Nobody
  Null = Null
  Wild = Wild
  Quota = 2
INVARIANTS
  LogSpells
  LogWithoutGaps
PROPERTY
  NotesWritten
