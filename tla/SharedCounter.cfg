SPECIFICATION FairSpec
CONSTANTS
  nb_threads = 3
  increments_per_thread = 2
INVARIANTS
  TypeOK
  CorrectWithMutex
  RaceBounds
PROPERTIES
  Terminates
