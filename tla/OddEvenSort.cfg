SPECIFICATION FairSpec
CONSTANTS
  ARRAY_SIZE = 6
  Values = {1, 2}
INVARIANTS
  TypeOK
  NoSharedCell
  ThreadsEndFirst
  Rearranged
  CountsSwaps
  Converges
PROPERTIES
  Terminates
