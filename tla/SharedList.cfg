SPECIFICATION FairSpec
CONSTANTS
  NB_AJOUTS = 3
  Values = {0, 1}
INVARIANTS
  TypeOK
  ReadsInOrder
  TailMatches
  ShowsAll
PROPERTIES
  Stops
