SPECIFICATION Spec
CONSTANTS
  NB_AJOUTS = 3
  Values = {0, 1}
INVARIANTS
  ConsumerReadsAll
