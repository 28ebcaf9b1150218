SPECIFICATION FairSpec
CONSTANTS
  TAILLE = 5
  ITEMS = 10
  MAX_SPURIOUS = 3
INVARIANTS
  TypeOK
  InOrder
  NoLostWakeup
PROPERTIES
  IsChannel
