SPECIFICATION FairSpec
CONSTANTS
  Programs = {"ex21", "ex22", "ex23", "ex25", "ex27", "ex32", "ex33"}
  NUM_CLIENTS = 3
  Length <- OneLong
  ROUNDS = 2
  BACKLOG = 2
  Unruly = {1}
  Faults = {"create_fails", "accept_fails"}
INVARIANTS
  TypeOK
  OwnEcho
  ForkingServerSurvives
  ZombiesBounded
PROPERTIES
  Served
