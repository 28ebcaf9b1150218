SPECIFICATION FairSpec
CONSTANTS
  c1 = c1
  c2 = c2
  Clients = {c1, c2}
  Args <- Arguments
  BUF_SIZE = 2
  MAX_LOST = 1
  MAX_DUPS = 1
  Faults = {"io_fails"}
  NoDatagram = NoDatagram
INVARIANTS
  TypeOK
  InStep
  TerminatorInside
PROPERTIES
  Answered
CHECK_DEADLOCK FALSE
