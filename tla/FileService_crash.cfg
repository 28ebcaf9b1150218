SPECIFICATION Spec
CONSTANTS
  c1 = c1
  c2 = c2
  f1 = f1
  f2 = f2
  d1 = d1
  d2 = d2
  Clients = {c1, c2}
  Files = {f1, f2}
  Data = {d1, d2}
  Mortal = {c1}
  Marked = {}
  Conns <- RivalConns
  Cmd <- RivalCmd
  Stored <- Whole
  MAX_FILES = 1
  BACKLOG = 1
  BLOCK = 2
  SOCK_BUF = 2
  MAX_DEATHS = 1
  Faults = {"accept_fails", "thread_fails"}
  Existing = {f1, f2}
  FullFiles = {f2}
  NoThread = NoThread
  Free = Free
  Absent = Absent
INVARIANTS
  WholeLines
  AckedKept
  ReadConsistent
  LocksOwnFile
PROPERTIES
  Durable
