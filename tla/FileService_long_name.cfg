SPECIFICATION Spec
CONSTANTS
  c1 = c1
  c2 = c2
  f1 = f1
  f2 = f2
  d1 = d1
  d2 = d2
  Clients = {c1, c2}
  Files = {f1}
  Data = {d1, d2}
  Mortal = {}
  Marked = {}
  Conns <- WritersConns
  Cmd <- WritersCmd
  Stored <- Truncated
  MAX_FILES = 2
  BACKLOG = 1
  BLOCK = 2
  SOCK_BUF = 2
  MAX_DEATHS = 0
  Faults = {}
  Existing = {f1}
  FullFiles = {}
  NoThread = NoThread
  Free = Free
  Absent = Absent
INVARIANTS
  FileMutex
