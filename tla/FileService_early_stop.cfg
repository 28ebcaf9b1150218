SPECIFICATION Spec
CONSTANTS
  c1 = c1
  c2 = c2
  f1 = f1
  f2 = f2
  d1 = d1
  d2 = d2
  Clients = {c1}
  Files = {f1}
  Data = {d1, d2}
  Mortal = {}
  Marked = {d1}
  Conns <- SoloConns
  Cmd <- SoloCmd
  Stored <- Whole
  MAX_FILES = 2
  BACKLOG = 1
  BLOCK = 2
  SOCK_BUF = 2
  MAX_DEATHS = 0
  Faults = {}
  Existing = {}
  FullFiles = {}
  NoThread = NoThread
  Free = Free
  Absent = Absent
INVARIANTS
  ReadsToEnd
