SPECIFICATION Spec
CONSTANTS
  c1 = c1
  c2 = c2
  s1 = s1
  s2 = s2
  NoConn = NoConn
  Conns <- MCConns
  Streams <- MCStreams
  Paths <- MCPaths
  ArgSets <- MCArgSets
  MaxFd = 4
  FileLen = 2
  MaxValues = 2
  Faults = TRUE
INVARIANTS
  HeldIsOwn
  NothingLeftBehind
  FilesAreOwn
SYMMETRY MCSymmetry
CHECK_DEADLOCK FALSE
