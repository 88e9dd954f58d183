\* Two threads, three buffers for two short lines each.
SPECIFICATION Spec
CONSTANTS
  Threads = {t1, t2}
  BufCnt = 3
  BufSize = 3
  Sizes = {0, 1, 2}
  MaxLines = 4
  MaxChanges = 1
  IoErrors = TRUE
INVARIANTS
  LinesAreKept
  AllWrittenAtEnd

  
CHECK_DEADLOCK FALSE
