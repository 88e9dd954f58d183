\* Two threads race on two files, with evictions, purges and limit changes.
CONSTANTS
  Threads = {t1, t2}
  a = a
  b = b
  Names = {a, b}
  Size <- MCSize
  Limits <- MCLimits
  Objs = {o1, o2, o3}
  MaxLoans = 2
  MaxTotal = 5
  NoFile = NoFile
  NoObj = NoObj
SPECIFICATION Spec
SYMMETRY Symmetry
INVARIANTS
  LoansAreCounted
  IInv
PROPERTIES
  LoansKept
  WithinLimitAfterInsert
CHECK_DEADLOCK FALSE
