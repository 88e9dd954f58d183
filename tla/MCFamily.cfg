\* Three generations and siblings; none of the sessions has a descriptor.
SPECIFICATION Spec
CONSTANTS
  Sessions = {s1, s2, s3}
  NoSession = NoSession
  FdEvents = {}
  Fds = {0}
  ParentFds = {0}
  TimeClasses = {"none", "t1s"}
  MaxCq = 0
  Obedient = FALSE
SYMMETRY Symmetry
INVARIANTS
  Families
CHECK_DEADLOCK FALSE
