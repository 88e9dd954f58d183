\* Two sessions, every kind of descriptor, and three classes of timeouts.
SPECIFICATION Spec
CONSTANTS
  Sessions = {s1, s2}
  NoSession = NoSession
  FdEvents = {"read"}
  Fds <- MCFds
  ParentFds = {0}
  TimeClasses = {"none", "t100ms", "t10s"}
  MaxCq = 2
  Obedient = FALSE
SYMMETRY Symmetry
INVARIANTS
  TypeOK
  ListMatchesState
  
  ExitLeavesNothing
  InvalidOnlyByRace
CHECK_DEADLOCK FALSE
