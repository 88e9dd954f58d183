\* Liveness: callbacks that see EXIT wind their sessions up.
SPECIFICATION FairSpec
CONSTANTS
  Sessions = {s1, s2}
  NoSession = NoSession
  FdEvents = {"read"}
  Fds = {0, 1}
  ParentFds = {0}
  TimeClasses = {"t1s"}
  MaxCq = 1
  Obedient = TRUE
PROPERTIES
  StopsEventually
  EventsReachCallback
CHECK_DEADLOCK FALSE
