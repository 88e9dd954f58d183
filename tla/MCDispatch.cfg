\* Two processors; sessions that the master and the workers post.
SPECIFICATION FairSpec
CONSTANTS
  Workers = {w1, w2}
  Sessions = {s1, s2}
  NoWorker = NoWorker
INVARIANTS
  SignalsOnlyWake
  ContextsAlive
  StopLeavesNothing
  NeglectOnlyByRace
PROPERTIES
  StopEnds
