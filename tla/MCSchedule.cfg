SPECIFICATION FairSpec
CONSTANTS
  stopA = stopA
  stopB = stopB
  stopC = stopC
  Stopper <- Stoppers
CHECK_DEADLOCK FALSE
INVARIANTS
  TypeOK
  AtMostOneLateRun
PROPERTIES
  ClosedOnce
  StopEnds
  TickRuns
