SPECIFICATION FairSpec
CONSTANTS
  sched = sched
  op1 = op1
  op2 = op2
  ch1 = ch1
  ch2 = ch2
  ch3 = ch3
  Caller <- Callers
  Operator = op1
  Chan <- Chans
  NoChan = NoChan
  MaxSnap = 1
INVARIANTS
  TypeOK
  OneCycleAtATime
PROPERTIES
  NoRollback
  JoinerSawCycleEnd
  SecondCallIsCurrent
  RunReturns
