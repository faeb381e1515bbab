SPECIFICATION FairSpec
CONSTANTS
  t1 = t1  t2 = t2
  Seats = {t1, t2}
  Manager = Manager
  Start = Start
  MaxFails = 1
CHECK_DEADLOCK FALSE
INVARIANTS TypeOK ReadsBalanced WaitsForLeakOnly TableFollows DoneInOrder
PROPERTIES RoundtripEnds DeadIsNoticed
