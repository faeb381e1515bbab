SPECIFICATION Spec
CONSTANTS
  t1 = t1  t2 = t2
  Seats = {t1, t2}
  Manager = Manager
  Start = Start
  MaxFails = 0
CHECK_DEADLOCK FALSE
PROPERTY DoneIsEnough
