SPECIFICATION Spec
CONSTANTS
  p1 = p1  p2 = p2
  small = small  large = large  none = none
  Pastes = {p1, p2}
  Entries = {small, large, none}
  LargeSize = 4
  Size <- SizeOf
  NoData = NoData
  Room = 2
CHECK_DEADLOCK FALSE
INVARIANT DoneIsWhole
