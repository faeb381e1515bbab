SPECIFICATION Spec
CONSTANTS
  s1 = s1  s2 = s2  t1 = t1   m1 = m1  m2 = m2  m3 = m3
  Sels = {s1, s2}
  Seats = {t1}
  SeatOf <- OneSeat
  Mimes = {m1, m2}
  Lists <- OnlyFirst
  MaxMoves = 3
  Allowed = {m1, m2}
  Stored <- NoneOrOne
  Faults = FALSE
  Junk = Junk
CHECK_DEADLOCK FALSE
PROPERTY InertIsQuiet
