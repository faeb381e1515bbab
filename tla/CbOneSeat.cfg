SPECIFICATION FairSpec
CONSTANTS
  s1 = s1  s2 = s2  t1 = t1   m1 = m1  m2 = m2  m3 = m3
  Sels = {s1, s2}
  Seats = {t1}
  SeatOf <- OneSeat
  Mimes = {m1, m2, m3}
  Lists <- AnyList
  MaxMoves = 2
  Allowed = {m1, m2}
  Stored <- JustOne
  Faults = TRUE
  Junk = Junk
CHECK_DEADLOCK FALSE
INVARIANTS TypeOK NoOwnOffer OneReceive CancellableIsLive Persists OffersHeld KnowsSource
PROPERTIES NeverGoesBack Settles
