SPECIFICATION HistFairSpec
CONSTANTS
  i1 = i1  i2 = i2  i3 = i3  i4 = i4
  a = a  b = b  
  Ids = {i1, i2, i3}
  Labels = {a, b}
  LabelOf <- TwoLabelOf
  LimitOf <- TwoLimitOf
  Mimes = {m1, m2}
  Data = {d1, d2}
  Null = Null
  MaxPos = 4
  MaxRefs = 8
  Upsert = FALSE
  Faults = TRUE
  InMemory = FALSE
PROPERTIES Settles StartGoesOn
INVARIANTS HistTypeOK StartsAgain HeldIsNewest
