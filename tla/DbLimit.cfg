SPECIFICATION Spec
CONSTANTS
  i1 = i1  i2 = i2  i3 = i3
  a = a  b = b  m1 = m1  m2 = m2  d1 = d1  d2 = d2 d3 = d3
  Ids = {i1, i2, i3}
  Labels = {a}
  LabelOf <- OneLabelOf
  LimitOf <- OneLimitOf
  Mimes = {m1, m2}
  Data = {d1, d2}
  Null = Null
  MaxPos = 4
  MaxRefs = 8
  Upsert = FALSE
  Faults = FALSE
  InMemory = FALSE
INVARIANT LimitKept
