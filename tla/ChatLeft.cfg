SPECIFICATION Spec
CONSTANTS
  Conns = {c1, c2}
  Names = {a}
  Empty = Empty
  Nobody = Nobody
  Capacity = 2
  MaxTexts = 1
INVARIANTS
  LeftMeansLeft
