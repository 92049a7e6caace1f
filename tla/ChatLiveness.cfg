SPECIFICATION FairSpec
CONSTANTS
  Conns = {c1, c2}
  Names = {a}
  Empty = Empty
  Nobody = Nobody
  Capacity = 1
  MaxTexts = 0
PROPERTIES
  SessionsEnd
