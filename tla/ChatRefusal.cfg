SPECIFICATION Spec
CONSTANTS
  Conns = {c1, c2}
  Names = {a}
  Empty = Empty
  Nobody = Nobody
  Capacity = 2
  MaxTexts = 0
PROPERTIES
  RefusalMeansTaken
