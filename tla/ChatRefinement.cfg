SPECIFICATION Spec
CONSTANTS
  Conns = {c1, c2}
  Names = {a, b}
  Empty = Empty
  Nobody = Nobody
  Capacity = 1
  MaxTexts = 0
SYMMETRY Symmetry
PROPERTIES
  ImplementsRoom
