SPECIFICATION Spec
CONSTANTS
  Conns = {c1, c2}
  Names = {a}
  Empty = Empty
  Nobody = Nobody
  Capacity = 2
  MaxTexts = 1
SYMMETRY Symmetry
INVARIANTS
  UsersAreHeld
  NamesAreUnique
  NoGaps
  SeesOwnJoin
  JoinsAndLeavesAlternate
  SessionsAreTornDown
PROPERTIES
  CountIsTrue
