SPECIFICATION Spec
CONSTANTS
  Names = {Blank, a, b}
  Emails = {e, f}
  Blank = Blank
  Ids = {i, j, k}
  MaxStarts = 2
CHECK_DEADLOCK FALSE
PROPERTIES
  UniqueForGood
  NamesIdentify
