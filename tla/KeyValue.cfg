SPECIFICATION FairSpec
CONSTANTS
  Requests = {r1, r2}
  Keys = {k, keys}
  Values = {v, w}
  KeysSegment = keys
  Absent = Absent
  Limit = 1
INVARIANTS
  PermitsAreAccounted
  
PROPERTIES
  ImplementsDictionary
  FullEndpointsDrain
