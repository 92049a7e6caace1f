SPECIFICATION Spec
CONSTANTS
  Creations = {p1, p2, p3, p4}
  IdSpace = 3
  Nobody = Nobody
  RepoRequests = {r1, r2, r3}
  UserIds = {i1, i2}
  UserNames = {n1, n2}
  NoUser = NoUser
  Unlocked = Unlocked
  Queries = {q1, q2, q3}
  MaxConns = 1
  Slow = {s1, s2, s3}
  MaxScrapes = 2
  Secrets = {k1, k2}
  Unset = Unset
  TicksPerSecond = 2
  Lifetime = 2
  MaxTime = 8
  MaxIssued = 2
INVARIANTS
  UsersAreKept
  ConnectionsAreAccounted
  FiguresAreTheAnswers
  TokensLiveTenSeconds
PROPERTIES
  RepoIsDictionary
  WaitersEnd
