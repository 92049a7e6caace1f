SPECIFICATION Spec
CONSTANTS
  MaxBytes = 3
  MaxChunks = 3
  Peers = {p1, p2, p3, p4}
  MaxFiles = 3
  Conns = {c1, c2}
  Tokens = {t1, t2}
  NoUser = NoUser
  Capacity = 3
  Cycle = 7
  ErrorEvent = ErrorEvent
INVARIANTS
  LoggedAnswersAreWhole
  CallersAreGreeted
PROPERTIES
  DirectionsArePipes
  TunnelsServe
  BodiesArePipes
  QueuedAreAccepted
  ShutdownCompletes
  NoSampleIsSkipped
  ProducerEnds
  SamplesArrive
