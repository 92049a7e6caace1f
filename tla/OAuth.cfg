SPECIFICATION Spec
CONSTANTS
  Requests = {r1, r2, r3, r4}
  None = None
SYMMETRY Symmetry
INVARIANTS
  RefusalsAreDisturbances
  LogoutIsFinal
  LoginsAreVerified
PROPERTIES
  LateCallbacksAreRefused
  OnlyLogoutEndsASession
