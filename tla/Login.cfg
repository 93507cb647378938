SPECIFICATION Spec
CONSTANTS
  Browsers = {b1, b2}
  Attempts = {a1, a2}
  Calls = {c1, c2}
  None = None
  Addresses = {i1}
  AddressOf <- MCAddressOf
  MaxAttempts = 1
  AttemptTTL = 2
  SessionTTL = 2
  MaxHits = 2
  Window = 2
  MaxTime = 3
SYMMETRY Symmetry
INVARIANTS
  TypeOK
  OwnLoginOnce
  LimitHolds
PROPERTIES
  PendingIsFair
