SPECIFICATION Spec
CONSTANTS
  Keys = {k1, k2, k3}
  SlowKeys = {k1}
  Readers = {r1}
  Refreshers = {g1, g2, g3}
  None = None
  TTL = 1
  MaxStale = 2
  SlowTier = 2
  MaxEntries = 2
  UpstreamTimeout = 1
  MaxTime = 2
SYMMETRY Symmetry
INVARIANTS
  TypeOK
  CacheBounded
  OldestFirst
