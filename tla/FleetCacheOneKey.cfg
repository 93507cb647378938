SPECIFICATION Spec
CONSTANTS
  Keys = {k1}
  SlowKeys = {}
  Readers = {r1, r2}
  Refreshers = {g1, g2}
  None = None
  TTL = 1
  MaxStale = 2
  SlowTier = 2
  MaxEntries = 1
  UpstreamTimeout = 1
  MaxTime = 4
SYMMETRY Symmetry
INVARIANTS
  OneRefreshPerKey
PROPERTIES
  CacheNeverRegresses
  MonotonicReads
  ServedWithinWindow
  TerminalErrorsSurface
