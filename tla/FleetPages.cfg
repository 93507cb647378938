SPECIFICATION Spec
CONSTANTS
  MaxKey = 3
  PageSize = 1
  Hosts = {1, 2}
  Bucket <- MCBucket
  Severity <- MCSeverity
  Ts <- MCTs
  Status <- MCStatus
  Chips = {"investigating"}
  Locals = {"t"}
  Match <- MCMatch
INVARIANTS
  TypeOK
  EndIsComplete
  EmptyIsHonest
PROPERTIES
  JKFollowsScreen
  HostLookupEnds
  EvictedIsSaid
  AlertLinkOpens
