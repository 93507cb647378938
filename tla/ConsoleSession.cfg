SPECIFICATION Spec
CONSTANTS
  Pages = {"alerts", "settings"}
  Faults = {"service_unavailable"}
  MaxSessions = 2
INVARIANTS
  TypeOK
  TargetKept
  NothingLeftBehind
PROPERTIES
  EndsAtForm
  LogoutLeaves
  RejectedIsSaid
