SPECIFICATION Spec
CONSTANTS
  Clients = {c1, c2}
  Events = {e1}
  Statuses = {"open", "resolved"}
  Assignees = {}
  Snapshots = {s1}
  None = None
  MaxLog = 2
  MaxNotes = 1
SYMMETRY Symmetry
INVARIANTS
  TypeOK
  LogChains
  LogExplainsDetail
PROPERTIES
  AckedIsShown
  KeepsPromise
