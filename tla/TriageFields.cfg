SPECIFICATION Spec
CONSTANTS
  Clients = {c1, c2}
  Events = {e1}
  Statuses = {"open", "resolved"}
  Assignees = {a1}
  Snapshots = {s1, s2}
  None = None
  MaxLog = 2
  MaxNotes = 0
SYMMETRY Symmetry
PROPERTIES
  OnlyNamedFieldsChange
  RetryIsHarmless
