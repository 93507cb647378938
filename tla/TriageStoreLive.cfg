SPECIFICATION Spec
CONSTANTS
  Clients = {c1, c2}
  Events = {e1}
  Statuses = {"open", "resolved"}
  Assignees = {}
  Snapshots = {s1}
  None = None
  MaxLog = 1
  MaxNotes = 1
PROPERTIES
  EveryRequestEnds
