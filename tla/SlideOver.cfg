SPECIFICATION Spec
CONSTANTS
  Clients = {c1, c2}
  Events = {e1, e2}
  Statuses = {"open", "resolved"}
  Assignees = {a1}
  Snapshots = {s1}
  None = None
  MaxForeign = 1
  MaxOpens = 2
CHECK_DEADLOCK FALSE
SYMMETRY Symmetry
INVARIANTS
  TypeOK
  NotesStayHome
  NeverRefused
  ShownIsCurrent
PROPERTIES
  TypingNotClobbered
