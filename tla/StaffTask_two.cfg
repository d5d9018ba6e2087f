SPECIFICATION Spec
CONSTANTS
  Requests = {r1, r2}
  Staff = {s1}
  Admin = Admin
  Statuses = {"todo", "in_progress", "done"}
  MaxDeaths = 1
SYMMETRY Symmetry
INVARIANTS LogTellsStatus
PROPERTIES ReturnsOnlyByOverlap ReopenedByProgress
CHECK_DEADLOCK FALSE
