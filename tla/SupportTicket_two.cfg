SPECIFICATION Spec
CONSTANTS
  Requests = {r1, r2}
  Statuses = {"open", "in-progress", "resolved"}
  Settled = {"resolved"}
  Priorities = {"urgent", "normal"}
  First <- MCFirst
  Resolution <- MCResolution
  MaxTime = 1
  MaxDeaths = 1
SYMMETRY Symmetry
INVARIANTS FirstAnswerTold MissedWasMissed UnheardStaysOpen EscalatedInTime
CHECK_DEADLOCK FALSE
