SPECIFICATION AllSpec
CONSTANTS
  Servers = {s1, s2}
  Supers = {u1, u2}
  Clients = {c1, c2}
  Registered = {c1}
  OrderUsers = {u3}
  Mix <- Mixes
  MaxCalls = 3
  Handlers = {h1, h2}
  Reviewers = {v1, v2}
  MaxOps = 4
  Workers = {w1, w2}
  Counts = {0, 2}
  MaxRequests = 3
SYMMETRY Symmetric
INVARIANTS EveryoneNotified ReadWasShown DeletedStaysDeleted FilesAreSound RecordsAgree ClientsAreSound
CHECK_DEADLOCK FALSE
