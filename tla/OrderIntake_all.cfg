SPECIFICATION Spec
CONSTANTS
  Requests = {r1, r2}
  Clients = {c1}
  Inquiries = {i1}
  Orders = {o1, o2}
  NoRequest = NoRequest
  NoClient = NoClient
  NoInquiry = NoInquiry
  NoOrder = NoOrder
  Limit = 2
  Base = 2
  Operations = {"submit", "create", "convert", "update", "delete", "status", "inquiry"}
  MaxDay = 0
SYMMETRY Symmetry
INVARIANTS OneOrderPerInquiry MetricsSettle
CHECK_DEADLOCK FALSE
