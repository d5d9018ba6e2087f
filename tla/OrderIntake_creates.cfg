SPECIFICATION FairSpec
CONSTANTS
  Requests = {r1, r2}
  Clients = {c1}
  Inquiries = {i1}
  Orders = {o1, o2, o3}
  NoRequest = NoRequest
  NoClient = NoClient
  NoInquiry = NoInquiry
  NoOrder = NoOrder
  Limit = 2
  Base = 3
  Operations = {"submit", "create", "convert", "contact"}
  MaxDay = 1
INVARIANTS MetricsCurrent FailuresHaveCause
PROPERTIES RequestsEnd
CHECK_DEADLOCK FALSE
