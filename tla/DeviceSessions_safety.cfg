SPECIFICATION AllSpec
CONSTANTS
  Requests = {r1, r2}
  Tokens = {t1, t2, t3}
  Sessions = {s1, s2}
  NoToken = NoToken
  NoSession = NoSession
  Unbound = Unbound
  MaxChanges = 1
  MaxAborts = 1
SYMMETRY Symmetry
INVARIANTS OldSessionsEnd LogoutEndsSession NoDeadCurrentToken OrphansAreTwins CookiesAgree
PROPERTIES RevokedStaysRevoked
CHECK_DEADLOCK FALSE
