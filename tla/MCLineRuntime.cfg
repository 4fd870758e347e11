SPECIFICATION Spec
CONSTANTS
  l1 = l1
  l2 = l2
  Listeners = {l1, l2}
  Conns <- MCConns
  MaxSessions = 2
  MaxSessionId = 3
  MaxMessages = 2
  MaxStarts = 2
  RequireAuth = TRUE
CHECK_DEADLOCK FALSE
INVARIANTS
  SessionsExact
  OnlyUsersAreAnswered
PROPERTIES
  HandlerInOrder
