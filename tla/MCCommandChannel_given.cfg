\* The session was passed in: close() leaves it open.
SPECIFICATION FairSpec
CONSTANTS
  l1 = l1
  e1 = e1
  Listeners = {l1}
  Reconnect <- always
  Emits = {}
  Text <- noText
  AuthAnswers <- auth
  GivenSession = TRUE
  MaxConns = 2
  MaxFailures = 1
  MaxExpiries = 0
PROPERTIES CloseStopsListeners
CHECK_DEADLOCK FALSE
