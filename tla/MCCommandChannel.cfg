\* One listener and one event on a session that the transport makes itself,
\* a command behind text that cannot be parsed.
SPECIFICATION FairSpec
CONSTANTS
  l1 = l1
  e1 = e1
  Listeners = {l1}
  Reconnect <- always
  Emits = {e1}
  Text <- texts
  AuthAnswers <- auth
  GivenSession = FALSE
  MaxConns = 2
  MaxFailures = 1
  MaxExpiries = 1
INVARIANTS TypeOK CurrentSocket NoOrphanSocket DuplicateOnlyAfterError TrueMeansSent
PROPERTIES CloseStopsListeners Reconnects CommandsReachConsumer
CHECK_DEADLOCK FALSE
