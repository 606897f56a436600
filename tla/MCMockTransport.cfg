\* Two polls race for good and malformed tasks.
SPECIFICATION FairSpec
CONSTANTS
  p1 = p1
  p2 = p2
  l1 = l1
  Pollers = {p1, p2}
  Listeners = {l1}
  Item <- items
  MaxRecords = 1
INVARIANTS TypeOK TasksAccounted
PROPERTIES ListenersEnd
CHECK_DEADLOCK FALSE
