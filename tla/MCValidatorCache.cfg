\* Two threads and a cache with room for one validator.
SPECIFICATION FairSpec
CONSTANTS
  t1 = t1
  t2 = t2
  d1 = d1
  d2 = d2
  NoThread = NoThread
  NoValidator = NoValidator
  Empty = "empty"
  Threads = {t1, t2}
  Schemas <- mcSchemas
  Key <- mcKey
  Data = {d1, d2}
  Valid <- mcValid
  Bad = {"x"}
  MaxSize = 1
  MaxCalls = 3
INVARIANTS TypeOK BoundedCache CompiledOncePerResidence VerdictsCorrect
PROPERTIES CallsReturn
CHECK_DEADLOCK FALSE
