SPECIFICATION MCSpec
CONSTANTS
  c1 = c1
  c2 = c2
  p1 = p1
  t1 = t1
  Threads = {u1, u2}
  Entries = {e1, e2}
  Nothing = Nothing
  Nobody = Nobody
  MaxCalls = 4
  NumTags = 1
  NoTag = NoTag
  TimedOut = TimedOut
  NullTag = NullTag
PROPERTIES FifoUntilRace QueueCallsReturn EveryCallReturns RowsGivenBack
CHECK_DEADLOCK FALSE
