SPECIFICATION Spec
CONSTANTS
  c1 = c1
  c2 = c2
  p1 = p1
  t1 = t1
  Callers = {c1, c2}
  Pollers = {p1}
  ApiCallers = {c2}
  ClientTags = {t1}
  NumTags = 2
  MaxCalls <- MCTwoAndOne
  Asyncs = {TRUE, FALSE}
  Losses = {FALSE}
  NoTag = NoTag
  Nobody = Nobody
  Nothing = Nothing
  TimedOut = TimedOut
  NullTag = NullTag
INVARIANTS OwnAnswer RowsInUse ApiOnSocket
CHECK_DEADLOCK FALSE
