SPECIFICATION FairSpec
CONSTANTS
  d1 = d1
  d2 = d2
  jumblr = jumblr
  pangea = pangea
  main = main
  loop = loop
  Threads = {main, loop}
  Callers = {main}
  Daemons = {d1, d2}
  Name <- MCCopies
  MaxDaemons = 2
  Margin = 1
  MaxHold = 1
  Requests <- MCNoRequests
  NoDaemon = NoDaemon
INVARIANTS  ListedOnce FaultyOnlyWhenMoved NoNeedlessLoad
PROPERTIES Registered FinishedFreed
CHECK_DEADLOCK FALSE
