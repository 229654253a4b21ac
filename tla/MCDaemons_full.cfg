SPECIFICATION Spec
CONSTANTS
  d1 = d1
  d2 = d2
  jumblr = jumblr
  pangea = pangea
  main = main
  loop = loop
  Threads = {main, loop}
  Callers = {main}
  Daemons = {d1, d2}
  Name <- MCAgents
  MaxDaemons = 1
  Margin = 1
  MaxHold = 1
  Requests <- MCNoRequests
  NoDaemon = NoDaemon
INVARIANT ListFits
CHECK_DEADLOCK FALSE
