SPECIFICATION MCSpec
CONSTANTS
  a = a
  b = b
  short = short
  other = other
  long = long
  d1 = d1
  d2 = d2
  jumblr = jumblr
  pangea = pangea
  main = main
  loop = loop
  NoDaemon = NoDaemon
  Keys = {a, b}
  Values = {short, long}
  KeySize <- MCKeySize
  ValueSize <- MCValueSize
  ZeroCrc <- MCZeroCrc
  Absent = Absent
  Unsure = Unsure
  Blank = Blank
  NoItem = NoItem
  FileWords = 12
  MaxKeys = 3
  Tears = {4}
  FopenResults = {TRUE, FALSE}
INVARIANTS ItemsOnDisk OnlyWritten Durable 
CHECK_DEADLOCK FALSE
