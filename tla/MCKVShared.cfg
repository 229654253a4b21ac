SPECIFICATION MCSpec
CONSTANTS
  a = a
  b = b
  short = short
  other = other
  long = long
  Keys = {a, b}
  Values = {short, other, long}
  KeySize <- MCKeySize
  ValueSize <- MCFixedSize
  ZeroCrc <- MCNoZeroCrc
  Absent = Absent
  Unsure = Unsure
  Blank = Blank
  NoItem = NoItem
  FileWords = 17
  MaxKeys = 3
  Tears = {1, 4}
  FopenResults = {TRUE}
  Users = {u1, u2}
  Nobody = Nobody
  MaxCalls = 4
INVARIANTS TableSound  ReadRegular 
PROPERTIES  StoreCallsReturn
CHECK_DEADLOCK FALSE
