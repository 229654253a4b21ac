SPECIFICATION SteadySpec
CONSTANTS
  a = a
  b = b
  short = short
  other = other
  long = long
  Keys = {a, b}
  Values = {short, long}
  KeySize <- MCKeySize
  ValueSize <- MCValueSize
  ZeroCrc <- MCNoZeroCrc
  Absent = Absent
  Unsure = Unsure
  Blank = Blank
  NoItem = NoItem
  FileWords = 16
  MaxKeys = 3
  Tears = {4}
  FopenResults = {TRUE}
INVARIANT ReadAfterWrite
CHECK_DEADLOCK FALSE
