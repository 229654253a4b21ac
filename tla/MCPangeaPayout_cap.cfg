CONSTANTS
  MinRakeMillis = 5
  RakeFloor = 30
  Players = {0, 1, 2}
  Amounts = {0, 200, 400, 600}
  Ranks = {1, 2}
  BigBlind = 1
  RakeMillis = 10
  TableMaxRake = 0
SPECIFICATION Spec
INVARIANT RakeCapped
CHECK_DEADLOCK FALSE
