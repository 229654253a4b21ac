CONSTANTS
  MinRakeMillis = 5
  RakeFloor = 1
  N = 3
  BigBlind = 2
  Ante = 1
  RakeMillis = 10
  TableMaxRake = 0
  Small = 1
  Big = 4
  OnTable = 9
  Buyin = 2
  Ranks = {1, 2}
  MaxHands = 2
  MaxBuyins = 0
  Stacks <- MCStacks
SPECIFICATION Spec
INVARIANTS PotHasWinner
CHECK_DEADLOCK FALSE
