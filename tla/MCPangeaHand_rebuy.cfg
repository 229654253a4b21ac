CONSTANTS
  MinRakeMillis = 5
  RakeFloor = 1
  N = 3
  BigBlind = 2
  Ante = 0
  RakeMillis = 10
  TableMaxRake = 0
  Small = 1
  Big = 3
  OnTable = 9
  Buyin = 2
  Ranks = {1, 2}
  MaxHands = 2
  MaxBuyins = 1
  Stacks <- MCStacks
SPECIFICATION Spec
PROPERTIES ChipsConserved
CHECK_DEADLOCK FALSE
