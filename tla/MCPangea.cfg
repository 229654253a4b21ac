CONSTANTS
  MinRakeMillis = 5
  RakeFloor = 1
  N = 3
  BigBlind = 2
  Ante = 0
  RakeMillis = 10
  TableMaxRake = 0
  Small = 1
  Big = 4
  OnTable = 8
  Buyin = 2
  Ranks = {1, 2}
  MaxHands = 2
  MaxBuyins = 1
  Stacks <- MCStacks
SPECIFICATION MCSpec
INVARIANTS TypesOK RoundClosed BetterHandWins PotsMatchStacks PaidInFull
INVARIANTS ReplicasAgree BetSizesMatch OnePrompt
PROPERTIES ConservedInHand   ImplementsHand PlayGoesOn
CHECK_DEADLOCK FALSE
