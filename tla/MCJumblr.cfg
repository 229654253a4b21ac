SPECIFICATION FairSpec
CONSTANTS
  ann = ann
  bob = bob
  cy = cy
  ann1 = ann1
  ann2 = ann2
  bob1 = bob1
  cy1 = cy1
  Nodes = {ann, bob, cy}
  Coins = {ann1, ann2, bob1, cy1}
  Owner <- MCOwner
  Value <- MCValue
  Ask <- MCAsk
  TxFee = 3
  FeePart = 8
  MaxAmount = 16
  Donates = {cy}
  Lists <- MCLists
  Times = {1}
  Prepares <- MCPrepares
  MaxEvents = 2
  NoCoin = NoCoin
INVARIANTS FundsSafe SentComplete FeeExact
 
CHECK_DEADLOCK FALSE
