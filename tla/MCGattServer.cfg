SPECIFICATION GattFairSpec
CONSTANTS
  home = home
  cafe = cafe
  Chars = {0, 2, 3, 12}
  Networks <- MCNetworks
  MaxCalls = 4
INVARIANTS ReadsLatestScan NotifiedAsAsked ValuesKeptApart
PROPERTY ReadsAnswered
CHECK_DEADLOCK FALSE
