SPECIFICATION GattSpec
CONSTANTS
  home = home
  cafe = cafe
  Chars = {2, 3, 7, 12}
  Networks <- MCNetworks
  MaxCalls = 2
INVARIANT EveryCallAnswered
CHECK_DEADLOCK FALSE
