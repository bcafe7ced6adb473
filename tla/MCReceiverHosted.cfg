SPECIFICATION RecFairSpec
CONSTANTS
  main = main
  other = other
  RES1 = RES1
  RES2 = RES2
  R1_FUN1 = R1_FUN1
  res1 = res1
  NoRes = NoRes
  Free = Free
  RecThread = RecThread
  Clients = {main, other}
  Registrar = main
  Responsers = {res1}
  ResTypes = {RES1, RES2}
  EventIDs = {R1_FUN1}
  responserMaxNum = 1
  MaxPush = 2
PROPERTY HostedForwarded
