SPECIFICATION MainSpec
CONSTANTS
  main = main
  RES1 = RES1
  RES2 = RES2
  res1_instance = res1_instance
  res2_instance = res2_instance
  R1_FUN1 = R1_FUN1
  R1_FUN2 = R1_FUN2
  R2_FUN1 = R2_FUN1
  R2_FUN2 = R2_FUN2
  NoRes = NoRes
  Free = Free
  RecThread = RecThread
  Clients = {main}
  Registrar = main
  ResTypes = {RES1, RES2}
  Responsers = {res1_instance, res2_instance}
  EventIDs = {R1_FUN1, R1_FUN2, R2_FUN1, R2_FUN2}
  ZeroEvent = R1_FUN1
  FunctionsOf <- FunctionsOfMain
  Unpacks = {R1_FUN2, R2_FUN1, R2_FUN2}
  ArgNum = 1
  responserMaxNum = 10
  MaxPush = 4
  MaxRound = 1
  MaxSpurious = 0
INVARIANT CalledWithOwnArgs
