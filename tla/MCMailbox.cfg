SPECIFICATION MailboxFairSpec
CONSTANTS
  res1 = res1
  res2 = res2
  R1_FUN1 = R1_FUN1
  R1_FUN2 = R1_FUN2
  Responsers = {res1, res2}
  ResTypes = {RES1}
  RES1 = RES1
  EventIDs = {R1_FUN1, R1_FUN2}
  ZeroEvent = R1_FUN1
  ArgNum = 1
  FunctionsOf <- FunctionsOfMC
  Unpacks = {R1_FUN2}
  MaxSpurious = 1
  MaxDeliver <- MaxDeliverMC
INVARIANTS AtMostTwice CallsInOrder NoCallUnasked
PROPERTY WakeServed
