SPECIFICATION BleFairSpec
CONSTANTS
  Objects = 3
  Press = 3
  MaxBack = 2
  MaxBacks = 1
  Faults = {"fork", "gpio", "read", "clock", "thread", "bus", "object", "hci", "bluez"}
PROPERTIES StartsWhenHeld StartedOnce AnsweredComplete ComesUp
