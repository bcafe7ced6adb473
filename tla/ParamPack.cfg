SPECIFICATION ParamSpec
CONSTANTS
  Lengths = {1, 2}
  Capacity = 4
  MaxParams = 2
  MaxMessages = 3
INVARIANT UnpackedAsPacked
CHECK_DEADLOCK FALSE
