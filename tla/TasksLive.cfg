SPECIFICATION LiveSpec
CONSTANTS
  Task = {a, b, c}
  First = a
  None = none
  a = a
  b = b
  c = c
  Calls = {"send", "launch"}
  MaxDepth = 3
  RingSize = 1
PROPERTIES
  CallsReturn
CHECK_DEADLOCK FALSE
