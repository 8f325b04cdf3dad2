SPECIFICATION Spec
CONSTANTS
  Task = {a, b}
  First = a
  None = none
  a = a
  b = b
  Calls = {"launch", "paint", "exit"}
  MaxDepth = 2
  RingSize = 1
INVARIANTS
  NoSleepOverPaint
CHECK_DEADLOCK FALSE
