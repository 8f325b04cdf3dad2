SPECIFICATION Spec
CONSTANTS
  Task = {a, b}
  First = a
  None = none
  a = a
  b = b
  Calls = {"launch", "input", "hotkey"}
  MaxDepth = 2
  RingSize = 1
INVARIANTS
  NoSleepOverPosted
CHECK_DEADLOCK FALSE
