SPECIFICATION Spec
CONSTANTS
  Task = {a, b, c}
  First = a
  None = none
  a = a
  b = b
  c = c
  Calls = {"send", "yield", "launch", "exec", "timer", "post", "input", "paint", "terminate"}
  MaxDepth = 2
  RingSize = 1
SYMMETRY Alike
INVARIANTS
  NoSleepOverSent
  NoSleepOverPosted
  NoSleepOverPaint
  NeverCross
CHECK_DEADLOCK FALSE
