SPECIFICATION Spec
CONSTANTS
  Task = {a, b}
  None = none
  a = a
  b = b
  Kinds = {"key", "press"}
  Ways <- JustGet
  Features = {"keyhook", "mousehook"}
  MaxEvents = 3
  MaxPosts = 2
  MaxDepth = 1
SYMMETRY Alike
INVARIANTS
  TypeOK
  OneReader
  NoSleepOverInput
  InOrder
  KeptWhilePosted
CHECK_DEADLOCK FALSE
