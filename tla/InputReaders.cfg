SPECIFICATION Spec
CONSTANTS
  Task = {a, b}
  None = none
  a = a
  b = b
  Kinds = {"key", "move"}
  Ways <- GetOrPeek
  Features = {}
  MaxEvents = 2
  MaxPosts = 0
  MaxDepth = 2
SYMMETRY Alike
INVARIANTS
  OneReader
CHECK_DEADLOCK FALSE
