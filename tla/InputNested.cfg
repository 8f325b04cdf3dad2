SPECIFICATION Spec
CONSTANTS
  Task = {a, b}
  None = none
  a = a
  b = b
  Kinds = {"key", "move"}
  Ways <- GetOrPeek
  Features = {"sent", "end"}
  MaxEvents = 2
  MaxPosts = 0
  MaxDepth = 2
SYMMETRY Alike
INVARIANTS
  EventOnce
CHECK_DEADLOCK FALSE
