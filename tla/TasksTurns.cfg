SPECIFICATION Spec
CONSTANTS
  Task = {a, b, c}
  First = a
  None = none
  a = a
  b = b
  c = c
  Calls = {"send", "reply", "yield", "exec", "launch", "timer", "lock", "exit", "terminate"}
  MaxDepth = 2
  RingSize = 1
SYMMETRY Alike
INVARIANTS
  TypeOK
  OneTurnEach
  NoIdleProcessor
PROPERTIES
  LockHolds
  HandedOver
CHECK_DEADLOCK FALSE
