SPECIFICATION Spec
CONSTANTS
  Task = {a, b}
  First = a
  None = none
  a = a
  b = b
  Calls = {"send", "reply", "modal", "yield", "launch", "exit", "input", "hook", "hotkey"}
  MaxDepth = 4
  RingSize = 1
INVARIANTS
  CallsHeld
PROPERTIES
  SendsAsCalls
CHECK_DEADLOCK FALSE
