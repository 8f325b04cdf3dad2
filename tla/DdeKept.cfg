SPECIFICATION TransactionsSpec
CONSTANTS
  Item = {x}
  MaxSent = 3
  Places = 1
  Tries = 5
INVARIANTS
  KeptIsTimed
CHECK_DEADLOCK FALSE
