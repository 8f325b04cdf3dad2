SPECIFICATION BetweenSpec
CONSTANTS
  Handle = {1, 2, 3}
  Delta = {224}
  MaxSlots = 3
  MaxEvents = 1
  MaxWaiters = 2
  Window = {w}
  Block = {b1, b2}
  NoHandle = nought
  Call = {c1, c2}
  MaxRenders = 2
  Conv = {p, q}
  Ends = {p}
  NoConv = noconv
  Room = 1
  MaxCallbacks = 2
  Item = {x, y}
  FirstItem = x
  MaxSent = 3
  Places = 1
  Tries = 2
INVARIANTS
  ListTypeOK
  ListOrdered
  NoSleepOverEvent
  BetweenTypeOK
  CanBeGiven
  MadeInOrder
  NoCallbackStranded
  WaitedStands
  TerminationsCounted
  EndedGone
  KeptSafe
  OwnAnswers
  CalledBackOnce
CHECK_DEADLOCK FALSE
