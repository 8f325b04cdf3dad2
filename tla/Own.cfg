SPECIFICATION OwnSpec
CONSTANTS
  Hwnd = {v, w}
  Number = {n, d}
  Merged = {d}
  Word = {1, 2}
  Sizes = {0, 1, 3}
  Size = 3
  Empty = empty
  v = v
  w = w
  n = n
  d = d
  TimerTask = {a, b}
  NoWindow = none
  Intervals = {0, 2}
  MaxLate = 2
  Never = never
  Start = 65388
  End = 65503
  Segment = 65504
  Growable = TRUE
  TableSize = 1
  CountLimit = 2
  Requests = {0, 20}
  Levels = {0, 1, 2}
  MaxEntries = 2
  MaxFixed = 1
INVARIANTS
  TypeOK
  OwnTypeOK
  TakenInTurn
  NoSleepOverTimer
  HandlesAgree
PROPERTIES
  AsUserRing
  FreeJoined
  RefusedWhenFull
  AsAllowed
