SPECIFICATION Spec
CONSTANTS
  n1 = n1
  n2 = n2
  o1 = o1
  o2 = o2
  Indexes = {n1, n2}
  Objects = {o1}
  PlatformObjects = {}
  Templates <- AllTemplates
  Bytes = {0, 1, 2}
  MAX_ORDERLY = 2
  IndexSize = 2
  ObjectSize = 3
  LinkSize = 1
  EndSize = 1
  CounterSize = 2
  NvSize = 99
  RamHeader = 1
  RamSize = 99
  MIN_EVICT = 0
  MIN_COUNTER = 0
  Controls = {"sh", "phNV"}
  MaxCount = 4
  MaxExtend = 2
  MaxBytes = 2
CONSTRAINT Unmixed
INVARIANTS
  CounterNeverRollsBack
  ContentsAsWritten
  LocksHold
  PinWithinBudget
