SPECIFICATION Spec
CONSTANTS
  n1 = n1
  n2 = n2
  o1 = o1
  o2 = o2
  Indexes = {n1, n2}
  Objects = {o1, o2}
  PlatformObjects = {o2}
  Templates <- SpaceTemplates
  Bytes = {0}
  MAX_ORDERLY = 2
  IndexSize = 2
  ObjectSize = 3
  LinkSize = 1
  EndSize = 1
  CounterSize = 2
  NvSize = 17
  RamHeader = 1
  RamSize = 4
  MIN_EVICT = 2
  MIN_COUNTER = 1
  Controls = {}
  MaxCount = 1
  MaxExtend = 2
  MaxBytes = 2
INVARIANTS
  EvictSpaceKept
