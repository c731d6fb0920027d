SPECIFICATION Spec
CONSTANTS
  c1 = c1
  c2 = c2
  Callers = {c1, c2}
  Pcrs = {0, 23}
  Resettable = {23}
  Uncounted = {23}
  Batch = 1
  MaxValue = 1
  Certified <- UnsealOptions
  SealTo <- SealOptions
  Quoted <- Selections
  ImportBlobs <- Blobs
  Roles <- AllRoles
CHECK_DEADLOCK FALSE
INVARIANTS
  NothingLeaked
PROPERTIES
  VouchedPcrsAreReal
  ReleasedInState
  FailsForCause
  CallsReturn
