SPECIFICATION Spec
CONSTANTS
  Commands <- AllCommands
  Keys = {"key"}
  Secrets = {"pin"}
  PinPass = {"pin"}
  Indexes = {"index"}
  Approved <- ApprovedPolicies
  Policies <- PolicySet
  Hashes <- HashSet
  CpHashes <- CpHashSet
  Names <- NameSet
  Codes <- CodeSet
  LocalitySets <- LocalityInputs
  Expirations <- Seconds
  Comparisons <- ComparisonSet
  Operands = {1, 2}
  PcrValues = {p1, p2}
  Second = 2
  MaxTime = 3
  MaxPcrCounter = 2
  MaxAssertions = 2
  MaxTickets = 1
INVARIANTS
  AssertionsEnforced
  NothingElseAsked
  DigestBacked
  TrialAgrees
SYMMETRY PcrSymmetry
