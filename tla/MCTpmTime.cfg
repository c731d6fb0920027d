SPECIFICATION Spec
CONSTANTS
    MaxTriesValues = {2}
    RecoveryValues = {0, 2}
    LockoutRecoveryValues = {0}
    DefaultMaxTries = 2
    DefaultRecovery = 1
    DefaultLockoutRecovery = 2
    CLOCK_UPDATE = 2
    U64 = 64
    U32 = 16
    Steps = {0, 1, 2}
    MaxClock = 2
    MaxTime = 2
    MaxElapsed = 3
    PowerLossAfterUse = FALSE
    LockoutPolicy = FALSE
INVARIANTS
    HealNotTooFast
    LockoutRecoveryServed
    ClockSafe
