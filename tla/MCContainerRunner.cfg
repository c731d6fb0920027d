SPECIFICATION Spec
CONSTANTS
    ValidNames <- MCNames
    Unset = Unset
    Launches <- MCLaunches
    Handlers = {h1}
    Banks <- MCBanks
    MaxBoots = 3
INVARIANTS
    EvidenceComplete
    VerifierLearnsLaunch
    HeldThenReleased
PROPERTIES
    WorkloadEndLeadsToExit
