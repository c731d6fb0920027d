SPECIFICATION Spec
CONSTANTS
    sha1 = sha1
    sha256 = sha256
    d1 = d1
    Banks = {sha1, sha256}
    PcrSet <- FourPcrs
    Data = {d1}
    Allocations <- BankRequests
    Localities = {0, 3, 4}
    MaxLog = 1
    MaxCounter = 6
    MaxBoots = 1
CONSTRAINT FewMeasured
INVARIANTS
    DynamicRootIsMeasured
    Pcr0TellsTheStart
PROPERTIES
    EveryChangeIsCounted
    ResumeRestores
