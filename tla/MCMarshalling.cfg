CONSTANTS
    Seeds <- MCSeeds
    MaxElements = 8
    MaxDamaged = 24
SPECIFICATION Spec
INVARIANTS
    RoundTrip
    NoOverrun
    Canonical
