CONSTANTS
    MAX_ACTIVE_SESSIONS = 3
    MAX_LOADED_SESSIONS = 2
    SLOT_MOD = 6
    MaxCounter = 15
SPECIFICATION Spec
INVARIANTS
    NoStaleContext
    NeverStranded
    GapCanBeClosed
