SPECIFICATION Spec
CONSTANTS
    MaxItems = 8
    Codes <- CodeSet
    Wires <- WireSet
    Results = {0, 256}
INVARIANTS TablesAgree ParametersComplete
PROPERTIES ImplementsSwitch
CHECK_DEADLOCK TRUE
