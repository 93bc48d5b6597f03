SPECIFICATION Spec
CONSTANTS
    Jobs = {j1, j2}
    None = None
    Faults <- MCInterrupts
PROPERTIES
    SetupAcceptsOnlyComplete
