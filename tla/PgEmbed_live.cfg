SPECIFICATION FairSpec
CONSTANTS
    Jobs = {j1, j2}
    None = None
    Faults <- MCLiveFaults
PROPERTIES
    CallsReturn
