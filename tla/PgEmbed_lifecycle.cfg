SPECIFICATION Spec
CONSTANTS
    Jobs = {j1, j2}
    None = None
    Faults <- MCAllFaults
SYMMETRY JobSymmetry
INVARIANTS
    TypeOK
    StatusTruthful
    FlagTruthful
    NoOrphanServer
    InitializedMeansReady
    PasswordRemoved
PROPERTIES
    ReadyDataKept
    ImplementsServer
