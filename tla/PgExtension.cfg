SPECIFICATION Spec
CONSTANTS
    i1 = i1
    i2 = i2
    b1 = b1
    b2 = b2
    library = library
    script = script
    readme = readme
    None = None
    Installers = {i1, i2}
    Builds = {b1, b2}
    Entries = {library, script, readme}
    KindOf <- MCKindOf
    Faults <- MCFaults
INVARIANTS
    TypeOK
    InstalledMeansUsable
SYMMETRY MCSymmetry
CHECK_DEADLOCK FALSE
