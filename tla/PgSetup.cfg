SPECIFICATION Spec
CONSTANTS
    Values = {v1, v2}
    None = None
    Directories <- MCDirectories
    Settings <- MCSettings
    Faults = {"io", "write", "slow", "cancel", "crash", "clean_dir", "clean_pw"}
SYMMETRY MCSymmetry
INVARIANTS TypeOK SetupSucceeds SecretGone PackageFits PasswordFits
PROPERTIES OwnPassword
CHECK_DEADLOCK FALSE
