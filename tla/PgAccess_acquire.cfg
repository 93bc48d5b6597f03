SPECIFICATION Spec
CONSTANTS
    t1 = t1
    t2 = t2
    t3 = t3
    p1 = p1
    p2 = p2
    d1 = d1
    d2 = d2
    initdb = initdb
    lib = lib
    None = None
    Tasks = {t1, t2, t3}
    Procs = {p1}
    Dirs = {d1, d2}
    Files = {initdb, lib}
    InitDb = initdb
    ProcOf <- OneProcOf
    DirOf <- TwoDirsOf
    Faults <- MCIo
INVARIANTS
    TypeOK
    CachedMeansInstalled
PROPERTIES
    ImplementsCache
