SPECIFICATION FairSpec
CONSTANTS
    i1 = i1
    b1 = b1
    library = library
    t1 = t1
    t2 = t2
    app = app
    postgres = postgres
    None = None
    Installers = {i1}
    Builds = {b1}
    Entries = {library}
    KindOf <- MCKindOf
    Faults <- MCFaults
    Tasks = {t1, t2}
    Names = {app}
    Maintenance = postgres
    MigrationDir = TRUE
    Migrations <- MCMigrations
    DbFaults <- MCDbFaults
INVARIANTS
    TypeOK
    MigratedMeansApplied
    MigrateSucceeds
PROPERTIES
    CallsReturn
CHECK_DEADLOCK FALSE
