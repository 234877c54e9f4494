SPECIFICATION FairMigrationSpec
CONSTANTS
    p1 = p1
    p2 = p2
    p3 = p3
    Nobody = Nobody
    Processes = {p1, p2, p3}
    Files <- AllFiles
    MigrationFaults = {"crash"}
INVARIANTS
    SchemaMatchesRows
PROPERTIES
    NobodyWaitsForEver
CHECK_DEADLOCK FALSE
