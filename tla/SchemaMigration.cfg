SPECIFICATION Spec
CONSTANTS
    Volumes <- MCVolumes
    Ids = {"a", "b", "c", "d"}
    Samples = {"0", "1"}
    Run = Run
    None = None
    Faults = {"postgres", "kill", "upgrade"}
INVARIANT TypeOK
INVARIANT NothingLeftToMigrate
 
