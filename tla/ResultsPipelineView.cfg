SPECIFICATION Spec
CONSTANTS
    Settings <- MCCpuOnly
    MaxInvocations = 1
    Manual = {}
    Aborts = FALSE
    None = None
INVARIANT ViewCellsAreOfTheirDevice
\* Nobody has to start another invocation.
CHECK_DEADLOCK FALSE
