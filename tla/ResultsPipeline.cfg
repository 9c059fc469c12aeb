SPECIFICATION Spec
CONSTANTS
    Settings <- MCSettings
    MaxInvocations = 2
    Manual <- MCStamped
    Aborts = TRUE
    None = None
INVARIANT TypeOK
INVARIANT RunFolderIsOfItsRun
INVARIANT ComparisonUsesItsOwnAdapter
INVARIANT CombinedCellsAreOfTheirLeg
INVARIANT LatestIsOneFinishedExport
INVARIANT DoneMeansPublished
 
\* Nobody has to start another invocation.
CHECK_DEADLOCK FALSE
