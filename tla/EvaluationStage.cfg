SPECIFICATION FairSpec
CONSTANTS
    Approaches <- MCApproaches
    Scripts <- MCScripts
    MaxPrompts = 2
    MaxAttempts = 3
    Faults = {"postgres", "mlflow", "generation", "kill"}
INVARIANT TypeOK
INVARIANT CompletedIsPersisted
INVARIANT NoSinkClaimsMoreThanTheLedger
INVARIANT ExitZeroMeansEvidence
INVARIANT ResultFilesAreOfCompletedStages
PROPERTY ReopenedOnlyBehindTheGauge
PROPERTY RowsOnlyUnderRunningLifecycle
PROPERTY ImplementsLedger
PROPERTY ProcessEnds
\* The step scripts stop when they are done: nothing has to start another one.
CHECK_DEADLOCK FALSE
