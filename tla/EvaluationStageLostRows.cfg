SPECIFICATION Spec
CONSTANTS
    Approaches <- MCApproaches
    Scripts <- MCScripts
    MaxPrompts = 2
    MaxAttempts = 1
    Faults = {"postgres"}
INVARIANT RecordedSamplesAreInPostgres
\* The step scripts stop when they are done: nothing has to start another one.
CHECK_DEADLOCK FALSE
