SPECIFICATION Spec
CONSTANTS
    MaxTrainings = 2
    Faults = {"mlflow", "kill"}
INVARIANT TypeOK
INVARIANT FirstVersionIsTheBase
INVARIANT AliasesAreInOrder
 
\* Nobody has to train again.
CHECK_DEADLOCK FALSE
