SPECIFICATION Spec
CONSTANTS
    MaxTrainings = 2
    Faults = {}
INVARIANT LineageIsOfTheEvaluatedAdapter
\* Nobody has to train again.
CHECK_DEADLOCK FALSE
