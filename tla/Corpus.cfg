SPECIFICATION Spec
CONSTANTS
    Papers = {p1, p2}
    Abstracts = {p1}
    MaxInvocations = 3
    Missing = Missing
    Torn = Torn
    Faults = {"arxiv", "download", "volumes", "kill"}
INVARIANT TypeOK
 
INVARIANT PromptsAreHeldOut
 
\* Nobody has to invoke it again.
CHECK_DEADLOCK FALSE
