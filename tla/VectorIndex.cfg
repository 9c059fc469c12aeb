SPECIFICATION Spec
CONSTANTS
    Configs <- MCConfigs
    Dimension <- MCDimension
    NoConfig = NoConfig
    MaxProcesses = 3
    Faults = {"postgres", "lost_ack", "embedding", "read_only", "volumes", "kill"}
INVARIANT TypeOK
 
 
\* Nothing has to start another process.
CHECK_DEADLOCK FALSE
