SPECIFICATION Spec
CONSTANTS
    Grants <- MCGrants
    Overrides = {0, 20}
    Faults = {"probe", "read_only", "volumes"}
INVARIANT TypeOK
INVARIANT PoolWithinTheGrant
INVARIANT RecordedThreadsAreUsed
 
