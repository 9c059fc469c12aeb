SPECIFICATION Spec
CONSTANTS
    MaxHelpers = 2
    Actions = {"stop", "report"}
    Pressures <- MCPressures
    Faults = {"docker", "hung", "stats"}
INVARIANT TypeOK
 
PROPERTY StopIsClean
 
