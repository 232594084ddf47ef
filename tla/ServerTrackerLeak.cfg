CONSTANTS
    MaxClients <- MC_MaxClients
    NConn <- MC_NConn
SPECIFICATION Spec
PROPERTY CleanupRemovesCompleted
CHECK_DEADLOCK FALSE
