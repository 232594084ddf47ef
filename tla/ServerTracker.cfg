CONSTANTS
    MaxClients <- MC_MaxClients
    NConn <- MC_NConn
SPECIFICATION Spec
INVARIANT TypeOK
INVARIANT SemaphoreAccounting
CHECK_DEADLOCK FALSE
