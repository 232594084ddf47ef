CONSTANTS
    MaxClients <- MC_MaxClients
    NConn <- MC_NConn
SPECIFICATION Spec
INVARIANT TrackerAlive
CHECK_DEADLOCK FALSE
