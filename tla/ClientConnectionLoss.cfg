CONSTANTS
    NFlight <- MC_NFlight
    NAirport <- MC_NAirport
    MaxConn <- MC_MaxConn
    NoMsg = NoMsg
SPECIFICATION Spec
INVARIANT AckedImpliesForwarded
