CONSTANTS
    r1 = r1
    r2 = r2
    Routes <- MC_Routes
    Durations <- MC_Durations
    MaxMsgs <- MC_MaxMsgs
SPECIFICATION Spec
INVARIANT TypeOK
INVARIANT KeptAreFastest
INVARIANT FastestMatchesReference
