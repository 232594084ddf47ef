CONSTANTS
    NoMsgVal = NoMsgVal
    ParseErrorVal = ParseErrorVal
    NoMsg <- NoMsgVal
    ParseError <- ParseErrorVal
    ClientIds <- MC_ClientIds
    Ids <- MC_Ids
    Tags <- MC_Tags
    Texts <- MC_Texts
    IdLists <- MC_IdLists
    ProcessedLists <- MC_ProcessedLists
SPECIFICATION Spec
INVARIANT TypeOK
INVARIANT RoundTrip
