CONSTANTS
    NoMsgVal = NoMsgVal
    ParseErrorVal = ParseErrorVal
    NoMsg <- NoMsgVal
    ParseError <- ParseErrorVal
    ClientIds <- MC_ClientIds
    MessageIds <- MC_MessageIds
    Tags <- MC_Tags
    Texts <- MC_Texts
    DupLists <- MC_DupLists
SPECIFICATION Spec
INVARIANT TypeOK
INVARIANT RoundTrip
INVARIANT WireMatchesSpec
