-------------------------- MODULE MC_InternalCodec --------------------------
(* Counters at zero and at a value whose low byte is zero, the largest    *)
(* value TLC's integers hold, tags 0 and 255, one- and two-byte UTF-8     *)
(* characters, lists of length 0 to 2, processed-by records with either   *)
(* flag.                                                                   *)
EXTENDS InternalCodec

CONSTANTS NoMsgVal, ParseErrorVal

MC_ClientIds == {2147483647}
MC_Ids == {0, 256}
MC_Tags == {0, 255}
MC_Texts == {<<>>, <<65, 1025>>}
MC_IdLists == {<<>>, <<1, 2147483647>>}
MC_ProcessedLists ==
    {<<>>, <<Processed(256, TRUE)>>, <<Processed(1, FALSE), Processed(2147483647, TRUE)>>}
=============================================================================
