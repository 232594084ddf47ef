------------------------ MODULE MC_ClientProtocolCodec ------------------------
(* Field values at the byte boundaries: zero, one, a value whose low byte  *)
(* is zero, and the largest value TLC's integers hold (u64 fields are      *)
(* still written as eight bytes); tags 0 and 255; payloads with one- and   *)
(* two-byte UTF-8 characters; duplicate lists of length 0 to 2.            *)
EXTENDS ClientProtocolCodec

CONSTANTS NoMsgVal, ParseErrorVal

MC_ClientIds == {0, 2147483647}
MC_MessageIds == {1, 256}
MC_Tags == {0, 255}
MC_Texts == {<<>>, <<65>>, <<233>>, <<65, 1025>>}
MC_DupLists == {<<>>, <<256>>, <<1, 2147483647>>}
=============================================================================
