------------------------ MODULE MC_ClientConnection ------------------------
(* Small instance of ClientConnection for TLC: one flight batch, one       *)
(* airport batch, their two EOFs and three connections (two reconnects).   *)
EXTENDS ClientConnection

MC_NFlight == 1
MC_NAirport == 1
MC_MaxConn == 3
=============================================================================
