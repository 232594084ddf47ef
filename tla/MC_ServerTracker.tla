------------------------- MODULE MC_ServerTracker -------------------------
(* Small instance of ServerTracker: two concurrent sessions allowed, three *)
(* clients arrive, so the semaphore is exhausted at least once.           *)
EXTENDS ServerTracker

MC_MaxClients == 2
MC_NConn == 3
=============================================================================
