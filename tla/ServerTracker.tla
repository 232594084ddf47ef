---------------------------- MODULE ServerTracker ----------------------------
(***************************************************************************)
(* The server's accept loop and its client-handler tracker                 *)
(* (src/server/server.py): Server.run accepts sockets and puts them on a   *)
(* queue; __client_handler_tracker takes each one, acquires the            *)
(* BoundedSemaphore(max_clients), starts a __worker process for it and     *)
(* then pops finished processes off the head of its list; each __worker    *)
(* handles its client and releases the semaphore in a finally block.      *)
(* Workers are numbered in the order the tracker starts them.              *)
(***************************************************************************)
EXTENDS Naturals, Sequences, FiniteSets

CONSTANTS
    MaxClients,  \* config.max_clients, the semaphore's initial value
    NConn        \* bound on the client connections the server accepts

ASSUME TrackerAssumption ==
    /\ MaxClients \in Nat \ {0}
    /\ NConn \in Nat

Workers == 1..NConn

VARIABLES
    accepted,  \* sockets Server.run has accepted
    queue,     \* sockets put on the tracker's queue and not yet taken
    sema,      \* value of the BoundedSemaphore
    procs,     \* the tracker's list of started worker processes
    started,   \* workers started so far
    wstate,    \* [Workers -> {"none", "running", "exiting", "dead"}]
    tpc        \* where the tracker process is

vars == <<accepted, queue, sema, procs, started, wstate, tpc>>

TypeOK ==
    /\ accepted \in 0..NConn
    /\ queue \in 0..NConn
    /\ sema \in Nat
    /\ procs \in Seq(Workers)
    /\ started \in 0..NConn
    /\ wstate \in [Workers -> {"none", "running", "exiting", "dead"}]
    /\ tpc \in {"get", "acquire", "start", "cleanup", "crashed"}

Init ==
    /\ accepted = 0
    /\ queue = 0
    /\ sema = MaxClients
    /\ procs = <<>>
    /\ started = 0
    /\ wstate = [w \in Workers |-> "none"]
    /\ tpc = "get"

\* Server.run: accept a connection and hand the socket to the tracker.
Accept ==
    /\ accepted < NConn
    /\ accepted' = accepted + 1
    /\ queue' = queue + 1
    /\ UNCHANGED <<sema, procs, started, wstate, tpc>>

\* client_sock = queue.get()
TrackerGet ==
    /\ tpc = "get"
    /\ queue > 0
    /\ queue' = queue - 1
    /\ tpc' = "acquire"
    /\ UNCHANGED <<accepted, sema, procs, started, wstate>>

\* Mutant: the tracker goes on without waiting for the semaphore.
TrackerAcquireUnbounded ==
    /\ tpc = "acquire"
    /\ sema' = sema - 1
    /\ tpc' = "start"
    /\ UNCHANGED <<accepted, queue, procs, started, wstate>>

\* sema.acquire(): wait until fewer than max_clients workers hold it.
TrackerAcquire ==
    /\ tpc = "acquire"
    /\ sema > 0
    /\ sema' = sema - 1
    /\ tpc' = "start"
    /\ UNCHANGED <<accepted, queue, procs, started, wstate>>

\* procs.append(Process(...)); procs[-1].start()
TrackerStart ==
    /\ tpc = "start"
    /\ started' = started + 1
    /\ procs' = Append(procs, started + 1)
    /\ wstate' = [wstate EXCEPT ![started + 1] = "running"]
    /\ tpc' = "cleanup"
    /\ UNCHANGED <<accepted, queue, sema>>

\* One test of `while not procs[0].is_alive(): procs.pop(0)`: pop a dead
\* head, stop at a live one, and raise IndexError on an empty list, which
\* ends the tracker process.
TrackerCleanup ==
    /\ tpc = "cleanup"
    /\ \/ /\ procs = <<>>
          /\ tpc' = "crashed"
          /\ UNCHANGED procs
       \/ /\ procs # <<>>
          /\ wstate[Head(procs)] = "dead"
          /\ procs' = Tail(procs)
          /\ UNCHANGED tpc
       \/ /\ procs # <<>>
          /\ wstate[Head(procs)] # "dead"
          /\ tpc' = "get"
          /\ UNCHANGED procs
    /\ UNCHANGED <<accepted, queue, sema, started, wstate>>

\* Mutant: the release is skipped, as it would be outside the finally block
\* when handle_client raises.
WorkerReleaseSkipped(w) ==
    /\ wstate[w] = "running"
    /\ wstate' = [wstate EXCEPT ![w] = "exiting"]
    /\ UNCHANGED <<accepted, queue, sema, procs, started, tpc>>

\* __worker: handle_client returns (or raises) and the finally block
\* releases the semaphore.
WorkerRelease(w) ==
    /\ wstate[w] = "running"
    /\ wstate' = [wstate EXCEPT ![w] = "exiting"]
    /\ sema' = sema + 1
    /\ UNCHANGED <<accepted, queue, procs, started, tpc>>

\* The worker process exits; is_alive() is FALSE from now on.
WorkerExit(w) ==
    /\ wstate[w] = "exiting"
    /\ wstate' = [wstate EXCEPT ![w] = "dead"]
    /\ UNCHANGED <<accepted, queue, sema, procs, started, tpc>>

Next ==
    \/ Accept \/ TrackerGet \/ TrackerAcquire \/ TrackerStart \/ TrackerCleanup
    \/ \E w \in Workers : WorkerRelease(w) \/ WorkerExit(w)

Spec == Init /\ [][Next]_vars

-----------------------------------------------------------------------------
\* Workers handling a client and so holding the semaphore.
Holders == {w \in Workers : wstate[w] = "running"}

\* Semaphore accounting: the semaphore's value plus the workers still
\* handling a client plus the acquisition the tracker holds for the worker
\* it is about to start is always max_clients.  So at most max_clients
\* sessions run at once, and no release ever takes the BoundedSemaphore
\* above its initial value (which would raise ValueError in a worker).
SemaphoreAccounting ==
    sema + Cardinality(Holders) + (IF tpc = "start" THEN 1 ELSE 0) = MaxClients

\* The tracker keeps running: every socket the server accepts can still be
\* given a worker (spec 4.3: the server accepts up to max_clients concurrent
\* sessions).
TrackerAlive ==
    tpc # "crashed"

\* The tracker's cleanup leaves no completed process behind: when `while
\* not procs[0].is_alive(): procs.pop(0)` ("cleanup completed processes",
\* server.py:89-91) ends and the tracker goes back to queue.get(), no
\* process left in procs has exited.  The loop stops at the first live
\* process, so a finished worker behind a long session stays in the list,
\* and such entries accumulate for as long as that session runs.
CleanupRemovesCompleted ==
    [][tpc = "cleanup" /\ tpc' = "get" =>
         \A i \in 1..Len(procs') : wstate'[procs'[i]] # "dead"]_vars
=============================================================================
