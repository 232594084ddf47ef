------------------------- MODULE ServerTrackerProofs -------------------------
(***************************************************************************)
(* Proofs about the server's client-handler tracker (ServerTracker): the   *)
(* type invariant and the semaphore accounting hold for every max_clients *)
(* and every number of connections.                                        *)
(***************************************************************************)
EXTENDS ServerTracker, FiniteSetTheorems, TLAPS

(* Every accepted socket is either still on the queue, in the tracker's    *)
(* hands between queue.get() and procs[-1].start(), or has a worker.       *)
Counting ==
    started + queue + (IF tpc \in {"acquire", "start"} THEN 1 ELSE 0) = accepted

(* Workers are started in order: exactly the first `started` have left    *)
(* state "none".                                                           *)
StartedPrefix ==
    \A w \in Workers : (wstate[w] = "none") <=> (w > started)

IInv == TypeOK /\ Counting /\ StartedPrefix /\ SemaphoreAccounting

\* The set of workers handling a client is finite.
LEMMA HoldersFinite ==
    ASSUME NEW ws
    PROVE  IsFiniteSet({w \in Workers : ws[w] = "running"})
<1>1. IsFiniteSet(Workers)
    BY TrackerAssumption, FS_Interval DEF Workers
<1>. QED  BY <1>1, FS_Subset

\* The initial state satisfies the inductive invariant.
LEMMA InitIInv == Init => IInv
<1>. SUFFICES ASSUME Init PROVE IInv
    OBVIOUS
<1>1. Holders = {}
    BY DEF Init, Holders
<1>2. Cardinality(Holders) = 0
    BY <1>1, FS_EmptySet
<1>. QED  BY <1>2, TrackerAssumption
          DEF Init, IInv, TypeOK, Counting, StartedPrefix, SemaphoreAccounting, Workers

\* Every step of the tracker, its workers or the accept loop preserves it.
LEMMA NextIInv == IInv /\ [Next]_vars => IInv'
<1>. SUFFICES ASSUME IInv, [Next]_vars PROVE IInv'
    OBVIOUS
<1>. USE TrackerAssumption DEF Workers
<1>0. IsFiniteSet(Holders) /\ Cardinality(Holders) \in Nat
    BY HoldersFinite, FS_CardinalityType DEF Holders
<1>1. CASE Accept
    BY <1>1 DEF Accept, IInv, TypeOK, Counting, StartedPrefix,
                SemaphoreAccounting, Holders
<1>2. CASE TrackerGet
    BY <1>2 DEF TrackerGet, IInv, TypeOK, Counting, StartedPrefix,
                SemaphoreAccounting, Holders
<1>3. CASE TrackerAcquire
    <2>1. Holders' = Holders
        BY <1>3 DEF TrackerAcquire, Holders
    <2>2. SemaphoreAccounting'
        BY <1>0, <1>3, <2>1 DEF TrackerAcquire, IInv, TypeOK, SemaphoreAccounting
    <2>3. (TypeOK /\ Counting /\ StartedPrefix)'
        BY <1>3 DEF TrackerAcquire, IInv, TypeOK, Counting, StartedPrefix
    <2>. QED  BY <2>2, <2>3 DEF IInv
<1>4. CASE TrackerStart
    <2>. DEFINE x == started + 1
    <2>1. x \in Workers /\ wstate[x] = "none"
        BY <1>4 DEF TrackerStart, IInv, TypeOK, Counting, StartedPrefix
    <2>2. Holders' = Holders \cup {x} /\ x \notin Holders
        BY <1>4, <2>1 DEF TrackerStart, Holders, IInv, TypeOK
    <2>3. Cardinality(Holders') = Cardinality(Holders) + 1
        BY <1>0, <2>2, FS_AddElement
    <2>4. SemaphoreAccounting'
        BY <1>0, <1>4, <2>3 DEF TrackerStart, IInv, TypeOK, SemaphoreAccounting
    <2>5. (TypeOK /\ Counting /\ StartedPrefix)'
        BY <1>4, <2>1 DEF TrackerStart, IInv, TypeOK, Counting, StartedPrefix
    <2>. QED  BY <2>4, <2>5 DEF IInv
<1>5. CASE TrackerCleanup
    <2>1. (procs # <<>> => Tail(procs) \in Seq(Workers))
        BY DEF IInv, TypeOK
    <2>. QED  BY <1>5, <2>1 DEF TrackerCleanup, IInv, TypeOK, Counting,
                                StartedPrefix, SemaphoreAccounting, Holders
<1>6. ASSUME NEW w \in Workers, WorkerRelease(w) PROVE IInv'
    <2>1. Holders' = Holders \ {w} /\ w \in Holders
        BY <1>6 DEF WorkerRelease, Holders, IInv, TypeOK
    <2>2. Cardinality(Holders') = Cardinality(Holders) - 1
        BY <1>0, <2>1, FS_RemoveElement
    <2>3. SemaphoreAccounting'
        BY <1>0, <1>6, <2>2 DEF WorkerRelease, IInv, TypeOK, SemaphoreAccounting
    <2>4. (TypeOK /\ Counting /\ StartedPrefix)'
        BY <1>6 DEF WorkerRelease, IInv, TypeOK, Counting, StartedPrefix
    <2>. QED  BY <2>3, <2>4 DEF IInv
<1>7. ASSUME NEW w \in Workers, WorkerExit(w) PROVE IInv'
    <2>1. Holders' = Holders
        BY <1>7 DEF WorkerExit, Holders, IInv, TypeOK
    <2>2. SemaphoreAccounting'
        BY <1>7, <2>1 DEF WorkerExit, IInv, SemaphoreAccounting
    <2>3. (TypeOK /\ Counting /\ StartedPrefix)'
        BY <1>7 DEF WorkerExit, IInv, TypeOK, Counting, StartedPrefix
    <2>. QED  BY <2>2, <2>3 DEF IInv
<1>8. CASE UNCHANGED vars
    BY <1>8 DEF vars, IInv, TypeOK, Counting, StartedPrefix,
                SemaphoreAccounting, Holders
<1>. QED  BY <1>1, <1>2, <1>3, <1>4, <1>5, <1>6, <1>7, <1>8 DEF Next

\* Every reachable state is well-typed and satisfies the semaphore
\* accounting of __client_handler_tracker and __worker, whatever max_clients
\* and the number of clients: at most max_clients sessions run at once and
\* no worker's release overflows the BoundedSemaphore.
THEOREM TrackerSafety == Spec => [](TypeOK /\ SemaphoreAccounting)
<1>1. IInv => TypeOK /\ SemaphoreAccounting
    BY DEF IInv
<1>. QED  BY <1>1, InitIInv, NextIInv, PTL DEF Spec

\* The type invariant alone: the tracker's counters stay within 0..NConn,
\* its list of processes holds only started workers, and every worker is
\* in one of its four states (TypeOK), for every max_clients and NConn.
THEOREM TrackerTypeCorrect == Spec => []TypeOK
<1>. QED  BY TrackerSafety, PTL
=============================================================================
