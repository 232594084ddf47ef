---------------------------- MODULE DosMasRapidos ----------------------------
(***************************************************************************)
(* The "two fastest flights per route" processor                           *)
(* (src/processors/dos_mas_rapidos/dos_mas_rapidos.py).  The replica's     *)
(* connection loop feeds it one flight at a time (process); at the end of  *)
(* the client's stream finish_processing emits the kept flights.  A        *)
(* flight is its route (startingAirport-destinationAirport) and its ISO    *)
(* 8601 travelDuration, given by its day, hour and minute fields.          *)
(***************************************************************************)
EXTENDS Naturals, Sequences, Functions

CONSTANTS
    Routes,     \* routes, i.e. startingAirport-destinationAirport strings
    Durations,  \* travelDuration strings, as [days, hours, minutes] records
    MaxMsgs     \* bound on the flights of one client stream

ASSUME DosMasRapidosAssumption ==
    /\ Durations \subseteq [days : Nat, hours : Nat, minutes : Nat]
    /\ MaxMsgs \in Nat

\* A flight message as the processor sees it.
Flight == [route : Routes, duration : Durations]

\* convert_travel_duration: "P<d>DT<h>H<m>M" to minutes.
ConvertTravelDuration(d) == d.days * 24 * 60 + d.hours * 60 + d.minutes

Minutes(m) == ConvertTravelDuration(m.duration)

VARIABLES
    trajectory,  \* [Routes -> Seq(Flight)]: <<>> while the route is not a key
    order,       \* routes in the order they became keys of the dict
    processed,   \* history: [Routes -> Seq(Flight)], every flight processed
    output       \* <<>> until finish_processing, then its MULTIPLE payload

vars == <<trajectory, order, processed, output>>

TypeOK ==
    /\ trajectory \in [Routes -> Seq(Flight)]
    /\ order \in Seq(Routes)
    /\ processed \in [Routes -> Seq(Flight)]
    /\ output \in Seq(Flight)

Init ==
    /\ trajectory = [r \in Routes |-> <<>>]
    /\ order = <<>>
    /\ processed = [r \in Routes |-> <<>>]
    /\ output = <<>>

\* fastest.sort(key=...) on a list of at most two flights: Python's sort is
\* stable, so the two swap only when the second is strictly faster.
SortByDuration(s) ==
    IF Len(s) = 2 /\ Minutes(s[2]) < Minutes(s[1]) THEN <<s[2], s[1]>> ELSE s

\* Mutant: the trailing sort is left out.
AddToFastestUnsorted(fastest, m) ==
    IF Len(fastest) < 2 THEN Append(fastest, m)
    ELSE IF Minutes(m) < Minutes(fastest[2]) THEN [fastest EXCEPT ![2] = m]
    ELSE fastest

\* Mutant: the new flight is compared with the fastest instead of the
\* second fastest.
AddToFastestFirst(fastest, m) ==
    SortByDuration(
        IF Len(fastest) < 2 THEN Append(fastest, m)
        ELSE IF Minutes(m) < Minutes(fastest[1]) THEN [fastest EXCEPT ![2] = m]
        ELSE fastest)

\* add_to_fastest: append while fewer than two are kept, otherwise replace
\* the second fastest by a strictly faster flight; then sort.
AddToFastest(fastest, m) ==
    SortByDuration(
        IF Len(fastest) < 2 THEN Append(fastest, m)
        ELSE IF Minutes(m) < Minutes(fastest[2]) THEN [fastest EXCEPT ![2] = m]
        ELSE fastest)

\* Mutant: the dict is keyed by the whole message rather than by
\* convert_message_to_trajectory's route.
ProcessKeyedByMessage(m) ==
    /\ output = <<>>
    /\ Len(processed[m.route]) < MaxMsgs
    /\ IF trajectory[m.route] = <<>>
          THEN /\ trajectory' = [trajectory EXCEPT ![m.route] = <<m>>]
               /\ order' = Append(order, m)
          ELSE /\ trajectory' = [trajectory EXCEPT ![m.route] =
                                    AddToFastest(@, m)]
               /\ UNCHANGED order
    /\ processed' = [processed EXCEPT ![m.route] = Append(@, m)]
    /\ UNCHANGED output

\* process: a new route becomes a key holding [message]; a known one goes
\* through add_to_fastest.
Process(m) ==
    /\ output = <<>>
    /\ Len(processed[m.route]) < MaxMsgs
    /\ IF trajectory[m.route] = <<>>
          THEN /\ trajectory' = [trajectory EXCEPT ![m.route] = <<m>>]
               /\ order' = Append(order, m.route)
          ELSE /\ trajectory' = [trajectory EXCEPT ![m.route] =
                                    AddToFastest(@, m)]
               /\ UNCHANGED order
    /\ processed' = [processed EXCEPT ![m.route] = Append(@, m)]
    /\ UNCHANGED output

\* Kept flights of the first i keys of the dict, in dict order.
Kept[i \in Nat] ==
    IF i = 0 THEN <<>> ELSE Kept[i - 1] \o trajectory[order[i]]

\* finish_processing: every kept flight of every route, in dict order.
FinishProcessing ==
    /\ output = <<>>
    /\ order # <<>>
    /\ output' = Kept[Len(order)]
    /\ UNCHANGED <<trajectory, order, processed>>

\* The stream is exhausted and the results are out.
Done ==
    /\ output # <<>>
    /\ UNCHANGED vars

Next ==
    \/ \E m \in Flight : Process(m)
    \/ FinishProcessing
    \/ Done

Spec == Init /\ [][Next]_vars

-----------------------------------------------------------------------------
\* T holds the flights kept for a route whose processed flights are P: at
\* most two, as many as were processed up to two, sorted by duration, taken
\* from P, and no flight of P that was not kept is faster than a kept one.
KeepsFastest(T, P) ==
    /\ Len(T) = IF Len(P) < 2 THEN Len(P) ELSE 2
    /\ Len(T) = 2 => Minutes(T[1]) <= Minutes(T[2])
    /\ Range(T) \subseteq Range(P)
    /\ \A m \in Range(P) \ Range(T) : \A i \in DOMAIN T :
           Minutes(T[i]) <= Minutes(m)

\* For every route, the flights process has kept are the fastest of the
\* route's processed flights, sorted (KeepsFastest).  This is what
\* add_to_fastest's compare-with-the-second-and-sort keeps true.
KeptAreFastest ==
    \A r \in Routes : KeepsFastest(trajectory[r], processed[r])
=============================================================================
