------------------------ MODULE MC_DosMasRapidos ------------------------
(* Two routes; four durations among which P1D and PT24H tie and PT30M,   *)
(* PT1H are faster; up to three flights per route, so the compare-and-   *)
(* replace branch of add_to_fastest runs with every ordering of inputs.  *)
EXTENDS DosMasRapidos, TLC

CONSTANTS r1, r2

MC_Routes == {r1, r2}
MC_Durations ==
    {[days |-> 0, hours |-> 1, minutes |-> 0],
     [days |-> 0, hours |-> 0, minutes |-> 30],
     [days |-> 1, hours |-> 0, minutes |-> 0],
     [days |-> 0, hours |-> 24, minutes |-> 0]}
MC_MaxMsgs == 3

\* Durations, in minutes, of a sequence of flights.
DurationsOf(s) == [i \in DOMAIN s |-> Minutes(s[i])]

\* Reference: the two smallest durations of a route's flights, in order.
TwoFastestRef(s) ==
    SubSeq(SortSeq(DurationsOf(s), <), 1, IF Len(s) < 2 THEN Len(s) ELSE 2)

\* The flights kept for every route have exactly the two smallest travel
\* durations (with multiplicity) of all the flights processed for it, in
\* increasing order: dos_mas_rapidos answers the query "two fastest
\* flights per route" whatever order the flights arrive in.
FastestMatchesReference ==
    \A r \in Routes :
        DurationsOf(trajectory[r]) = TwoFastestRef(processed[r])
=============================================================================
