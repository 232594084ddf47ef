------------------------- MODULE DosMasRapidosProofs -------------------------
(***************************************************************************)
(* Proof that dos_mas_rapidos keeps, for every route, the fastest flights  *)
(* it has processed, for any routes, durations and stream length.          *)
(***************************************************************************)
EXTENDS DosMasRapidos, SequenceTheorems, TLAPS

\* The strengthening: both per-route tables are well-typed.
IInv ==
    /\ trajectory \in [Routes -> Seq(Flight)]
    /\ processed \in [Routes -> Seq(Flight)]
    /\ KeptAreFastest

\* What process stores for a route whose kept list is T.
NewKept(T, m) == IF T = <<>> THEN <<m>> ELSE AddToFastest(T, m)

\* Travel durations are natural numbers of minutes.
LEMMA MinutesNat ==
    ASSUME NEW m \in Flight
    PROVE  Minutes(m) \in Nat
BY DosMasRapidosAssumption DEF Flight, Minutes, ConvertTravelDuration

\* The range of an appended sequence.
LEMMA RangeAppend ==
    ASSUME NEW S, NEW P \in Seq(S), NEW m \in S
    PROVE  Range(Append(P, m)) = Range(P) \cup {m}
<1>. DEFINE A == Append(P, m)
<1>1. /\ A \in Seq(S) /\ Len(A) = Len(P) + 1
      /\ \A i \in 1..Len(P) : A[i] = P[i]
      /\ A[Len(P) + 1] = m
    BY AppendProperties
<1>2. Range(A) = {A[i] : i \in 1..Len(P) + 1}
    BY <1>1, RangeEquality
<1>3. Range(P) = {P[i] : i \in 1..Len(P)}
    BY RangeEquality
<1>4. Len(P) \in Nat
    BY LenProperties
<1>5. \A i \in 1..Len(P) + 1 : i \in 1..Len(P) \/ i = Len(P) + 1
    BY <1>4
<1>6. ASSUME NEW y PROVE y \in Range(A) <=> y \in Range(P) \cup {m}
    <2>1. ASSUME NEW i \in 1..Len(P) + 1, y = A[i] PROVE y \in Range(P) \cup {m}
        BY <2>1, <1>1, <1>3, <1>5
    <2>2. ASSUME y \in Range(P) PROVE y \in Range(A)
        <3>1. PICK i \in 1..Len(P) : y = P[i]
            BY <2>2, <1>3
        <3>2. i \in 1..Len(P) + 1 /\ A[i] = y
            BY <3>1, <1>1, <1>4
        <3>. QED  BY <3>2, <1>2
    <2>3. m \in Range(A)
        <3>1. Len(P) + 1 \in 1..Len(P) + 1
            BY <1>4
        <3>. QED  BY <3>1, <1>1, <1>2
    <2>. QED  BY <2>1, <2>2, <2>3, <1>2
<1>. QED  BY <1>6

\* Appending to a one-element sequence gives a pair.
LEMMA AppendSingleton ==
    ASSUME NEW S, NEW T \in Seq(S), Len(T) = 1, NEW m \in S
    PROVE  Append(T, m) = <<T[1], m>>
<1>1. T[1] \in S
    BY ElementOfSeq
<1>2. <<T[1], m>> \in Seq(S) /\ Len(<<T[1], m>>) = 2
      /\ <<T[1], m>>[1] = T[1] /\ <<T[1], m>>[2] = m
    BY <1>1
<1>3. Append(T, m) \in Seq(S) /\ Len(Append(T, m)) = 2
      /\ Append(T, m)[1] = T[1] /\ Append(T, m)[2] = m
    BY AppendProperties
<1>4. \A i \in 1..2 : Append(T, m)[i] = <<T[1], m>>[i]
    BY <1>2, <1>3
<1>. QED  BY <1>2, <1>3, <1>4, SeqEqual

\* A two-element sequence is the pair of its elements.
LEMMA PairOfSeq ==
    ASSUME NEW S, NEW T \in Seq(S), Len(T) = 2
    PROVE  T = <<T[1], T[2]>>
<1>1. T[1] \in S /\ T[2] \in S
    BY ElementOfSeq
<1>2. <<T[1], T[2]>> \in Seq(S) /\ Len(<<T[1], T[2]>>) = 2
      /\ <<T[1], T[2]>>[1] = T[1] /\ <<T[1], T[2]>>[2] = T[2]
    BY <1>1
<1>3. \A i \in 1..2 : T[i] = <<T[1], T[2]>>[i]
    BY <1>2
<1>. QED  BY <1>2, <1>3, SeqEqual

\* A pair of flights as a sequence.
LEMMA PairFacts ==
    ASSUME NEW a \in Flight, NEW b \in Flight
    PROVE  /\ <<a, b>> \in Seq(Flight) /\ Len(<<a, b>>) = 2
           /\ DOMAIN <<a, b>> = 1..2
           /\ <<a, b>>[1] = a /\ <<a, b>>[2] = b
           /\ Range(<<a, b>>) = {a, b}
<1>1. <<a, b>> \in Seq(Flight)
    OBVIOUS
<1>2. Len(<<a, b>>) = 2 /\ DOMAIN <<a, b>> = 1..2
      /\ <<a, b>>[1] = a /\ <<a, b>>[2] = b
    OBVIOUS
<1>3. Range(<<a, b>>) = {a, b}
    BY DEF Range
<1>. QED  BY <1>1, <1>2, <1>3

\* The result of add_to_fastest on a sorted list of two flights.
LEMMA AddToFullList ==
    ASSUME NEW T \in Seq(Flight), Len(T) = 2, Minutes(T[1]) <= Minutes(T[2]),
           NEW m \in Flight
    PROVE  AddToFastest(T, m) =
               IF Minutes(m) < Minutes(T[2])
                  THEN IF Minutes(m) < Minutes(T[1]) THEN <<m, T[1]>>
                                                     ELSE <<T[1], m>>
                  ELSE T
<1>0. T[1] \in Flight /\ T[2] \in Flight
    OBVIOUS
<1>1. Minutes(T[1]) \in Nat /\ Minutes(T[2]) \in Nat /\ Minutes(m) \in Nat
    BY <1>0, MinutesNat
<1>2. CASE Minutes(m) < Minutes(T[2])
    <2>1. [T EXCEPT ![2] = m] = <<T[1], m>>
        <3>1. DOMAIN T = 1..2
            OBVIOUS
        <3>. QED  BY <3>1
    <2>2. AddToFastest(T, m) = SortByDuration([T EXCEPT ![2] = m])
        <3>1. ~(Len(T) < 2)
            OBVIOUS
        <3>. QED  BY <1>2, <3>1 DEF AddToFastest
    <2>. QED  BY <1>2, <2>1, <2>2 DEF SortByDuration
<1>3. CASE ~(Minutes(m) < Minutes(T[2]))
    <2>1. AddToFastest(T, m) = SortByDuration(T)
        BY <1>3 DEF AddToFastest
    <2>2. SortByDuration(T) = T
        BY <1>1 DEF SortByDuration
    <2>. QED  BY <1>3, <2>1, <2>2
<1>. QED  BY <1>2, <1>3

\* The result of add_to_fastest on a list of one flight.
LEMMA AddToSingleton ==
    ASSUME NEW T \in Seq(Flight), Len(T) = 1, NEW m \in Flight
    PROVE  AddToFastest(T, m) =
               IF Minutes(m) < Minutes(T[1]) THEN <<m, T[1]>> ELSE <<T[1], m>>
<1>0. Append(T, m) = <<T[1], m>>
    BY AppendSingleton
<1>1. AddToFastest(T, m) = SortByDuration(<<T[1], m>>)
    BY <1>0 DEF AddToFastest
<1>. QED  BY <1>1 DEF SortByDuration

LEMMA InitIInv == Init => IInv
BY DEF Init, IInv, KeptAreFastest, KeepsFastest, Range

\* The step of process(m) on the route of m keeps the invariant for it.
LEMMA ProcessRoute ==
    ASSUME NEW T \in Seq(Flight), NEW P \in Seq(Flight), NEW m \in Flight,
           KeepsFastest(T, P)
    PROVE  /\ NewKept(T, m) \in Seq(Flight)
           /\ KeepsFastest(NewKept(T, m), Append(P, m))
<1>. DEFINE P2 == Append(P, m)
            T2 == NewKept(T, m)
<1>0. /\ Range(P2) = Range(P) \cup {m} /\ Len(P2) = Len(P) + 1
      /\ P2 \in Seq(Flight) /\ Len(P) \in Nat
    BY RangeAppend, AppendProperties
<1>n. Len(P) \in Nat
    BY LenProperties
<1>hl. Len(T) = IF Len(P) < 2 THEN Len(P) ELSE 2
    BY DEF KeepsFastest
<1>hs. Len(T) = 2 => Minutes(T[1]) <= Minutes(T[2])
    BY DEF KeepsFastest
<1>hr. Range(T) \subseteq Range(P)
    BY DEF KeepsFastest
<1>hd. \A x \in Range(P) \ Range(T) : \A i \in DOMAIN T :
           Minutes(T[i]) <= Minutes(x)
    BY DEF KeepsFastest
<1>1. CASE Len(T) = 0
    <2>1. T = <<>> /\ Len(P) = 0
        <3>1. T = <<>>
            BY <1>1, EmptySeq
        <3>2. Len(P) = 0
            BY <1>1, <1>hl, <1>n
        <3>. QED  BY <3>1, <3>2
    <2>2. P2 = <<m>> /\ T2 = <<m>>
        BY <2>1 DEF NewKept
    <2>. QED  BY <2>2 DEF KeepsFastest, Range
<1>2. CASE Len(T) = 1
    <2>0. Len(P) = 1 /\ T # <<>> /\ T[1] \in Flight
        <3>1. Len(P) = 1
            BY <1>2, <1>hl, <1>n
        <3>2. T # <<>>
            BY <1>2
        <3>3. T[1] \in Flight
            <4>1. 1 \in 1..Len(T)
                BY <1>2
            <4>. QED  BY <4>1, ElementOfSeq
        <3>. QED  BY <3>1, <3>2, <3>3
    <2>1. Range(P) = {P[1]} /\ Range(T) = {T[1]}
        BY <2>0, <1>2, RangeEquality
    <2>2. T2 = IF Minutes(m) < Minutes(T[1]) THEN <<m, T[1]>> ELSE <<T[1], m>>
        BY <1>2, <2>0, AddToSingleton DEF NewKept
    <2>3. Minutes(m) \in Nat /\ Minutes(T[1]) \in Nat
        BY <2>0, MinutesNat
    <2>4. /\ T2 \in Seq(Flight) /\ Len(T2) = 2
          /\ Minutes(T2[1]) <= Minutes(T2[2])
          /\ Range(T2) = {T[1], m}
        <3>1. CASE Minutes(m) < Minutes(T[1])
            BY <3>1, <2>0, <2>2, <2>3, PairFacts
        <3>2. CASE ~(Minutes(m) < Minutes(T[1]))
            BY <3>2, <2>0, <2>2, <2>3, PairFacts
        <3>. QED  BY <3>1, <3>2
    <2>5. Range(T2) = Range(P2)
        BY <1>0, <1>hr, <2>1, <2>4
    <2>. QED  BY <1>0, <2>0, <2>4, <2>5 DEF KeepsFastest
<1>3. CASE Len(T) = 2
    <2>0. /\ Len(P) >= 2 /\ T # <<>>
          /\ Minutes(T[1]) <= Minutes(T[2])
          /\ T[1] \in Flight /\ T[2] \in Flight
          /\ Minutes(T[1]) \in Nat /\ Minutes(T[2]) \in Nat /\ Minutes(m) \in Nat
        <3>1. Len(P) >= 2 /\ T # <<>>
            BY <1>3, <1>hl, <1>n
        <3>2. T[1] \in Flight /\ T[2] \in Flight
            <4>1. 1 \in 1..Len(T) /\ 2 \in 1..Len(T)
                BY <1>3
            <4>. QED  BY <4>1, ElementOfSeq
        <3>3. Minutes(T[1]) \in Nat /\ Minutes(T[2]) \in Nat /\ Minutes(m) \in Nat
            BY <3>2, MinutesNat
        <3>4. Minutes(T[1]) <= Minutes(T[2])
            BY <1>3, <1>hs
        <3>. QED  BY <3>1, <3>2, <3>3, <3>4
    <2>1. Range(T) = {T[1], T[2]} /\ DOMAIN T = 1..2
        <3>1. T = <<T[1], T[2]>>
            BY <1>3, PairOfSeq
        <3>. QED  BY <3>1, <2>0, PairFacts
    <2>2. T2 = IF Minutes(m) < Minutes(T[2])
                  THEN IF Minutes(m) < Minutes(T[1]) THEN <<m, T[1]>>
                                                     ELSE <<T[1], m>>
                  ELSE T
        BY <1>3, <2>0, AddToFullList DEF NewKept
    \* The facts every branch of add_to_fastest gives.
    <2>3. /\ T2 \in Seq(Flight) /\ Len(T2) = 2 /\ DOMAIN T2 = 1..2
          /\ Minutes(T2[1]) <= Minutes(T2[2])
          /\ Range(T2) \subseteq Range(P) \cup {m}
          /\ \A i \in 1..2 : Minutes(T2[i]) <= Minutes(T[2])
          /\ T[1] \in Range(T2)
          /\ m \notin Range(T2) => Minutes(T[2]) <= Minutes(m)
        <3>1. CASE Minutes(m) < Minutes(T[1])
            <4>1. T2 = <<m, T[1]>>
                BY <3>1, <2>0, <2>2
            <4>. QED  BY <4>1, <3>1, <2>0, <2>1, <1>hr, PairFacts
        <3>2. CASE ~(Minutes(m) < Minutes(T[1])) /\ Minutes(m) < Minutes(T[2])
            <4>1. T2 = <<T[1], m>>
                BY <3>2, <2>2
            <4>. QED  BY <4>1, <3>2, <2>0, <2>1, <1>hr, PairFacts
        <3>3. CASE ~(Minutes(m) < Minutes(T[2]))
            <4>1. T2 = T
                BY <3>3, <2>2
            <4>. QED  BY <4>1, <3>3, <2>0, <2>1, <1>3, <1>hr, <1>hs
        <3>. QED  BY <3>1, <3>2, <3>3
    <2>4. ASSUME NEW x \in Range(P2) \ Range(T2), NEW i \in DOMAIN T2
          PROVE  Minutes(T2[i]) <= Minutes(x)
        <3>0. x \in Range(P) \cup {m} /\ i \in 1..2
            BY <1>0, <2>3
        <3>1. Minutes(T2[i]) <= Minutes(T[2]) /\ Minutes(T2[i]) \in Nat
            <4>1. T2[i] \in Flight
                BY <3>0, <2>3, ElementOfSeq
            <4>. QED  BY <4>1, <3>0, <2>3, MinutesNat
        <3>2. CASE x = m
            <4>1. m \notin Range(T2)
                BY <3>2
            <4>2. Minutes(T[2]) <= Minutes(m)
                BY <4>1, <2>3
            <4>. QED  BY <3>2, <4>2, <3>1, <2>0
        <3>3. CASE x = T[2]
            BY <3>3, <3>1
        <3>4. CASE x # m /\ x # T[2]
            <4>1. x \in Range(P) \ Range(T)
                BY <3>4, <3>0, <2>1, <2>3
            <4>2. Minutes(T[2]) <= Minutes(x)
                BY <4>1, <2>1, <1>hd
            <4>3. Range(P) \subseteq Flight
                BY RangeOfSeq
            <4>4. Minutes(x) \in Nat
                BY <4>1, <4>3, MinutesNat
            <4>. QED  BY <4>2, <3>1, <4>4, <2>0
        <3>. QED  BY <3>2, <3>3, <3>4
    <2>5. Len(T2) = IF Len(P2) < 2 THEN Len(P2) ELSE 2
        BY <2>0, <2>3, <1>0
    <2>6. Range(T2) \subseteq Range(P2)
        BY <2>3, <1>0
    <2>. QED  BY <2>3, <2>4, <2>5, <2>6 DEF KeepsFastest
<1>. QED
    <2>1. Len(T) \in {0, 1, 2}
        <3>1. Len(T) = IF Len(P) < 2 THEN Len(P) ELSE 2
            BY <1>hl
        <3>2. CASE Len(P) < 2
            <4>0. \A k \in Nat : k < 2 => k = 0 \/ k = 1
                OBVIOUS
            <4>1. Len(P) \in {0, 1}
                BY <4>0, <3>2, <1>n
            <4>. QED  BY <3>1, <3>2, <4>1
        <3>3. CASE ~(Len(P) < 2)
            BY <3>1, <3>3
        <3>. QED  BY <3>2, <3>3
    <2>2. Len(T) = 0 \/ Len(T) = 1 \/ Len(T) = 2
        BY <2>1
    <2>. QED  BY <1>1, <1>2, <1>3, <2>2, Zenon

LEMMA NextIInv == IInv /\ [Next]_vars => IInv'
<1>. SUFFICES ASSUME IInv, [Next]_vars PROVE IInv'
    OBVIOUS
<1>1. ASSUME NEW m \in Flight, Process(m) PROVE IInv'
    <2>. DEFINE r == m.route
                T == trajectory[r]
                P == processed[r]
    <2>1. r \in Routes /\ T \in Seq(Flight) /\ P \in Seq(Flight)
        BY DEF IInv, Flight
    <2>2. trajectory' = [trajectory EXCEPT ![r] = NewKept(T, m)]
          /\ processed' = [processed EXCEPT ![r] = Append(P, m)]
        BY <1>1 DEF Process, NewKept
    <2>3. KeepsFastest(T, P)
        BY <2>1 DEF IInv, KeptAreFastest
    <2>4. NewKept(T, m) \in Seq(Flight) /\ KeepsFastest(NewKept(T, m), Append(P, m))
        BY <2>1, <2>3, ProcessRoute
    <2>5. Append(P, m) \in Seq(Flight)
        BY <2>1, AppendProperties
    <2>6. trajectory' \in [Routes -> Seq(Flight)] /\ processed' \in [Routes -> Seq(Flight)]
        BY <2>1, <2>2, <2>4, <2>5 DEF IInv
    <2>7. KeptAreFastest'
        BY <2>1, <2>2, <2>4 DEF IInv, KeptAreFastest
    <2>. QED  BY <2>6, <2>7 DEF IInv
<1>2. CASE FinishProcessing
    BY <1>2 DEF FinishProcessing, IInv, KeptAreFastest
<1>3. CASE Done \/ UNCHANGED vars
    BY <1>3 DEF Done, vars, IInv, KeptAreFastest
<1>. QED  BY <1>1, <1>2, <1>3 DEF Next

\* For every set of routes and durations and every stream length, in every
\* reachable state each route keeps up to two of its processed flights,
\* sorted, and never a slower flight in place of a faster one it discarded:
\* add_to_fastest's compare-with-the-second-then-sort is correct.
THEOREM FastestCorrect == Spec => []KeptAreFastest
<1>1. IInv => KeptAreFastest
    BY DEF IInv
<1>. QED  BY <1>1, InitIInv, NextIInv, PTL DEF Spec
=============================================================================
