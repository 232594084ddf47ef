------------------------- MODULE ClientDupsProofs -------------------------
(***************************************************************************)
(* Proof that the server forwards each EOF with every data id it has       *)
(* already forwarded twice listed in its possible_duplicates               *)
(* (DuplicatesDeclared).                                                   *)
(*                                                                         *)
(* The argument counts copies.  A frame of message <<t, i>> is a location  *)
(* in fwd or in a connection's c2s queue holding it.  Only Send makes a    *)
(* copy, of current_message; the first Send after TakeMessage finds no     *)
(* copy anywhere (the id is fresh), and every later Send follows a         *)
(* ResendMessage, which adds the id to possible_duplicates.  So an id that *)
(* is not in possible_duplicates has at most one copy (SentOnce).  An EOF  *)
(* carries possible_duplicates as it was when it was taken or resent, and  *)
(* after that no data message of its type is sent again, so every id it   *)
(* leaves out still has at most one copy when the server forwards it.      *)
(***************************************************************************)
EXTENDS ClientOrderProofs, FiniteSetTheorems

\* Message m is a copy of <<t, i>>.
Match(m, t, i) == m.t = t /\ m.id = i

\* Among the first n forwarded frames at most one is a copy of <<t, i>>.
FwdOnce(t, i, n) ==
    \A p1, p2 \in 1..n :
        Match(fwd[p1], t, i) /\ Match(fwd[p2], t, i) => p1 = p2

\* At most one unread frame on all connections is a copy of <<t, i>>.
QueueOnce(t, i) ==
    \A k1, k2 \in Conns :
        \A q1 \in 1..Len(c2s[k1]), q2 \in 1..Len(c2s[k2]) :
            Match(c2s[k1][q1], t, i) /\ Match(c2s[k2][q2], t, i) =>
                k1 = k2 /\ q1 = q2

Forwarded(t, i) == \E p \in 1..Len(fwd) : Match(fwd[p], t, i)

Queued(t, i) ==
    \E k \in Conns : \E q \in 1..Len(c2s[k]) : Match(c2s[k][q], t, i)

\* At most one copy of <<t, i>> exists, forwarded or unread.
AtMostOnce(t, i) ==
    FwdOnce(t, i, Len(fwd)) /\ QueueOnce(t, i) /\ ~(Forwarded(t, i) /\ Queued(t, i))

\* The EOF of type t has id N[t] + 1 (Msg).
EOFId(m) == m.kind = "eof" => m.id = N[m.t] + 1

\* Current message and every unread frame are EOFs only with the EOF's id.
KindsOK ==
    /\ current_message # NoMsg => EOFId(current_message)
    /\ \A k \in Conns : \A q \in 1..Len(c2s[k]) : EOFId(c2s[k][q])

\* An EOF in the send slot carries the whole current possible_duplicates
\* (WithDups in TakeMessage and ResendMessage).
CurrentDups ==
    (current_message # NoMsg /\ current_message.kind = "eof")
        => current_message.dups = possible_duplicates

\* A message about to be sent whose id was never marked as resent has no
\* copy yet: it was just taken from the uploader.
FreshUnsent ==
    (spc = "send" /\ current_message \notin {NoMsg}
                  /\ current_message.id \notin possible_duplicates)
        => ~Forwarded(current_message.t, current_message.id)
           /\ ~Queued(current_message.t, current_message.id)

\* A data id never marked as resent has at most one copy.
SentOnce ==
    \A t \in Types : \A i \in 1..N[t] :
        i \notin possible_duplicates => AtMostOnce(t, i)

\* Every unread EOF frame lists every data id of its type that has more
\* than one copy.
EOFQueuedDeclared ==
    \A k \in Conns : \A q \in 1..Len(c2s[k]) :
        c2s[k][q].kind = "eof" =>
            \A i \in 1..N[c2s[k][q].t] :
                i \notin c2s[k][q].dups => AtMostOnce(c2s[k][q].t, i)

\* Every forwarded EOF lists every data id of its type forwarded more than
\* once before it.
EOFFwdDeclared ==
    \A p \in 1..Len(fwd) :
        fwd[p].kind = "eof" =>
            \A i \in 1..N[fwd[p].t] :
                i \notin fwd[p].dups => FwdOnce(fwd[p].t, i, p - 1)

DupInv ==
    /\ OrderInv /\ KindsOK /\ CurrentDups /\ FreshUnsent /\ SentOnce
    /\ EOFQueuedDeclared /\ EOFFwdDeclared

-----------------------------------------------------------------------------
\* A set whose elements are all equal has at most one element.
LEMMA AllEqualCard ==
    ASSUME NEW S, \A x, y \in S : x = y
    PROVE  Cardinality(S) <= 1
<1>1. CASE S = {}
    BY <1>1, FS_EmptySet
<1>2. CASE S # {}
    <2>1. PICK x \in S : TRUE
        BY <1>2
    <2>2. S = {x}
        BY <2>1
    <2>. QED  BY <2>2, FS_Singleton
<1>. QED  BY <1>1, <1>2

\* The initial state has no copies and no EOF.
LEMMA DupInit == Init => DupInv
<1>. SUFFICES ASSUME Init PROVE DupInv
    OBVIOUS
<1>1. OrderInv
    BY OrderInit
<1>2. \A k \in Conns : Len(c2s[k]) = 0
    BY DEF Init
<1>3. Len(fwd) = 0 /\ current_message = NoMsg /\ spc = "connect"
    BY DEF Init
<1>4. \A t \in Types, i \in Nat : AtMostOnce(t, i)
    BY <1>2, <1>3 DEF AtMostOnce, FwdOnce, QueueOnce, Forwarded, Queued
<1>. QED  BY <1>1, <1>2, <1>3, <1>4
          DEF DupInv, KindsOK, CurrentDups, FreshUnsent, SentOnce,
              EOFQueuedDeclared, EOFFwdDeclared

\* The invariant gives the property: an EOF forwarded at position p with i
\* left out of its list had at most one copy of <<t, i>> forwarded before.
LEMMA DupInvDeclared == DupInv => DuplicatesDeclared
<1>. SUFFICES ASSUME DupInv, NEW p \in 1..Len(fwd), fwd[p].kind = "eof",
                     NEW i \in 1..N[fwd[p].t],
                     Cardinality({q \in FwdPositions(fwd[p].t, i) : q < p}) >= 2
              PROVE  i \in fwd[p].dups
    BY DEF DuplicatesDeclared
<1>. DEFINE S == {q \in FwdPositions(fwd[p].t, i) : q < p}
<1>1. SUFFICES ASSUME i \notin fwd[p].dups PROVE FALSE
    OBVIOUS
<1>2. FwdOnce(fwd[p].t, i, p - 1)
    BY <1>1 DEF DupInv, EOFFwdDeclared
<1>3. fwd \in Seq(AppMsg)
    BY DEF DupInv, OrderInv, TypeOK
<1>4. \A x, y \in S : x = y
    BY <1>2, <1>3 DEF FwdOnce, FwdPositions, Match
<1>5. Cardinality(S) <= 1
    BY <1>4, AllEqualCard
<1>6. IsFiniteSet(S)
    <2>1. IsFiniteSet(1..Len(fwd))
        BY <1>3, FS_Interval
    <2>2. S \subseteq 1..Len(fwd)
        BY DEF FwdPositions
    <2>. QED  BY <2>1, <2>2, FS_Subset
<1>. QED  BY <1>5, <1>6, FS_CardinalityType
-----------------------------------------------------------------------------
(* How the steps that move or drop frames change the copies.               *)

\* A frame still unread after some queues are emptied was unread before.
LEMMA DropLocation ==
    ASSUME \A j \in Conns : c2s'[j] = c2s[j] \/ c2s'[j] = <<>>,
           NEW j \in Conns, NEW q \in 1..Len(c2s'[j])
    PROVE  c2s'[j] = c2s[j] /\ q \in 1..Len(c2s[j])
<1>1. c2s'[j] # <<>>
    OBVIOUS
<1>. QED  BY <1>1

\* Emptying queues (a new session preempting older ones, a broken socket)
\* never makes a second copy, nor a copy of what had none.
LEMMA DropKeepsOnce ==
    ASSUME fwd' = fwd, \A j \in Conns : c2s'[j] = c2s[j] \/ c2s'[j] = <<>>,
           NEW t, NEW i
    PROVE  /\ AtMostOnce(t, i) => AtMostOnce(t, i)'
           /\ ~Forwarded(t, i) => ~Forwarded(t, i)'
           /\ ~Queued(t, i) => ~Queued(t, i)'
<1>1. Queued(t, i)' => Queued(t, i)
    <2>. SUFFICES ASSUME NEW k \in Conns, NEW q \in 1..Len(c2s'[k]),
                         Match(c2s'[k][q], t, i)
                  PROVE  Queued(t, i)
        BY DEF Queued
    <2>1. c2s'[k] = c2s[k] /\ q \in 1..Len(c2s[k])
        BY DropLocation
    <2>. QED  BY <2>1 DEF Queued
<1>2. AtMostOnce(t, i) => AtMostOnce(t, i)'
    <2>. SUFFICES ASSUME AtMostOnce(t, i) PROVE AtMostOnce(t, i)'
        OBVIOUS
    <2>1. FwdOnce(t, i, Len(fwd))'
        BY DEF AtMostOnce, FwdOnce
    <2>2. QueueOnce(t, i)'
        <3>. SUFFICES ASSUME NEW k1 \in Conns, NEW k2 \in Conns,
                             NEW q1 \in 1..Len(c2s'[k1]), NEW q2 \in 1..Len(c2s'[k2]),
                             Match(c2s'[k1][q1], t, i), Match(c2s'[k2][q2], t, i)
                      PROVE  k1 = k2 /\ q1 = q2
            BY DEF QueueOnce
        <3>1. c2s'[k1] = c2s[k1] /\ q1 \in 1..Len(c2s[k1])
            BY DropLocation
        <3>2. c2s'[k2] = c2s[k2] /\ q2 \in 1..Len(c2s[k2])
            BY DropLocation
        <3>. QED  BY <3>1, <3>2 DEF AtMostOnce, QueueOnce
    <2>. QED  BY <1>1, <2>1, <2>2 DEF AtMostOnce, Forwarded
<1>. QED  BY <1>1, <1>2 DEF Forwarded
\* ServerForward(k) moves the head of c2s[k] to the end of fwd.
LEMMA ForwardFrames ==
    ASSUME TypeOK, NEW k \in Conns, ServerForward(k)
    PROVE  /\ fwd \in Seq(AppMsg) /\ c2s[k] \in Seq(AppMsg)
           /\ Len(c2s[k]) >= 1
           /\ Len(fwd') = Len(fwd) + 1 /\ fwd'[Len(fwd) + 1] = c2s[k][1]
           /\ \A p \in 1..Len(fwd) : fwd'[p] = fwd[p]
           /\ \A j \in Conns : j # k => c2s'[j] = c2s[j]
           /\ Len(c2s'[k]) = Len(c2s[k]) - 1
           /\ \A q \in 1..Len(c2s'[k]) : c2s'[k][q] = c2s[k][q + 1]
<1>1. fwd \in Seq(AppMsg) /\ c2s \in [Conns -> Seq(AppMsg)]
    BY DEF TypeOK
<1>2. c2s[k] # <<>> /\ c2s' = [c2s EXCEPT ![k] = Tail(c2s[k])]
      /\ fwd' = Append(fwd, Head(c2s[k]))
    BY DEF ServerForward
<1>. QED  BY <1>1, <1>2

\* A forward moves a copy without making one.
LEMMA ForwardKeepsOnce ==
    ASSUME TypeOK, NEW k \in Conns, ServerForward(k), NEW t, NEW i
    PROVE  /\ AtMostOnce(t, i) => AtMostOnce(t, i)'
           /\ ~Forwarded(t, i) /\ ~Queued(t, i) => ~Forwarded(t, i)' /\ ~Queued(t, i)'
<1>. DEFINE n == Len(fwd)
            Q == c2s[k]
<1>0. /\ fwd \in Seq(AppMsg) /\ Q \in Seq(AppMsg) /\ Len(Q) >= 1
      /\ Len(fwd') = n + 1 /\ fwd'[n + 1] = Q[1]
      /\ \A p \in 1..n : fwd'[p] = fwd[p]
      /\ \A j \in Conns : j # k => c2s'[j] = c2s[j]
      /\ Len(c2s'[k]) = Len(Q) - 1
      /\ \A q \in 1..Len(c2s'[k]) : c2s'[k][q] = Q[q + 1]
    BY ForwardFrames
\* Where an unread frame after the step was before it.
<1>1. ASSUME NEW j \in Conns, NEW q \in 1..Len(c2s'[j])
      PROVE  /\ j = k => /\ q + 1 \in 2..Len(c2s[j])
                         /\ c2s'[j][q] = c2s[j][q + 1]
             /\ j # k => q \in 1..Len(c2s[j]) /\ c2s'[j][q] = c2s[j][q]
    <2>1. CASE j = k
        <3>1. q \in 1..(Len(Q) - 1) /\ Len(Q) \in Nat
            BY <1>0, <2>1
        <3>2. c2s'[k][q] = Q[q + 1]
            BY <1>0, <3>1
        <3>3. q + 1 \in 2..Len(Q)
            BY <3>1
        <3>. QED  BY <2>1, <3>2, <3>3
    <2>2. CASE j # k
        BY <1>0, <2>2
    <2>. QED  BY <2>1, <2>2
<1>2. ~Forwarded(t, i) /\ ~Queued(t, i) => ~Forwarded(t, i)' /\ ~Queued(t, i)'
    <2>. SUFFICES ASSUME ~Forwarded(t, i), ~Queued(t, i)
                  PROVE  ~Forwarded(t, i)' /\ ~Queued(t, i)'
        OBVIOUS
    <2>1. ~Match(Q[1], t, i)
        BY <1>0 DEF Queued
    <2>2. ~Forwarded(t, i)'
        BY <1>0, <2>1 DEF Forwarded
    <2>3. ~Queued(t, i)'
        BY <1>1 DEF Queued
    <2>. QED  BY <2>2, <2>3
<1>3. ASSUME AtMostOnce(t, i) PROVE AtMostOnce(t, i)'
    <2>1. QueueOnce(t, i)'
        <3>. SUFFICES ASSUME NEW k1 \in Conns, NEW k2 \in Conns,
                             NEW q1 \in 1..Len(c2s'[k1]), NEW q2 \in 1..Len(c2s'[k2]),
                             Match(c2s'[k1][q1], t, i), Match(c2s'[k2][q2], t, i)
                      PROVE  k1 = k2 /\ q1 = q2
            BY DEF QueueOnce
        <3>. DEFINE o1 == IF k1 = k THEN q1 + 1 ELSE q1
                    o2 == IF k2 = k THEN q2 + 1 ELSE q2
        <3>1. o1 \in 1..Len(c2s[k1]) /\ c2s'[k1][q1] = c2s[k1][o1]
            BY <1>1
        <3>2. o2 \in 1..Len(c2s[k2]) /\ c2s'[k2][q2] = c2s[k2][o2]
            BY <1>1
        <3>3. k1 = k2 /\ o1 = o2
            BY <1>3, <3>1, <3>2 DEF AtMostOnce, QueueOnce
        <3>. QED  BY <3>3
    <2>2. Queued(t, i)' => Queued(t, i) /\ ~Match(Q[1], t, i)
        <3>. SUFFICES ASSUME NEW j \in Conns, NEW q \in 1..Len(c2s'[j]),
                             Match(c2s'[j][q], t, i)
                      PROVE  Queued(t, i) /\ ~Match(Q[1], t, i)
            BY DEF Queued
        <3>. DEFINE q0 == IF j = k THEN q + 1 ELSE q
        <3>1. q0 \in 1..Len(c2s[j]) /\ c2s'[j][q] = c2s[j][q0] /\ (j = k => q0 # 1)
            BY <1>1
        <3>2. Queued(t, i)
            BY <3>1 DEF Queued
        <3>3. 1 \in 1..Len(Q)
            BY <1>0
        <3>4. ~Match(Q[1], t, i)
            BY <1>3, <3>1, <3>3 DEF AtMostOnce, QueueOnce
        <3>. QED  BY <3>2, <3>4
    <2>3. Forwarded(t, i)' => Forwarded(t, i) \/ Match(Q[1], t, i)
        BY <1>0 DEF Forwarded
    <2>4. FwdOnce(t, i, Len(fwd))'
        <3>. SUFFICES ASSUME NEW p1 \in 1..(n + 1), NEW p2 \in 1..(n + 1),
                             Match(fwd'[p1], t, i), Match(fwd'[p2], t, i)
                      PROVE  p1 = p2
            BY <1>0 DEF FwdOnce
        <3>1. 1 \in 1..Len(Q)
            BY <1>0
        <3>2. Match(Q[1], t, i) => ~Forwarded(t, i)
            BY <3>1, <1>3 DEF AtMostOnce, Queued
        <3>3. CASE p1 <= n /\ p2 <= n
            BY <1>0, <1>3, <3>3 DEF AtMostOnce, FwdOnce
        <3>4. CASE p1 = n + 1 /\ p2 <= n
            BY <1>0, <3>2, <3>4 DEF Forwarded
        <3>5. CASE p2 = n + 1 /\ p1 <= n
            BY <1>0, <3>2, <3>5 DEF Forwarded
        <3>6. CASE p1 = n + 1 /\ p2 = n + 1
            BY <3>6
        <3>7. n \in Nat
            BY <1>0
        <3>. QED  BY <3>3, <3>4, <3>5, <3>6, <3>7
    <2>5. ~(Forwarded(t, i)' /\ Queued(t, i)')
        BY <1>3, <2>2, <2>3 DEF AtMostOnce
    <2>. QED  BY <2>1, <2>4, <2>5 DEF AtMostOnce
<1>. QED  BY <1>2, <1>3
\* Send appends message m to the queue of connection c: it makes a copy of
\* m and of nothing else.
LEMMA AppendKeepsOnce ==
    ASSUME TypeOK, NEW c \in Conns, NEW m \in AppMsg,
           c2s' = [c2s EXCEPT ![c] = Append(c2s[c], m)], fwd' = fwd,
           NEW t, NEW i
    PROVE  /\ ~Match(m, t, i) /\ AtMostOnce(t, i) => AtMostOnce(t, i)'
           /\ ~Match(m, t, i) /\ ~Queued(t, i) => ~Queued(t, i)'
           /\ Match(m, t, i) /\ ~Forwarded(t, i) /\ ~Queued(t, i) => AtMostOnce(t, i)'
<1>. DEFINE Q == c2s[c]
<1>0. c2s \in [Conns -> Seq(AppMsg)] /\ Q \in Seq(AppMsg)
    BY DEF TypeOK
\* Every unread frame after the step is an old one or the new copy of m.
<1>1. ASSUME NEW j \in Conns, NEW q \in 1..Len(c2s'[j])
      PROVE  \/ j = c /\ q = Len(Q) + 1 /\ c2s'[j][q] = m
             \/ q \in 1..Len(c2s[j]) /\ c2s'[j][q] = c2s[j][q]
    BY <1>0
<1>2. ~Match(m, t, i) => (Queued(t, i)' => Queued(t, i))
    BY <1>1 DEF Queued
<1>3. ASSUME ~Match(m, t, i), AtMostOnce(t, i) PROVE AtMostOnce(t, i)'
    <2>1. QueueOnce(t, i)'
        <3>. SUFFICES ASSUME NEW k1 \in Conns, NEW k2 \in Conns,
                             NEW q1 \in 1..Len(c2s'[k1]), NEW q2 \in 1..Len(c2s'[k2]),
                             Match(c2s'[k1][q1], t, i), Match(c2s'[k2][q2], t, i)
                      PROVE  k1 = k2 /\ q1 = q2
            BY DEF QueueOnce
        <3>1. q1 \in 1..Len(c2s[k1]) /\ c2s'[k1][q1] = c2s[k1][q1]
            BY <1>1, <1>3
        <3>2. q2 \in 1..Len(c2s[k2]) /\ c2s'[k2][q2] = c2s[k2][q2]
            BY <1>1, <1>3
        <3>. QED  BY <1>3, <3>1, <3>2 DEF AtMostOnce, QueueOnce
    <2>. QED  BY <1>2, <1>3, <2>1 DEF AtMostOnce, FwdOnce, Forwarded
<1>4. ASSUME Match(m, t, i), ~Forwarded(t, i), ~Queued(t, i) PROVE AtMostOnce(t, i)'
    <2>1. ASSUME NEW j \in Conns, NEW q \in 1..Len(c2s'[j]), Match(c2s'[j][q], t, i)
          PROVE  j = c /\ q = Len(Q) + 1
        BY <1>1, <1>4, <2>1 DEF Queued
    <2>2. QueueOnce(t, i)'
        BY <2>1 DEF QueueOnce
    <2>3. ~Forwarded(t, i)'
        BY <1>4 DEF Forwarded
    <2>. QED  BY <2>2, <2>3 DEF AtMostOnce, FwdOnce, Forwarded
<1>. QED  BY <1>2, <1>3, <1>4
-----------------------------------------------------------------------------
(* The step.                                                               *)

\* WithDups keeps a message's kind, type and id, and gives an EOF the list.
LEMMA WithDupsFields ==
    ASSUME NEW m \in AppMsg, NEW d \in SUBSET Nat
    PROVE  /\ WithDups(m, d).kind = m.kind
           /\ WithDups(m, d).t = m.t /\ WithDups(m, d).id = m.id
           /\ m.kind = "eof" => WithDups(m, d).dups = d
    BY DEF AppMsg, WithDups

\* A step that leaves the frames and the forwarded list alone, and only adds
\* ids to possible_duplicates, keeps the three counting conjuncts.
LEMMA FramesKept ==
    ASSUME DupInv, fwd' = fwd, c2s' = c2s,
           possible_duplicates \subseteq possible_duplicates'
    PROVE  (SentOnce /\ EOFQueuedDeclared /\ EOFFwdDeclared)'
<1>1. \A t, i : AtMostOnce(t, i)' = AtMostOnce(t, i)
    BY DEF AtMostOnce, FwdOnce, QueueOnce, Forwarded, Queued
<1>2. \A t, i, n : FwdOnce(t, i, n)' = FwdOnce(t, i, n)
    BY DEF FwdOnce
<1>3. SentOnce'
    <2>1. SentOnce
        BY DEF DupInv
    <2>. QED  BY <1>1, <2>1 DEF SentOnce
<1>4. EOFQueuedDeclared'
    <2>1. EOFQueuedDeclared
        BY DEF DupInv
    <2>. QED  BY <1>1, <2>1 DEF EOFQueuedDeclared
<1>5. EOFFwdDeclared'
    <2>1. EOFFwdDeclared
        BY DEF DupInv
    <2>. QED  BY <1>2, <2>1 DEF EOFFwdDeclared
<1>. QED  BY <1>3, <1>4, <1>5

\* A step that touches no frame and no list, and that reaches "send" only
\* by staying there with the same message, keeps every conjunct.
LEMMA QuietStep ==
    ASSUME DupInv, fwd' = fwd, c2s' = c2s,
           possible_duplicates' = possible_duplicates,
           current_message' \in {current_message, NoMsg},
           spc' = "send" => spc = "send" /\ current_message' = current_message
    PROVE  (KindsOK /\ CurrentDups /\ FreshUnsent /\ SentOnce
            /\ EOFQueuedDeclared /\ EOFFwdDeclared)'
<1>3. (KindsOK /\ CurrentDups)'
    BY DEF DupInv, KindsOK, CurrentDups
<1>4. FreshUnsent'
    BY DEF DupInv, FreshUnsent, Forwarded, Queued
<1>5. (SentOnce /\ EOFQueuedDeclared /\ EOFFwdDeclared)'
    BY FramesKept
<1>. QED  BY <1>3, <1>4, <1>5
\* Every step keeps DupInv.
LEMMA DupStep == DupInv /\ [Next]_vars => DupInv'
<1>. SUFFICES ASSUME DupInv, [Next]_vars PROVE DupInv'
    OBVIOUS
<1>. DEFINE Rest == KindsOK /\ CurrentDups /\ FreshUnsent /\ SentOnce
                    /\ EOFQueuedDeclared /\ EOFFwdDeclared
<1>0. OrderInv' /\ TypeOK /\ TypeOK'
    BY OrderStep DEF DupInv, OrderInv
<1>1. SUFFICES Rest'
    BY <1>0 DEF DupInv
<1>. USE ConstantsAssumption
<1>2. CASE \/ Reconnect \/ SendAnnounce \/ AnnounceFailed \/ StopSending
           \/ WaitResults \/ ReceiveAck
           \/ \E k \in Conns : ReceiverGetAck(k) \/ ReceiverDisconnected(k)
           \/ ResultsIdle \/ ReconnectLimit \/ UNCHANGED vars
    <2>1. /\ fwd' = fwd /\ c2s' = c2s /\ possible_duplicates' = possible_duplicates
          /\ current_message' \in {current_message, NoMsg}
          /\ spc' = "send" => spc = "send" /\ current_message' = current_message
        BY <1>2 DEF Reconnect, SendAnnounce, AnnounceFailed, StopSending,
                    WaitResults, ReceiveAck, ReceiverGetAck, ReceiverDisconnected,
                    ResultsIdle, ReconnectLimit, vars
    <2>. QED  BY <2>1, QuietStep
<1>3. CASE Send /\ ~open[conn]
    <2>1. /\ fwd' = fwd /\ c2s' = c2s /\ possible_duplicates' = possible_duplicates
          /\ current_message' = current_message /\ spc' \in {"wait", "connect"}
        BY <1>3 DEF Send
    <2>. QED  BY <2>1, QuietStep
<1>4. CASE TakeMessage
    <2>1. PICK t \in Types :
            /\ upl[t] <= N[t]
            /\ upl' = [upl EXCEPT ![t] = @ + 1]
            /\ current_message' = WithDups(Msg(t, upl[t] + 1), possible_duplicates)
        BY <1>4 DEF TakeMessage
    <2>2. /\ fwd' = fwd /\ c2s' = c2s /\ possible_duplicates' = possible_duplicates
          /\ spc' = "send"
        BY <1>4 DEF TakeMessage
    <2>3. /\ upl \in [Types -> Nat] /\ possible_duplicates \in SUBSET Nat
          /\ N[t] \in Nat
        BY DEF DupInv, OrderInv, TypeOK, N
    <2>4. Msg(t, upl[t] + 1) \in AppMsg /\ EOFId(Msg(t, upl[t] + 1))
        BY <2>1, <2>3 DEF Msg, AppMsg, EOFId
    <2>5. /\ current_message'.kind = Msg(t, upl[t] + 1).kind
          /\ current_message'.t = t /\ current_message'.id = upl[t] + 1
          /\ current_message'.kind = "eof" => current_message'.dups = possible_duplicates
          /\ current_message' # NoMsg
        <3>1. current_message' \in AppMsg
            BY <1>0, <2>2 DEF TypeOK
        <3>. QED  BY <2>1, <2>3, <2>4, <3>1, WithDupsFields, NoMsgAssumption DEF Msg
    <2>6. (KindsOK /\ CurrentDups)'
        BY <2>2, <2>4, <2>5 DEF DupInv, KindsOK, CurrentDups, EOFId, Msg
    \* The taken id is above every id of its type sent so far.
    <2>7. ~Forwarded(t, upl[t] + 1) /\ ~Queued(t, upl[t] + 1)
        <3>1. \A p \in 1..Len(fwd) : fwd[p].t = t => fwd[p].id <= upl[t]
            BY DEF DupInv, OrderInv, Taken
        <3>2. \A k \in Conns : \A q \in 1..Len(c2s[k]) :
                c2s[k][q].t = t => c2s[k][q].id <= upl[t]
            BY DEF DupInv, OrderInv, Taken
        <3>. QED  BY <2>3, <3>1, <3>2 DEF Forwarded, Queued, Match
    <2>8. FreshUnsent'
        BY <2>2, <2>5, <2>7 DEF FreshUnsent, Forwarded, Queued
    <2>9. (SentOnce /\ EOFQueuedDeclared /\ EOFFwdDeclared)'
        BY <2>2, FramesKept
    <2>. QED  BY <2>6, <2>8, <2>9
<1>5. CASE ResendMessage
    <2>. DEFINE cm == current_message
    <2>1. /\ cm \in AppMsg /\ possible_duplicates \in SUBSET Nat
        BY <1>5 DEF ResendMessage, DupInv, OrderInv, TypeOK
    <2>2. /\ possible_duplicates' = possible_duplicates \cup {cm.id}
          /\ current_message' = WithDups(cm, possible_duplicates')
          /\ fwd' = fwd /\ c2s' = c2s /\ spc' = "send"
        BY <1>5 DEF ResendMessage
    <2>3. /\ possible_duplicates' \in SUBSET Nat
          /\ current_message'.kind = cm.kind /\ current_message'.t = cm.t
          /\ current_message'.id = cm.id
          /\ cm.kind = "eof" => current_message'.dups = possible_duplicates'
          /\ current_message' # NoMsg
        <3>1. possible_duplicates' \in SUBSET Nat
            BY <2>1, <2>2 DEF AppMsg
        <3>2. current_message' \in AppMsg
            BY <1>0, <2>2 DEF TypeOK
        <3>. QED  BY <2>1, <2>2, <3>1, <3>2, WithDupsFields, NoMsgAssumption
    <2>4. (KindsOK /\ CurrentDups)'
        BY <2>1, <2>2, <2>3, NoMsgAssumption DEF DupInv, KindsOK, CurrentDups, EOFId
    <2>5. FreshUnsent'
        BY <2>2, <2>3 DEF FreshUnsent
    <2>6. (SentOnce /\ EOFQueuedDeclared /\ EOFFwdDeclared)'
        <3>1. possible_duplicates \subseteq possible_duplicates'
            BY <2>2
        <3>. QED  BY <2>2, <3>1, FramesKept
    <2>. QED  BY <2>4, <2>5, <2>6
<1>6. CASE Send /\ open[conn]
    <2>. DEFINE cm == current_message
                Q == c2s[conn]
    <2>1. /\ spc = "send" /\ conn \in Conns /\ cm \in AppMsg /\ cm # NoMsg
          /\ c2s \in [Conns -> Seq(AppMsg)] /\ possible_duplicates \in SUBSET Nat
        BY <1>6, NoMsgAssumption DEF Send, DupInv, OrderInv, TypeOK
    <2>2. /\ c2s' = [c2s EXCEPT ![conn] = Append(Q, cm)]
          /\ fwd' = fwd /\ possible_duplicates' = possible_duplicates
          /\ current_message' = cm /\ spc' = "wait"
        BY <1>6 DEF Send
    <2>3. ASSUME NEW j \in Conns, NEW q \in 1..Len(c2s'[j])
          PROVE  \/ j = conn /\ q = Len(Q) + 1 /\ c2s'[j][q] = cm
                 \/ q \in 1..Len(c2s[j]) /\ c2s'[j][q] = c2s[j][q]
        BY <2>1, <2>2
    <2>4. (KindsOK /\ CurrentDups /\ FreshUnsent)'
        <3>1. \A j \in Conns : \A q \in 1..Len(c2s'[j]) : EOFId(c2s'[j][q])
            BY <2>1, <2>3 DEF DupInv, KindsOK
        <3>. QED  BY <2>2, <3>1 DEF DupInv, KindsOK, CurrentDups, FreshUnsent
    <2>5. SentOnce'
        <3>. SUFFICES ASSUME NEW t \in Types, NEW i \in 1..N[t],
                             i \notin possible_duplicates
                      PROVE  AtMostOnce(t, i)'
            BY <2>2 DEF SentOnce
        <3>1. CASE Match(cm, t, i)
            <4>1. ~Forwarded(t, i) /\ ~Queued(t, i)
                BY <2>1, <3>1 DEF DupInv, FreshUnsent, Match
            <4>. QED  BY <1>0, <2>1, <2>2, <3>1, <4>1, AppendKeepsOnce
        <3>2. CASE ~Match(cm, t, i)
            <4>1. AtMostOnce(t, i)
                BY DEF DupInv, SentOnce
            <4>. QED  BY <1>0, <2>1, <2>2, <3>2, <4>1, AppendKeepsOnce
        <3>. QED  BY <3>1, <3>2
    \* While a data message of type t is being sent, no EOF of type t is
    \* unread: the EOF is taken last.
    <2>6. ASSUME NEW j \in Conns, NEW q \in 1..Len(c2s[j]),
                 c2s[j][q].kind = "eof", c2s[j][q].t = cm.t
          PROVE  cm.id > N[cm.t]
        <3>1. c2s[j][q].id = N[cm.t] + 1
            BY <2>6 DEF DupInv, KindsOK, EOFId
        <3>2. c2s[j][q].id <= upl[cm.t]
            BY <2>6 DEF DupInv, OrderInv, Taken
        <3>3. cm.id = upl[cm.t]
            BY <2>1 DEF DupInv, OrderInv, CurrentLatest
        <3>4. N[cm.t] \in Nat /\ upl[cm.t] \in Nat
            BY <2>1 DEF DupInv, OrderInv, TypeOK, N, AppMsg
        <3>. QED  BY <3>1, <3>2, <3>3, <3>4
    <2>7. EOFQueuedDeclared'
        <3>. SUFFICES ASSUME NEW j \in Conns, NEW q \in 1..Len(c2s'[j]),
                             NEW e, e = c2s'[j][q], e.kind = "eof",
                             NEW i \in 1..N[e.t], i \notin e.dups
                      PROVE  AtMostOnce(e.t, i)'
            BY DEF EOFQueuedDeclared
        <3>1. CASE j = conn /\ q = Len(Q) + 1 /\ c2s'[j][q] = cm
            <4>1. e.dups = possible_duplicates /\ e.t \in Types
                BY <2>1, <3>1 DEF DupInv, CurrentDups, AppMsg
            <4>. QED  BY <2>2, <2>5, <4>1 DEF SentOnce
        <3>2. CASE q \in 1..Len(c2s[j]) /\ c2s'[j][q] = c2s[j][q]
            <4>1. AtMostOnce(e.t, i)
                BY <3>2 DEF DupInv, EOFQueuedDeclared
            <4>2. ~Match(cm, e.t, i)
                <5>1. e.t = cm.t => cm.id > N[cm.t]
                    BY <2>6, <3>2
                <5>2. e \in AppMsg
                    BY <2>1, <3>2
                <5>3. N[e.t] \in Nat
                    BY <5>2 DEF N, AppMsg
                <5>. QED  BY <5>1, <5>3 DEF Match
            <4>3. e \in AppMsg
                BY <2>1, <3>2
            <4>. QED  BY <1>0, <2>1, <2>2, <4>1, <4>2, AppendKeepsOnce
        <3>. QED  BY <2>3, <3>1, <3>2
    <2>8. EOFFwdDeclared'
        BY <2>2 DEF DupInv, EOFFwdDeclared, FwdOnce
    <2>. QED  BY <2>4, <2>5, <2>7, <2>8
<1>7. ASSUME NEW k \in Conns, ServerAnnounce(k) \/ ConnectionBreak(k)
      PROVE  Rest'
    <2>1. c2s \in [Conns -> Seq(AppMsg)]
        BY DEF DupInv, OrderInv, TypeOK
    <2>2. /\ fwd' = fwd /\ \A j \in Conns : c2s'[j] = c2s[j] \/ c2s'[j] = <<>>
          /\ UNCHANGED <<possible_duplicates, current_message, spc>>
        BY <1>7, <2>1 DEF ServerAnnounce, ConnectionBreak
    <2>3. ASSUME NEW j \in Conns, NEW q \in 1..Len(c2s'[j])
          PROVE  c2s'[j] = c2s[j] /\ q \in 1..Len(c2s[j])
        BY <2>2, DropLocation
    <2>4. \A t, i : /\ AtMostOnce(t, i) => AtMostOnce(t, i)'
                    /\ ~Forwarded(t, i) => ~Forwarded(t, i)'
                    /\ ~Queued(t, i) => ~Queued(t, i)'
        BY <2>2, DropKeepsOnce
    <2>5. (KindsOK /\ CurrentDups /\ FreshUnsent /\ SentOnce)'
        BY <2>2, <2>3, <2>4 DEF DupInv, KindsOK, CurrentDups, FreshUnsent, SentOnce
    <2>6. EOFQueuedDeclared'
        <3>. SUFFICES ASSUME NEW j \in Conns, NEW q \in 1..Len(c2s'[j]),
                             NEW e, e = c2s'[j][q], e.kind = "eof",
                             NEW i \in 1..N[e.t], i \notin e.dups
                      PROVE  AtMostOnce(e.t, i)'
            BY DEF EOFQueuedDeclared
        <3>1. AtMostOnce(e.t, i)
            BY <2>3 DEF DupInv, EOFQueuedDeclared
        <3>. QED  BY <2>4, <3>1
    <2>7. EOFFwdDeclared'
        BY <2>2 DEF DupInv, EOFFwdDeclared, FwdOnce
    <2>. QED  BY <2>5, <2>6, <2>7
<1>8. ASSUME NEW k \in Conns, ServerForward(k) PROVE Rest'
    <2>. DEFINE n == Len(fwd)
                Q == c2s[k]
    <2>1. /\ fwd \in Seq(AppMsg) /\ Q \in Seq(AppMsg) /\ Len(Q) >= 1
          /\ Len(fwd') = n + 1 /\ fwd'[n + 1] = Q[1]
          /\ \A p \in 1..n : fwd'[p] = fwd[p]
          /\ \A j \in Conns : j # k => c2s'[j] = c2s[j]
          /\ Len(c2s'[k]) = Len(Q) - 1
          /\ \A q \in 1..Len(c2s'[k]) : c2s'[k][q] = Q[q + 1]
        BY <1>0, <1>8, ForwardFrames
    <2>2. UNCHANGED <<possible_duplicates, current_message, spc>>
        BY <1>8 DEF ServerForward
    <2>3. ASSUME NEW j \in Conns, NEW q \in 1..Len(c2s'[j])
          PROVE  \E q0 \in 1..Len(c2s[j]) : c2s'[j][q] = c2s[j][q0]
        <3>1. CASE j = k
            <4>1. q \in 1..Len(c2s'[k])
                BY <3>1
            <4>2. c2s'[k][q] = Q[q + 1]
                BY <2>1, <4>1
            <4>3. Len(Q) \in Nat /\ q + 1 \in 1..Len(Q)
                BY <2>1, <4>1
            <4>. QED  BY <3>1, <4>2, <4>3
        <3>2. CASE j # k
            BY <2>1, <3>2
        <3>. QED  BY <3>1, <3>2
    <2>4. \A t, i : /\ AtMostOnce(t, i) => AtMostOnce(t, i)'
                    /\ ~Forwarded(t, i) /\ ~Queued(t, i) =>
                          ~Forwarded(t, i)' /\ ~Queued(t, i)'
        BY <1>0, <1>8, ForwardKeepsOnce
    <2>5. (KindsOK /\ CurrentDups /\ FreshUnsent /\ SentOnce)'
        BY <2>2, <2>3, <2>4 DEF DupInv, KindsOK, CurrentDups, FreshUnsent, SentOnce
    <2>6. EOFQueuedDeclared'
        <3>. SUFFICES ASSUME NEW j \in Conns, NEW q \in 1..Len(c2s'[j]),
                             NEW e, e = c2s'[j][q], e.kind = "eof",
                             NEW i \in 1..N[e.t], i \notin e.dups
                      PROVE  AtMostOnce(e.t, i)'
            BY DEF EOFQueuedDeclared
        <3>1. PICK q0 \in 1..Len(c2s[j]) : e = c2s[j][q0]
            BY <2>3
        <3>2. AtMostOnce(e.t, i)
            BY <3>1 DEF DupInv, EOFQueuedDeclared
        <3>. QED  BY <2>4, <3>2
    <2>7. EOFFwdDeclared'
        <3>. SUFFICES ASSUME NEW p \in 1..Len(fwd'), NEW e, e = fwd'[p], e.kind = "eof",
                             NEW i \in 1..N[e.t], i \notin e.dups
                      PROVE  FwdOnce(e.t, i, p - 1)'
            BY DEF EOFFwdDeclared
        <3>1. n \in Nat
            BY <2>1
        \* The forwarded prefix before p is the one before the step.
        <3>2. ASSUME FwdOnce(e.t, i, p - 1), p - 1 <= n PROVE FwdOnce(e.t, i, p - 1)'
            BY <2>1, <3>1, <3>2 DEF FwdOnce
        <3>3. CASE p <= n
            <4>1. e = fwd[p] /\ p \in 1..n
                BY <2>1, <3>1, <3>3
            <4>2. FwdOnce(e.t, i, p - 1)
                BY <4>1 DEF DupInv, EOFFwdDeclared
            <4>. QED  BY <3>2, <3>3, <4>2
        <3>4. CASE p = n + 1
            <4>1. e = c2s[k][1] /\ 1 \in 1..Len(c2s[k])
                BY <2>1, <3>4
            <4>2. AtMostOnce(e.t, i)
                BY <4>1 DEF DupInv, EOFQueuedDeclared
            <4>. QED  BY <3>1, <3>2, <3>4, <4>2 DEF AtMostOnce
        <3>. QED  BY <2>1, <3>1, <3>3, <3>4
    <2>. QED  BY <2>5, <2>6, <2>7
<1>9. QED
    BY <1>2, <1>3, <1>4, <1>5, <1>6, <1>7, <1>8 DEF Next

\* DuplicatesDeclared: whatever connections break, whatever frames are lost
\* and whatever the sender resends, every EOF the server forwards lists in
\* its possible_duplicates each data id of its type that the server has
\* already forwarded twice or more, for every number of messages and every
\* bound on reconnections.
THEOREM DuplicatesDeclaredHolds == Spec => []DuplicatesDeclared
<1>1. Init => DupInv
    BY DupInit
<1>2. DupInv /\ [Next]_vars => DupInv'
    BY DupStep
<1>3. DupInv => DuplicatesDeclared
    BY DupInvDeclared
<1>. QED  BY <1>1, <1>2, <1>3, PTL DEF Spec

\* Only the server's forwarding step writes fwd.
LEMMA FwdOnlyByServer ==
    ASSUME [Next]_vars
    PROVE  fwd' = fwd \/ \E k \in Conns : ServerForward(k)
<1>1. CASE \/ Reconnect \/ SendAnnounce \/ AnnounceFailed \/ TakeMessage
           \/ ResendMessage \/ StopSending \/ Send \/ ReceiveAck \/ WaitResults
    BY <1>1 DEF Reconnect, SendAnnounce, AnnounceFailed, TakeMessage,
                ResendMessage, StopSending, Send, ReceiveAck, WaitResults
<1>2. CASE \E k \in Conns : ReceiverGetAck(k) \/ ReceiverDisconnected(k)
                            \/ ServerAnnounce(k) \/ ConnectionBreak(k)
    BY <1>2 DEF ReceiverGetAck, ReceiverDisconnected, ServerAnnounce,
                ConnectionBreak
<1>3. CASE ResultsIdle \/ ReconnectLimit \/ UNCHANGED vars
    BY <1>3 DEF ResultsIdle, ReconnectLimit, vars
<1>. QED  BY <1>1, <1>2, <1>3 DEF Next

\* A data frame the server forwards while an earlier copy is already in fwd
\* has an id the sender marked as a possible duplicate: both copies exist at
\* once, so by SentOnce the id is in possible_duplicates.
LEMMA DupStepDeclared == DupInv /\ [Next]_vars => DuplicateStepDeclared
<1>. SUFFICES ASSUME DupInv, [Next]_vars, Len(fwd') > Len(fwd),
                     NEW m, m = fwd'[Len(fwd')], m.id \in 1..N[m.t],
                     \E p \in 1..Len(fwd) : fwd[p].t = m.t /\ fwd[p].id = m.id
              PROVE  m.id \in possible_duplicates
    BY DEF DuplicateStepDeclared
<1>1. PICK k \in Conns : ServerForward(k)
    BY FwdOnlyByServer
<1>2. /\ fwd \in Seq(AppMsg) /\ c2s \in [Conns -> Seq(AppMsg)]
      /\ possible_duplicates \in SUBSET Nat
    BY DEF DupInv, OrderInv, TypeOK
<1>3. /\ c2s[k] # <<>> /\ fwd' = Append(fwd, Head(c2s[k]))
      /\ possible_duplicates' = possible_duplicates
    BY <1>1 DEF ServerForward
<1>4. m = c2s[k][1] /\ Len(c2s[k]) >= 1
    BY <1>2, <1>3
<1>5. m \in AppMsg
    BY <1>2, <1>4
<1>6. Queued(m.t, m.id)
    BY <1>4 DEF Queued, Match
<1>7. Forwarded(m.t, m.id)
    BY DEF Forwarded, Match
<1>8. ~AtMostOnce(m.t, m.id)
    BY <1>6, <1>7 DEF AtMostOnce
<1>9. m.t \in Types
    BY <1>5 DEF AppMsg
<1>. QED  BY <1>8, <1>9 DEF DupInv, SentOnce

\* DuplicateOnlyIfDeclared: for every number of messages and every bound on
\* reconnections, no step of the server forwards a second copy of a data
\* message whose id the client's __run has not put in possible_duplicates.
THEOREM DuplicateOnlyIfDeclaredHolds == Spec => DuplicateOnlyIfDeclared
<1>1. Init => DupInv
    BY DupInit
<1>2. DupInv /\ [Next]_vars => DupInv'
    BY DupStep
<1>3. DupInv /\ [Next]_vars => [DuplicateStepDeclared]_vars
    BY DupStepDeclared
<1>. QED  BY <1>1, <1>2, <1>3, PTL DEF Spec, DuplicateOnlyIfDeclared
=============================================================================
