------------------------- MODULE ClientOrderProofs -------------------------
(***************************************************************************)
(* Proof that the server forwards each protocol type's messages in order  *)
(* (ClientConnection!ForwardOrder) for every number of messages and every *)
(* bound on reconnects.                                                    *)
(*                                                                         *)
(* ForwardOrder is not inductive: a step of ServerForward appends the head *)
(* of a connection's frames, so the proof must know that frames still in   *)
(* flight are never behind what was forwarded.  That rests on three facts *)
(* of the code: the sender holds one message at a time and it is the last *)
(* one taken of its type (__run); a frame is written only on the current   *)
(* connection (__send); and a new connection gets its ANNOUNCE_ACK only    *)
(* after the server has closed the older ones (spec 4.3 preemption), so    *)
(* at most one connection ever carries unread frames.                      *)
(***************************************************************************)
EXTENDS ClientConnectionProofs, SequenceTheorems

\* The ANNOUNCE frame is unread only on the connection the sender has just
\* opened and is announcing on.
AnnounceOnCurrent ==
    \A k \in Conns : announce[k] => k = conn /\ spc = "announce" /\ open[k]

\* An ANNOUNCE_ACK is written only once the ANNOUNCE was read.
AckAfterAnnounce == \A k \in Conns : announce_ack[k] => ~announce[k]

\* Connections beyond the current one have not been opened yet.
Unopened ==
    \A k \in Conns : k > conn =>
        ~open[k] /\ ~announce[k] /\ ~announce_ack[k] /\ c2s[k] = <<>>

\* At most one connection has unread client frames, and frames of an older
\* connection survive only while the sender has not been acknowledged on
\* its new one.
SingleQueue ==
    /\ \A j, k \in Conns : c2s[j] # <<>> /\ c2s[k] # <<>> => j = k
    /\ \A j \in Conns : j # conn /\ c2s[j] # <<>> =>
          /\ conn \in Conns
          /\ spc \in {"connect", "announce"}
          /\ ~announce_ack[conn]

\* The sender's message is the last one taken from its uploader.
CurrentLatest ==
    current_message # NoMsg => current_message.id = upl[current_message.t]

\* Every frame sent or forwarded was taken from its uploader.
Taken ==
    /\ \A p \in 1..Len(fwd) : fwd[p].id <= upl[fwd[p].t]
    /\ \A k \in Conns : \A p \in 1..Len(c2s[k]) :
          c2s[k][p].id <= upl[c2s[k][p].t]

\* Per type, a connection's unread frames are in id order and none is
\* behind a message the server has already forwarded.
QueueOrder ==
    \A k \in Conns : \A q \in 1..Len(c2s[k]) :
        /\ \A p \in 1..(q - 1) :
              c2s[k][p].t = c2s[k][q].t => c2s[k][p].id <= c2s[k][q].id
        /\ \A p \in 1..Len(fwd) :
              fwd[p].t = c2s[k][q].t => fwd[p].id <= c2s[k][q].id

OrderInv ==
    /\ TypeOK
    /\ AnnounceOnCurrent
    /\ AckAfterAnnounce
    /\ Unopened
    /\ SingleQueue
    /\ CurrentLatest
    /\ Taken
    /\ QueueOrder
    /\ ForwardOrder

-----------------------------------------------------------------------------
\* The initial state: nothing opened, sent or forwarded.
LEMMA OrderInit == Init => OrderInv
  <1> SUFFICES ASSUME Init PROVE OrderInv
    OBVIOUS
  <1>1. TypeOK
    BY TypeInit
  <1>2. AnnounceOnCurrent /\ AckAfterAnnounce /\ Unopened /\ SingleQueue
    BY DEF Init, AnnounceOnCurrent, AckAfterAnnounce, Unopened, SingleQueue
  <1>3. CurrentLatest /\ Taken /\ QueueOrder /\ ForwardOrder
    BY DEF Init, CurrentLatest, Taken, QueueOrder, ForwardOrder
  <1>4. QED
    BY <1>1, <1>2, <1>3 DEF OrderInv

\* WithDups changes only an EOF's duplicate list.
LEMMA WithDupsKeeps ==
    ASSUME NEW m \in AppMsg, NEW d \in SUBSET Nat
    PROVE  WithDups(m, d).id = m.id /\ WithDups(m, d).t = m.t
  BY DEF AppMsg, WithDups

\* Emptying some connections' queues and leaving fwd alone keeps every
\* remaining frame ordered (the server's preemption and a broken socket).
LEMMA QueueShrink ==
  ASSUME QueueOrder, fwd' = fwd,
         \A j \in Conns : c2s'[j] = c2s[j] \/ c2s'[j] = <<>>
  PROVE  QueueOrder'
  <1> SUFFICES ASSUME NEW j \in Conns, NEW q \in 1..Len(c2s'[j])
               PROVE  /\ \A p \in 1..(q - 1) :
                          c2s'[j][p].t = c2s'[j][q].t => c2s'[j][p].id <= c2s'[j][q].id
                      /\ \A p \in 1..Len(fwd') :
                          fwd'[p].t = c2s'[j][q].t => fwd'[p].id <= c2s'[j][q].id
    BY DEF QueueOrder
  <1>1. c2s'[j] = c2s[j]
    OBVIOUS
  <1>2. QED
    BY <1>1 DEF QueueOrder

\* Every step keeps OrderInv.
LEMMA OrderStep == OrderInv /\ [Next]_vars => OrderInv'
  <1> SUFFICES ASSUME OrderInv, [Next]_vars PROVE OrderInv'
    OBVIOUS
  <1>0. TypeOK /\ TypeOK'
    BY TypeStep DEF OrderInv
  <1> USE ConstantsAssumption DEF Conns
  \* Once the sender is past the handshake, no ANNOUNCE is pending and only
  \* the current connection can hold frames.
  <1>q. spc \notin {"connect", "announce"} =>
           /\ \A k \in Conns : ~announce[k]
           /\ \A j \in Conns : c2s[j] # <<>> => j = conn
    BY DEF OrderInv, AnnounceOnCurrent, SingleQueue
  <1>1. CASE Reconnect
    <2>1. conn + 1 \in Conns /\ conn' = conn + 1 /\ spc = "connect"
      BY <1>0, <1>1 DEF Reconnect, TypeOK
    <2>0. conn \in Nat
      BY <1>0 DEF TypeOK
    <2>2. ~announce_ack[conn + 1] /\ c2s[conn + 1] = <<>>
      <3>1. Unopened
        BY DEF OrderInv
      <3>2. conn + 1 > conn
        BY <2>0
      <3>3. QED
        BY <2>1, <3>1, <3>2 DEF Unopened
    <2>3. AnnounceOnCurrent'
      BY <1>0, <1>1, <2>1 DEF Reconnect, OrderInv, AnnounceOnCurrent, TypeOK
    <2>4. AckAfterAnnounce'
      BY <1>1, <2>1, <2>2 DEF Reconnect, OrderInv, AckAfterAnnounce
    <2>5. Unopened'
      <3>1. Unopened /\ open \in [Conns -> BOOLEAN] /\ announce \in [Conns -> BOOLEAN]
        BY <1>0 DEF OrderInv, TypeOK
      <3>2. \A k \in Conns : k > conn + 1 => k > conn /\ k # conn + 1
        BY <2>0
      <3>3. QED
        BY <1>1, <2>1, <3>1, <3>2 DEF Reconnect, Unopened
    <2>6. SingleQueue'
      BY <1>1, <2>1, <2>2 DEF Reconnect, OrderInv, SingleQueue
    <2>7. (CurrentLatest /\ Taken /\ QueueOrder /\ ForwardOrder)'
      BY <1>1 DEF Reconnect, OrderInv, CurrentLatest, Taken, QueueOrder, ForwardOrder
    <2>8. QED
      BY <1>0, <2>3, <2>4, <2>5, <2>6, <2>7 DEF OrderInv
  <1>2. CASE SendAnnounce
    <2>1. conn \in Conns /\ announce_ack[conn] /\ spc = "announce"
      BY <1>0, <1>2 DEF SendAnnounce, TypeOK
    <2>2. \A k \in Conns : ~announce[k]
      BY <2>1 DEF OrderInv, AnnounceOnCurrent, AckAfterAnnounce
    <2>3. \A j \in Conns : c2s[j] # <<>> => j = conn
      BY <2>1 DEF OrderInv, SingleQueue
    <2>4. (AnnounceOnCurrent /\ AckAfterAnnounce)'
      BY <1>2, <2>2 DEF SendAnnounce, AnnounceOnCurrent, AckAfterAnnounce
    <2>5. Unopened'
      BY <1>0, <1>2, <2>1 DEF SendAnnounce, OrderInv, Unopened, TypeOK
    <2>6. SingleQueue'
      BY <1>2, <2>3 DEF SendAnnounce, OrderInv, SingleQueue
    <2>7. (CurrentLatest /\ Taken /\ QueueOrder /\ ForwardOrder)'
      BY <1>2 DEF SendAnnounce, OrderInv, CurrentLatest, Taken, QueueOrder, ForwardOrder
    <2>8. QED
      BY <1>0, <2>4, <2>5, <2>6, <2>7 DEF OrderInv
  <1>3. CASE AnnounceFailed
    <2>1. conn \in Conns /\ ~open[conn]
      BY <1>0, <1>3 DEF AnnounceFailed, TypeOK
    <2>2. AnnounceOnCurrent'
      BY <1>3, <2>1 DEF AnnounceFailed, OrderInv, AnnounceOnCurrent
    <2>3. (AckAfterAnnounce /\ Unopened /\ SingleQueue)'
      BY <1>3 DEF AnnounceFailed, OrderInv, AckAfterAnnounce, Unopened, SingleQueue
    <2>4. (CurrentLatest /\ Taken /\ QueueOrder /\ ForwardOrder)'
      BY <1>3 DEF AnnounceFailed, OrderInv, CurrentLatest, Taken, QueueOrder, ForwardOrder
    <2>5. QED
      BY <1>0, <2>2, <2>3, <2>4 DEF OrderInv
  <1>4. CASE TakeMessage
    <2>1. PICK t \in Types :
             /\ upl[t] <= N[t]
             /\ upl' = [upl EXCEPT ![t] = @ + 1]
             /\ current_message' = WithDups(Msg(t, upl[t] + 1), possible_duplicates)
      BY <1>4 DEF TakeMessage
    <2>2. upl \in [Types -> Nat] /\ possible_duplicates \in SUBSET Nat
      BY <1>0 DEF TypeOK
    <2>4. current_message'.id = upl[t] + 1 /\ current_message'.t = t
      BY <2>1, <2>2 DEF WithDups, Msg
    <2>5. CurrentLatest'
      BY <2>1, <2>2, <2>4 DEF CurrentLatest
    <2>6. \A s \in Types : upl[s] <= upl'[s] /\ upl'[s] \in Nat
      BY <2>1, <2>2
    <2>7. Taken'
      <3>1. Taken /\ fwd \in Seq(AppMsg) /\ c2s \in [Conns -> Seq(AppMsg)]
        BY <1>0 DEF OrderInv, TypeOK
      <3>2. fwd' = fwd /\ c2s' = c2s
        BY <1>4 DEF TakeMessage
      <3>3. \A p \in 1..Len(fwd) : fwd[p].id <= upl'[fwd[p].t]
        <4> SUFFICES ASSUME NEW p \in 1..Len(fwd) PROVE fwd[p].id <= upl'[fwd[p].t]
          OBVIOUS
        <4>1. fwd[p] \in AppMsg
          BY <3>1
        <4>2. fwd[p].id \in Nat /\ fwd[p].t \in Types
          BY <4>1 DEF AppMsg
        <4>3. fwd[p].id <= upl[fwd[p].t]
          BY <3>1 DEF Taken
        <4>4. QED
          BY <2>2, <2>6, <4>2, <4>3
      <3>4. \A k \in Conns : \A p \in 1..Len(c2s[k]) : c2s[k][p].id <= upl'[c2s[k][p].t]
        <4> SUFFICES ASSUME NEW k \in Conns, NEW p \in 1..Len(c2s[k])
                     PROVE c2s[k][p].id <= upl'[c2s[k][p].t]
          OBVIOUS
        <4>1. c2s[k][p] \in AppMsg
          BY <3>1
        <4>2. c2s[k][p].id \in Nat /\ c2s[k][p].t \in Types
          BY <4>1 DEF AppMsg
        <4>3. c2s[k][p].id <= upl[c2s[k][p].t]
          BY <3>1 DEF Taken
        <4>4. QED
          BY <2>2, <2>6, <4>2, <4>3
      <3>5. QED
        BY <3>2, <3>3, <3>4 DEF Taken
    <2>8. (AnnounceOnCurrent /\ AckAfterAnnounce /\ Unopened /\ SingleQueue)'
      BY <1>4, <1>q DEF TakeMessage, OrderInv, AnnounceOnCurrent, AckAfterAnnounce,
                       Unopened, SingleQueue
    <2>9. (QueueOrder /\ ForwardOrder)'
      BY <1>4 DEF TakeMessage, OrderInv, QueueOrder, ForwardOrder
    <2>10. QED
      BY <1>0, <2>5, <2>7, <2>8, <2>9 DEF OrderInv
  <1>5. CASE ResendMessage
    <2>1. current_message \in AppMsg /\ current_message # NoMsg
      BY <1>0, <1>5 DEF ResendMessage, TypeOK
    <2>2. possible_duplicates' \in SUBSET Nat
      BY <1>0 DEF TypeOK
    <2>3. current_message'.id = current_message.id /\ current_message'.t = current_message.t
      BY <1>5, <2>1, <2>2, WithDupsKeeps DEF ResendMessage
    <2>5. CurrentLatest'
      BY <1>5, <2>1, <2>3 DEF ResendMessage, OrderInv, CurrentLatest
    <2>6. (AnnounceOnCurrent /\ AckAfterAnnounce /\ Unopened /\ SingleQueue)'
      BY <1>5, <1>q DEF ResendMessage, OrderInv, AnnounceOnCurrent, AckAfterAnnounce,
                       Unopened, SingleQueue
    <2>7. (Taken /\ QueueOrder /\ ForwardOrder)'
      BY <1>5 DEF ResendMessage, OrderInv, Taken, QueueOrder, ForwardOrder
    <2>8. QED
      BY <1>0, <2>5, <2>6, <2>7 DEF OrderInv
  <1>6. CASE StopSending
    <2>1. (AnnounceOnCurrent /\ AckAfterAnnounce /\ Unopened /\ SingleQueue)'
      BY <1>6, <1>q DEF StopSending, OrderInv, AnnounceOnCurrent, AckAfterAnnounce,
                       Unopened, SingleQueue
    <2>2. (CurrentLatest /\ Taken /\ QueueOrder /\ ForwardOrder)'
      BY <1>6 DEF StopSending, OrderInv, CurrentLatest, Taken, QueueOrder, ForwardOrder
    <2>3. QED
      BY <1>0, <2>1, <2>2 DEF OrderInv
  <1>8. CASE ReceiveAck
    <2>1. (AnnounceOnCurrent /\ AckAfterAnnounce /\ Unopened /\ SingleQueue)'
      BY <1>8, <1>q DEF ReceiveAck, OrderInv, AnnounceOnCurrent, AckAfterAnnounce,
                       Unopened, SingleQueue
    <2>2. CurrentLatest'
      BY <1>8 DEF ReceiveAck, OrderInv, CurrentLatest
    <2>3. (Taken /\ QueueOrder /\ ForwardOrder)'
      BY <1>8 DEF ReceiveAck, OrderInv, Taken, QueueOrder, ForwardOrder
    <2>4. QED
      BY <1>0, <2>1, <2>2, <2>3 DEF OrderInv
  <1>9. CASE WaitResults
    <2>1. (AnnounceOnCurrent /\ AckAfterAnnounce /\ Unopened /\ SingleQueue)'
      BY <1>9, <1>q DEF WaitResults, OrderInv, AnnounceOnCurrent, AckAfterAnnounce,
                       Unopened, SingleQueue
    <2>2. (CurrentLatest /\ Taken /\ QueueOrder /\ ForwardOrder)'
      BY <1>9 DEF WaitResults, OrderInv, CurrentLatest, Taken, QueueOrder, ForwardOrder
    <2>3. QED
      BY <1>0, <2>1, <2>2 DEF OrderInv
  <1>7. CASE Send
    <2>1. spc = "send" /\ conn \in Conns /\ current_message \in AppMsg
      BY <1>0, <1>7 DEF Send, TypeOK
    <2>2. \A j \in Conns : c2s[j] # <<>> => j = conn
      BY <1>q, <2>1
    <2>3. (AnnounceOnCurrent /\ AckAfterAnnounce)'
      BY <1>7, <1>q, <2>1 DEF Send, AnnounceOnCurrent, AckAfterAnnounce
    <2>4. CASE ~open[conn]
      <3>1. c2s' = c2s
        BY <1>7, <2>4 DEF Send
      <3>2. (Unopened /\ SingleQueue /\ CurrentLatest /\ Taken /\ QueueOrder /\ ForwardOrder)'
        BY <1>7, <2>2, <3>1 DEF Send, OrderInv, Unopened, SingleQueue, CurrentLatest,
                                Taken, QueueOrder, ForwardOrder
      <3>3. QED
        BY <1>0, <2>3, <3>2 DEF OrderInv
    <2>5. CASE open[conn]
      <3> DEFINE cm == current_message
                 Q == c2s[conn]
      <3>1. c2s' = [c2s EXCEPT ![conn] = Append(Q, cm)]
        BY <1>7, <2>5 DEF Send
      <3>2. c2s \in [Conns -> Seq(AppMsg)] /\ Q \in Seq(AppMsg) /\ fwd \in Seq(AppMsg)
        BY <1>0, <2>1 DEF TypeOK
      <3>3. upl \in [Types -> Nat] /\ cm.t \in Types /\ cm.id \in Nat
        BY <1>0, <2>1 DEF TypeOK, AppMsg
      <3>4. cm.id = upl[cm.t]
        <4>1. cm # NoMsg
          BY <2>1, NoMsgAssumption
        <4>2. QED
          BY <4>1 DEF OrderInv, CurrentLatest
      <3>5. UNCHANGED <<upl, current_message, conn, open, announce, announce_ack, fwd>> /\ spc' = "wait"
        BY <1>7, <2>5 DEF Send
      <3>6. Len(c2s'[conn]) = Len(Q) + 1 /\ c2s'[conn][Len(Q) + 1] = cm
            /\ \A p \in 1..Len(Q) : c2s'[conn][p] = Q[p]
        BY <3>1, <3>2, <2>1, AppendProperties
      <3>7. \A j \in Conns : j # conn => c2s'[j] = c2s[j]
        BY <3>1, <3>2
      <3>8. Unopened'
        <4>1. conn \in Nat
          BY <2>1
        <4>2. QED
          BY <3>5, <3>7, <4>1 DEF OrderInv, Unopened
      <3>9. SingleQueue'
        <4>1. \A j \in Conns : c2s'[j] # <<>> => j = conn
          BY <2>2, <3>7
        <4>2. QED
          BY <4>1, <3>5 DEF SingleQueue
      <3>10. CurrentLatest'
        BY <3>5 DEF OrderInv, CurrentLatest
      <3>11. Taken'
        <4>1. \A p \in 1..Len(fwd') : fwd'[p].id <= upl'[fwd'[p].t]
          BY <3>5 DEF OrderInv, Taken
        <4>2. ASSUME NEW k \in Conns, NEW p \in 1..Len(c2s'[k])
              PROVE  c2s'[k][p].id <= upl'[c2s'[k][p].t]
          <5>1. CASE k = conn /\ p = Len(Q) + 1
            <6>1. c2s'[k][p] = cm
              BY <3>6, <5>1
            <6>2. upl' = upl
              BY <3>5
            <6>3. QED
              BY <3>3, <3>4, <6>1, <6>2
          <5>2. CASE k = conn /\ p # Len(Q) + 1
            <6>1. p \in 1..Len(Q)
              BY <3>6, <5>2
            <6>2. c2s[conn][p].id <= upl[c2s[conn][p].t]
              BY <2>1, <6>1 DEF OrderInv, Taken
            <6>3. QED
              BY <3>5, <3>6, <5>2, <6>1, <6>2
          <5>3. CASE k # conn
            BY <3>5, <3>7, <5>3 DEF OrderInv, Taken
          <5>4. QED
            BY <5>1, <5>2, <5>3
        <4>3. QED
          BY <4>1, <4>2 DEF Taken
      <3>12. QueueOrder'
        <4> SUFFICES ASSUME NEW k \in Conns, NEW q \in 1..Len(c2s'[k])
                     PROVE  /\ \A p \in 1..(q - 1) :
                                c2s'[k][p].t = c2s'[k][q].t => c2s'[k][p].id <= c2s'[k][q].id
                            /\ \A p \in 1..Len(fwd') :
                                fwd'[p].t = c2s'[k][q].t => fwd'[p].id <= c2s'[k][q].id
          BY DEF QueueOrder
        <4>1. CASE k # conn
          BY <3>5, <3>7, <4>1 DEF OrderInv, QueueOrder
        <4>2. CASE k = conn /\ q = Len(Q) + 1
          <5>1. \A p \in 1..(q - 1) : c2s'[k][p] = Q[p] /\ Q[p] \in AppMsg
            BY <3>2, <3>6, <4>2
          <5>2. \A p \in 1..Len(Q) : Q[p].id <= upl[Q[p].t]
            BY <2>1 DEF OrderInv, Taken
          <5>3. \A p \in 1..Len(fwd) : fwd[p].id <= upl[fwd[p].t]
            BY DEF OrderInv, Taken
          <5>4. c2s'[k][q] = cm
            BY <3>6, <4>2
          <5>5. \A p \in 1..(q - 1) :
                  c2s'[k][p].t = c2s'[k][q].t => c2s'[k][p].id <= c2s'[k][q].id
            BY <3>4, <4>2, <5>1, <5>2, <5>4
          <5>6. \A p \in 1..Len(fwd') :
                  fwd'[p].t = c2s'[k][q].t => fwd'[p].id <= c2s'[k][q].id
            BY <3>4, <3>5, <5>3, <5>4
          <5>7. QED
            BY <5>5, <5>6
        <4>3. CASE k = conn /\ q # Len(Q) + 1
          <5>1. q \in 1..Len(Q) /\ c2s'[k][q] = Q[q]
            BY <3>6, <4>3
          <5>2. \A p \in 1..(q - 1) : c2s'[k][p] = Q[p]
            BY <3>6, <4>3, <5>1
          <5>3. QED
            BY <3>5, <4>3, <5>1, <5>2 DEF OrderInv, QueueOrder
        <4>4. QED
          BY <4>1, <4>2, <4>3
      <3>13. ForwardOrder'
        BY <3>5 DEF OrderInv, ForwardOrder
      <3>14. QED
        BY <1>0, <2>3, <3>8, <3>9, <3>10, <3>11, <3>12, <3>13 DEF OrderInv
    <2>6. QED
      BY <2>4, <2>5
  \* The conjuncts read none of the variables the Receivers write.
  <1>10. ASSUME NEW k \in Conns, ReceiverGetAck(k) \/ ReceiverDisconnected(k)
         PROVE  OrderInv'
    <2>1. UNCHANGED <<upl, current_message, spc, conn, open, announce, announce_ack,
                      c2s, fwd>>
      BY <1>10 DEF ReceiverGetAck, ReceiverDisconnected
    <2>2. QED
      BY <1>0, <2>1 DEF OrderInv, AnnounceOnCurrent, AckAfterAnnounce, Unopened,
                        SingleQueue, CurrentLatest, Taken, QueueOrder, ForwardOrder
  <1>11. ASSUME NEW k \in Conns, ServerAnnounce(k) PROVE OrderInv'
    <2>1. k = conn /\ spc = "announce"
      BY <1>11 DEF ServerAnnounce, OrderInv, AnnounceOnCurrent
    <2>2. /\ announce' = [j \in Conns |-> FALSE]
          /\ open' = [j \in Conns |-> j = k]
          /\ c2s' = [j \in Conns |-> IF j = k THEN c2s[j] ELSE <<>>]
          /\ announce_ack' = [announce_ack EXCEPT ![k] = TRUE]
          /\ UNCHANGED <<upl, current_message, spc, conn, fwd>>
      BY <1>11 DEF ServerAnnounce
    <2>3. announce_ack \in [Conns -> BOOLEAN] /\ conn \in Nat
      BY <1>0 DEF TypeOK
    <2>4. (AnnounceOnCurrent /\ AckAfterAnnounce)'
      BY <2>2 DEF AnnounceOnCurrent, AckAfterAnnounce
    <2>5. Unopened'
      BY <2>1, <2>2, <2>3 DEF OrderInv, Unopened
    <2>6. SingleQueue'
      BY <2>1, <2>2 DEF SingleQueue
    <2>7. \A j \in Conns : c2s'[j] = c2s[j] \/ c2s'[j] = <<>>
      BY <2>2
    <2>8. (CurrentLatest /\ Taken /\ ForwardOrder)'
      BY <2>2, <2>7 DEF OrderInv, CurrentLatest, Taken, ForwardOrder
    <2>9. QueueOrder'
      BY <2>2, <2>7, QueueShrink DEF OrderInv
    <2>10. QED
      BY <1>0, <2>4, <2>5, <2>6, <2>8, <2>9 DEF OrderInv
  <1>12. ASSUME NEW k \in Conns, ConnectionBreak(k) PROVE OrderInv'
    <2>1. /\ open' = [open EXCEPT ![k] = FALSE]
          /\ announce' = [announce EXCEPT ![k] = FALSE]
          /\ c2s' = [c2s EXCEPT ![k] = <<>>]
          /\ \/ announce_ack' = announce_ack
             \/ announce_ack' = [announce_ack EXCEPT ![k] = FALSE]
          /\ UNCHANGED <<upl, current_message, spc, conn, fwd>>
      BY <1>12 DEF ConnectionBreak
    <2>2. /\ open \in [Conns -> BOOLEAN] /\ announce \in [Conns -> BOOLEAN]
          /\ announce_ack \in [Conns -> BOOLEAN] /\ c2s \in [Conns -> Seq(AppMsg)]
      BY <1>0 DEF TypeOK
    <2>3. /\ \A j \in Conns : open'[j] => open[j]
          /\ \A j \in Conns : announce'[j] => announce[j]
          /\ \A j \in Conns : announce_ack'[j] => announce_ack[j]
          /\ \A j \in Conns : c2s'[j] = c2s[j] \/ c2s'[j] = <<>>
          /\ \A j \in Conns : announce'[j] => open'[j]
      <3>1. \A j \in Conns : announce[j] => open[j]
        BY DEF OrderInv, AnnounceOnCurrent
      <3>2. QED
        BY <2>1, <2>2, <3>1
    <2>4. (AnnounceOnCurrent /\ AckAfterAnnounce /\ Unopened)'
      BY <2>1, <2>3 DEF OrderInv, AnnounceOnCurrent, AckAfterAnnounce, Unopened
    <2>5. SingleQueue'
      BY <2>1, <2>3 DEF OrderInv, SingleQueue
    <2>6. (CurrentLatest /\ Taken /\ ForwardOrder)'
      BY <2>1, <2>3 DEF OrderInv, CurrentLatest, Taken, ForwardOrder
    <2>7. QueueOrder'
      BY <2>1, <2>3, QueueShrink DEF OrderInv
    <2>8. QED
      BY <1>0, <2>4, <2>5, <2>6, <2>7 DEF OrderInv
  <1>13. ASSUME NEW k \in Conns, ServerForward(k) PROVE OrderInv'
    <2> DEFINE Q == c2s[k]
               h == Head(c2s[k])
    <2>1. /\ open[k] /\ Q # <<>>
          /\ c2s' = [c2s EXCEPT ![k] = Tail(Q)]
          /\ fwd' = Append(fwd, h)
          /\ UNCHANGED <<upl, current_message, spc, conn, open, announce, announce_ack>>
      BY <1>13 DEF ServerForward
    <2>2. c2s \in [Conns -> Seq(AppMsg)] /\ Q \in Seq(AppMsg) /\ fwd \in Seq(AppMsg)
          /\ upl \in [Types -> Nat] /\ conn \in Nat
      BY <1>0 DEF TypeOK
    <2>3. /\ Len(Q) >= 1 /\ h = Q[1] /\ h \in AppMsg
          /\ Len(c2s'[k]) = Len(Q) - 1
          /\ \A q \in 1..(Len(Q) - 1) : c2s'[k][q] = Q[q + 1]
      BY <2>1, <2>2
    <2>4. /\ Len(fwd') = Len(fwd) + 1 /\ fwd'[Len(fwd) + 1] = h
          /\ \A p \in 1..Len(fwd) : fwd'[p] = fwd[p]
      BY <2>1, <2>2, <2>3, AppendProperties
    <2>5. \A j \in Conns : j # k => c2s'[j] = c2s[j] /\ c2s[j] = <<>>
      BY <2>1, <2>2 DEF OrderInv, SingleQueue
    <2>6. ~(k > conn)
      BY <2>1 DEF OrderInv, Unopened
    <2>7. (AnnounceOnCurrent /\ AckAfterAnnounce /\ CurrentLatest)'
      BY <2>1 DEF OrderInv, AnnounceOnCurrent, AckAfterAnnounce, CurrentLatest
    <2>8. Unopened'
      BY <2>1, <2>5, <2>6 DEF OrderInv, Unopened
    <2>9. SingleQueue'
      <3>1. \A j \in Conns : c2s'[j] # <<>> => j = k
        BY <2>5
      <3>2. \A j \in Conns : j # conn /\ c2s'[j] # <<>> =>
                 conn \in Conns /\ spc \in {"connect", "announce"} /\ ~announce_ack[conn]
        BY <2>1, <3>1 DEF OrderInv, SingleQueue
      <3>3. QED
        BY <2>1, <3>1, <3>2 DEF SingleQueue
    <2>10. h.id <= upl[h.t]
      BY <2>3 DEF OrderInv, Taken
    <2>11. Taken'
      <3>1. \A p \in 1..Len(fwd') : fwd'[p].id <= upl'[fwd'[p].t]
        BY <2>1, <2>4, <2>10 DEF OrderInv, Taken
      <3>2. \A q \in 1..Len(c2s'[k]) : c2s'[k][q].id <= upl'[c2s'[k][q].t]
        BY <2>1, <2>3 DEF OrderInv, Taken
      <3>3. QED
        BY <2>5, <3>1, <3>2 DEF Taken
    <2>12. QueueOrder'
      <3> SUFFICES ASSUME NEW j \in Conns, NEW q \in 1..Len(c2s'[j])
                   PROVE  /\ \A p \in 1..(q - 1) :
                              c2s'[j][p].t = c2s'[j][q].t => c2s'[j][p].id <= c2s'[j][q].id
                          /\ \A p \in 1..Len(fwd') :
                              fwd'[p].t = c2s'[j][q].t => fwd'[p].id <= c2s'[j][q].id
        BY DEF QueueOrder
      <3>1. j = k /\ q \in 1..(Len(Q) - 1) /\ c2s'[k][q] = Q[q + 1] /\ q + 1 \in 1..Len(Q)
        BY <2>3, <2>5
      <3>2. \A p \in 1..(q - 1) : c2s'[k][p] = Q[p + 1] /\ p + 1 \in 1..q
        <4> SUFFICES ASSUME NEW p \in 1..(q - 1)
                     PROVE  c2s'[k][p] = Q[p + 1] /\ p + 1 \in 1..q
          OBVIOUS
        <4>1. p \in 1..(Len(Q) - 1) /\ p + 1 \in 1..q
          BY <3>1
        <4>2. QED
          BY <2>3, <4>1
      <3>3. \A p \in 1..q : Q[p].t = Q[q + 1].t => Q[p].id <= Q[q + 1].id
        BY <3>1 DEF OrderInv, QueueOrder
      <3>4. \A p \in 1..Len(fwd) : fwd[p].t = Q[q + 1].t => fwd[p].id <= Q[q + 1].id
        BY <3>1 DEF OrderInv, QueueOrder
      <3>5. h.t = Q[q + 1].t => h.id <= Q[q + 1].id
        BY <2>3, <3>1, <3>3
      <3>6. \A p \in 1..(q - 1) :
              c2s'[j][p].t = c2s'[j][q].t => c2s'[j][p].id <= c2s'[j][q].id
        BY <3>1, <3>2, <3>3
      <3>7. ASSUME NEW p \in 1..Len(fwd'), fwd'[p].t = c2s'[j][q].t
            PROVE  fwd'[p].id <= c2s'[j][q].id
        <4>1. CASE p = Len(fwd) + 1
          BY <2>4, <3>1, <3>5, <3>7, <4>1
        <4>2. CASE p # Len(fwd) + 1
          <5>0. Len(fwd) \in Nat /\ Len(fwd') = Len(fwd) + 1
            BY <2>2, <2>4
          <5>1. p \in 1..Len(fwd)
            BY <4>2, <5>0
          <5>2. fwd'[p] = fwd[p]
            BY <2>4, <5>1
          <5>3. QED
            BY <3>1, <3>4, <3>7, <5>1, <5>2
        <4>3. QED
          BY <4>1, <4>2
      <3>8. QED
        BY <3>6, <3>7
    <2>13. ForwardOrder'
      <3>1. \A p \in 1..Len(fwd) : fwd[p].t = h.t => fwd[p].id <= h.id
        BY <2>3 DEF OrderInv, QueueOrder
      <3> SUFFICES ASSUME NEW p \in 1..Len(fwd'), NEW q \in 1..Len(fwd'),
                          p < q, fwd'[p].t = fwd'[q].t
                   PROVE  fwd'[p].id <= fwd'[q].id
        BY DEF ForwardOrder
      <3>2. p \in 1..Len(fwd) /\ fwd'[p] = fwd[p]
        BY <2>2, <2>4
      <3>3. CASE q = Len(fwd) + 1
        BY <2>4, <3>1, <3>2, <3>3
      <3>4. CASE q # Len(fwd) + 1
        <4>1. q \in 1..Len(fwd) /\ fwd'[q] = fwd[q]
          BY <2>2, <2>4, <3>4
        <4>2. QED
          BY <3>2, <4>1 DEF OrderInv, ForwardOrder
      <3>5. QED
        BY <3>3, <3>4
    <2>14. QED
      BY <1>0, <2>7, <2>8, <2>9, <2>11, <2>12, <2>13 DEF OrderInv
  <1>14. CASE ResultsIdle \/ ReconnectLimit \/ UNCHANGED vars
    <2>1. UNCHANGED vars
      BY <1>14 DEF ResultsIdle, ReconnectLimit
    <2>2. QED
      BY <2>1 DEF vars, OrderInv, TypeOK, AnnounceOnCurrent, AckAfterAnnounce, Unopened,
                  SingleQueue, CurrentLatest, Taken, QueueOrder, ForwardOrder
  <1>15. QED
    BY <1>1, <1>2, <1>3, <1>4, <1>5, <1>6, <1>7, <1>8, <1>9, <1>10, <1>11,
       <1>12, <1>13, <1>14 DEF Next

\* ForwardOrder: the server forwards the messages of each protocol type in
\* the order of their ids, whatever connections the Sender opened, lost and
\* reopened, so no data message of a type is forwarded after that type's EOF.
THEOREM ForwardOrderHolds == Spec => []ForwardOrder
  <1>1. Init => OrderInv
    BY OrderInit
  <1>2. OrderInv /\ [Next]_vars => OrderInv'
    BY OrderStep
  <1>3. OrderInv => ForwardOrder
    BY DEF OrderInv
  <1>4. QED
    BY <1>1, <1>2, <1>3, PTL DEF Spec
=============================================================================
