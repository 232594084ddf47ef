--------------------- MODULE ClientConnectionProofs ------------------------
(***************************************************************************)
(* Proofs about ClientConnection for every value of the constants.         *)
(***************************************************************************)
EXTENDS ClientConnection, TLAPS

\* The messages the uploaders hand over, and the EOF with a duplicate list
\* attached, are client messages.
LEMMA MsgType ==
    ASSUME NEW t \in Types, NEW i \in Nat, NEW d \in SUBSET Nat
    PROVE  /\ Msg(t, i) \in AppMsg
           /\ WithDups(Msg(t, i), d) \in AppMsg
  BY DEF Msg, AppMsg, WithDups

LEMMA WithDupsType ==
    ASSUME NEW m \in AppMsg, NEW d \in SUBSET Nat
    PROVE  WithDups(m, d) \in AppMsg
  BY DEF AppMsg, WithDups

\* The initial state is well-typed.
LEMMA TypeInit == Init => TypeOK
  <1> SUFFICES ASSUME Init PROVE TypeOK
    OBVIOUS
  <1>1. upl \in [Types -> Nat] /\ \A t \in Types : upl[t] <= N[t] + 1
    BY ConstantsAssumption DEF Init, N, Types
  <1>2. /\ current_message \in AppMsg \cup {NoMsg}
        /\ spc \in {"send", "wait"} => current_message \in AppMsg
    BY DEF Init
  <1>3. /\ possible_duplicates \in SUBSET Nat
        /\ retried \in SUBSET (Types \X Nat)
        /\ eofs_received \in Nat
        /\ sending_messages \in BOOLEAN
        /\ spc \in SenderPCs
        /\ conn \in 0..MaxConn
        /\ spc # "connect" => conn \in Conns
    BY ConstantsAssumption DEF Init, SenderPCs
  <1>4. /\ open \in [Conns -> BOOLEAN]
        /\ announce \in [Conns -> BOOLEAN]
        /\ announce_ack \in [Conns -> BOOLEAN]
        /\ rcv \in [Conns -> {"idle", "running", "stopped"}]
    BY DEF Init
  <1>5. /\ c2s \in [Conns -> Seq(AppMsg)]
        /\ s2c \in [Conns -> Seq(AckMsg)]
        /\ ack_queue \in Seq(AckEntry)
        /\ fwd \in Seq(AppMsg)
    BY DEF Init
  <1>6. QED
    BY <1>1, <1>2, <1>3, <1>4, <1>5 DEF TypeOK

\* Every step of the sender, its receivers and the server sessions keeps
\* each variable in its domain.
LEMMA TypeStep == TypeOK /\ [Next]_vars => TypeOK'
  <1> SUFFICES ASSUME TypeOK, [Next]_vars PROVE TypeOK'
    OBVIOUS
  <1> USE ConstantsAssumption DEF Conns, SenderPCs
  <1>1. CASE Reconnect
    BY <1>1 DEF Reconnect, TypeOK
  <1>2. CASE SendAnnounce
    <2>1. ack_queue' \in Seq(AckEntry)
      BY <1>2 DEF SendAnnounce
    <2>2. conn \in Conns
      BY <1>2 DEF SendAnnounce, TypeOK
    <2>3. rcv' \in [Conns -> {"idle", "running", "stopped"}]
      BY <1>2, <2>2 DEF SendAnnounce, TypeOK
    <2>4. announce_ack' \in [Conns -> BOOLEAN]
      BY <1>2, <2>2 DEF SendAnnounce, TypeOK
    <2>5. QED
      BY <1>2, <2>1, <2>3, <2>4 DEF SendAnnounce, TypeOK
  <1>3. CASE AnnounceFailed
    BY <1>3 DEF AnnounceFailed, TypeOK
  <1>4. CASE TakeMessage
    <2>1. PICK t \in Types :
             /\ upl[t] <= N[t]
             /\ upl' = [upl EXCEPT ![t] = @ + 1]
             /\ current_message' = WithDups(Msg(t, upl[t] + 1),
                                            possible_duplicates)
      BY <1>4 DEF TakeMessage
    <2>2. /\ upl \in [Types -> Nat]
          /\ \A s \in Types : upl[s] <= N[s] + 1
          /\ possible_duplicates \in SUBSET Nat
      BY DEF TypeOK
    <2>3. current_message' \in AppMsg
      BY <2>1, <2>2, MsgType
    <2>4. upl' \in [Types -> Nat] /\ \A s \in Types : upl'[s] <= N[s] + 1
      BY <2>1, <2>2 DEF N, Types
    <2>5. QED
      BY <1>4, <2>3, <2>4 DEF TakeMessage, TypeOK
  <1>5. CASE ResendMessage
    <2>1. current_message \in AppMsg
      BY <1>5 DEF ResendMessage, TypeOK
    <2>2. current_message.id \in Nat /\ current_message.t \in Types
      BY <2>1 DEF AppMsg
    <2>3. possible_duplicates \in SUBSET Nat /\ retried \in SUBSET (Types \X Nat)
      BY DEF TypeOK
    <2>4. possible_duplicates' \in SUBSET Nat
      BY <1>5, <2>2, <2>3 DEF ResendMessage
    <2>5. retried' \in SUBSET (Types \X Nat)
      BY <1>5, <2>2, <2>3 DEF ResendMessage
    <2>6. current_message' \in AppMsg
      BY <1>5, <2>1, <2>4, WithDupsType DEF ResendMessage
    <2>7. QED
      BY <1>5, <2>4, <2>5, <2>6 DEF ResendMessage, TypeOK
  <1>6. CASE StopSending
    BY <1>6 DEF StopSending, TypeOK
  <1>7. CASE Send
    <2>1. conn \in Conns /\ current_message \in AppMsg
      BY <1>7 DEF Send, TypeOK
    <2>2. c2s' \in [Conns -> Seq(AppMsg)]
      <3>1. CASE open[conn]
        <4>1. c2s' = [c2s EXCEPT ![conn] = Append(c2s[conn], current_message)]
          BY <1>7, <3>1 DEF Send
        <4>2. c2s \in [Conns -> Seq(AppMsg)]
          BY DEF TypeOK
        <4>3. QED
          BY <2>1, <4>1, <4>2
      <3>2. CASE ~open[conn]
        BY <1>7, <3>2 DEF Send, TypeOK
      <3>3. QED
        BY <3>1, <3>2
    <2>3. QED
      BY <1>7, <2>1, <2>2 DEF Send, TypeOK
  <1>8. CASE ReceiveAck
    <2>1. ack_queue \in Seq(AckEntry) /\ ack_queue # <<>>
      BY <1>8 DEF ReceiveAck, TypeOK
    <2>2. ack_queue' \in Seq(AckEntry)
      BY <1>8, <2>1 DEF ReceiveAck
    <2>3. CASE Head(ack_queue).st = "DISCONNECTED"
      BY <1>8, <2>2, <2>3 DEF ReceiveAck, TypeOK
    <2>4. CASE Head(ack_queue).st # "DISCONNECTED"
      <3>1. eofs_received' \in Nat
        BY <1>8, <2>4 DEF ReceiveAck, TypeOK
      <3>2. QED
        BY <1>8, <2>2, <2>4, <3>1 DEF ReceiveAck, TypeOK
    <2>5. QED
      BY <2>3, <2>4
  <1>9. CASE WaitResults
    <2>1. ack_queue' \in Seq(AckEntry)
      BY <1>9 DEF WaitResults, TypeOK
    <2>2. QED
      BY <1>9, <2>1 DEF WaitResults, TypeOK
  <1>10. ASSUME NEW k \in Conns, ReceiverGetAck(k) PROVE TypeOK'
    <2>1. s2c[k] \in Seq(AckMsg) /\ s2c[k] # <<>>
      BY <1>10 DEF ReceiverGetAck, TypeOK
    <2>2. [st |-> "CONNECTED", msg |-> Head(s2c[k])] \in AckEntry
      BY <2>1 DEF AckEntry
    <2>3. ack_queue' \in Seq(AckEntry)
      BY <1>10, <2>2 DEF ReceiverGetAck, TypeOK
    <2>4. s2c' \in [Conns -> Seq(AckMsg)]
      BY <1>10, <2>1 DEF ReceiverGetAck, TypeOK
    <2>5. QED
      BY <1>10, <2>3, <2>4 DEF ReceiverGetAck, TypeOK
  <1>11. ASSUME NEW k \in Conns, ReceiverDisconnected(k) PROVE TypeOK'
    <2>1. [st |-> "DISCONNECTED"] \in AckEntry
      BY DEF AckEntry
    <2>2. ack_queue' \in Seq(AckEntry)
      BY <1>11, <2>1 DEF ReceiverDisconnected, TypeOK
    <2>3. QED
      BY <1>11, <2>2 DEF ReceiverDisconnected, TypeOK
  <1>12. ASSUME NEW k \in Conns, ServerAnnounce(k) PROVE TypeOK'
    <2>1. c2s' \in [Conns -> Seq(AppMsg)]
      BY <1>12 DEF ServerAnnounce, TypeOK
    <2>2. QED
      BY <1>12, <2>1 DEF ServerAnnounce, TypeOK
  <1>13. ASSUME NEW k \in Conns, ServerForward(k) PROVE TypeOK'
    <2>1. c2s[k] \in Seq(AppMsg) /\ c2s[k] # <<>>
      BY <1>13 DEF ServerForward, TypeOK
    <2>2. Head(c2s[k]) \in AppMsg
      BY <2>1
    <2>3. [t |-> Head(c2s[k]).t, id |-> Head(c2s[k]).id] \in AckMsg
      BY <2>2 DEF AppMsg, AckMsg
    <2>4. fwd' \in Seq(AppMsg)
      BY <1>13, <2>2 DEF ServerForward, TypeOK
    <2>5. s2c' \in [Conns -> Seq(AckMsg)]
      BY <1>13, <2>3 DEF ServerForward, TypeOK
    <2>6. c2s' \in [Conns -> Seq(AppMsg)]
      BY <1>13, <2>1 DEF ServerForward, TypeOK
    <2>7. QED
      BY <1>13, <2>4, <2>5, <2>6 DEF ServerForward, TypeOK
  <1>14. ASSUME NEW k \in Conns, ConnectionBreak(k) PROVE TypeOK'
    <2>1. c2s' \in [Conns -> Seq(AppMsg)]
      BY <1>14 DEF ConnectionBreak, TypeOK
    <2>2. s2c' \in [Conns -> Seq(AckMsg)] /\ announce_ack' \in [Conns -> BOOLEAN]
      <3>1. CASE UNCHANGED <<s2c, announce_ack>>
        BY <3>1 DEF TypeOK
      <3>2. CASE /\ s2c' = [s2c EXCEPT ![k] = <<>>]
                 /\ announce_ack' = [announce_ack EXCEPT ![k] = FALSE]
        BY <3>2 DEF TypeOK
      <3>3. QED
        BY <1>14, <3>1, <3>2 DEF ConnectionBreak
    <2>3. QED
      BY <1>14, <2>1, <2>2 DEF ConnectionBreak, TypeOK
  <1>15. CASE ResultsIdle \/ ReconnectLimit \/ UNCHANGED vars
    BY <1>15 DEF ResultsIdle, ReconnectLimit, vars, TypeOK
  <1>16. QED
    BY <1>1, <1>2, <1>3, <1>4, <1>5, <1>6, <1>7, <1>8, <1>9, <1>10,
       <1>11, <1>12, <1>13, <1>14, <1>15 DEF Next

\* TypeOK is an invariant of the sender, its receivers and the server
\* sessions: every step keeps each variable in its domain and no uploader is
\* read past its EOF.
THEOREM TypeCorrect == Spec => []TypeOK
  BY TypeInit, TypeStep, PTL DEF Spec
=============================================================================
