-------------------------- MODULE ClientConnection --------------------------
(***************************************************************************)
(* The client side of the client<->server protocol: the ProtocolConnection *)
(* sender loop and its Receiver processes (src/client/protocol_connection. *)
(* py), the two FileUploader processes that feed its send queue, and the   *)
(* server's client session that forwards each message to the broker and    *)
(* then ACKs it.  Connections are numbered 1..MaxConn in the order the     *)
(* client opens them; the server may close any of them at any time.       *)
(*                                                                         *)
(* A Receiver is started for every connection and is never terminated by a *)
(* reconnect, so the receivers of old connections keep writing into the    *)
(* one ack_queue the sender reads.                                         *)
(***************************************************************************)
EXTENDS Naturals, Sequences, FiniteSets

CONSTANTS
    NFlight,    \* data messages the flights uploader sends before its EOF
    NAirport,   \* data messages the airports uploader sends before its EOF
    MaxConn,    \* bound on the connections the client opens (reconnects + 1)
    NoMsg       \* the empty current_message slot (None in the code)

ASSUME ConstantsAssumption ==
    /\ NFlight \in Nat
    /\ NAirport \in Nat
    /\ MaxConn \in Nat \ {0}

Types == {"FLIGHT", "AIRPORT"}

\* Number of data messages of each protocol type.
N == [t \in Types |-> IF t = "FLIGHT" THEN NFlight ELSE NAirport]

Conns == 1..MaxConn

\* A client message as the sender holds it: a data batch (ids 1..N[t]) or
\* the EOF of its type (id N[t] + 1), with the possible_duplicates list the
\* sender attaches to an EOF.
AppMsg == [kind : {"data", "eof"}, t : Types, id : Nat, dups : SUBSET Nat]

\* current_message = None is no message.
ASSUME NoMsgAssumption == NoMsg \notin AppMsg

\* The ACK(message_id, protocol_type) frame of the server.
AckMsg == [t : Types, id : Nat]

\* An entry of ack_queue: (ConnectionState, message).
AckEntry == [st : {"CONNECTED"}, msg : AckMsg] \cup [st : {"DISCONNECTED"}]

\* The i-th message the uploader of type t puts on the send queue.
Msg(t, i) == [kind |-> IF i <= N[t] THEN "data" ELSE "eof",
              t |-> t, id |-> i, dups |-> {}]

VARIABLES
    upl,                 \* [Types -> Nat]: messages each uploader has handed over
    current_message,     \* the one message being sent, or NoMsg
    possible_duplicates, \* ids the sender has resent (one list for both types)
    retried,             \* history: <<type, id>> of every resend
    eofs_received,       \* EOFs the sender has seen ACKed
    sending_messages,    \* the send loop is still running
    spc,                 \* where the sender process is
    conn,                \* index of the sender's current connection (0: none)
    open,                \* [Conns -> BOOLEAN]: the server side is still serving it
    announce,            \* [Conns -> BOOLEAN]: the ANNOUNCE frame is unread
    announce_ack,        \* [Conns -> BOOLEAN]: the ANNOUNCE_ACK frame is unread
    c2s,                 \* [Conns -> Seq(AppMsg)]: client -> server frames after ANNOUNCE
    s2c,                 \* [Conns -> Seq(AckMsg)]: server -> client ACK frames
    rcv,                 \* [Conns -> {"idle","running","stopped"}]: its Receiver
    ack_queue,           \* Seq(AckEntry): the mp.Queue from receivers to sender
    fwd                  \* Seq(AppMsg): what the server forwarded to the pipeline

vars == <<upl, current_message, possible_duplicates, retried, eofs_received,
          sending_messages, spc, conn, open, announce, announce_ack, c2s, s2c,
          rcv, ack_queue, fwd>>

SenderPCs == {"connect", "announce", "run", "send", "wait", "results"}

TypeOK ==
    /\ upl \in [Types -> Nat]
    /\ \A t \in Types : upl[t] <= N[t] + 1
    /\ current_message \in AppMsg \cup {NoMsg}
    /\ spc \in {"send", "wait"} => current_message \in AppMsg
    /\ possible_duplicates \in SUBSET Nat
    /\ retried \in SUBSET (Types \X Nat)
    /\ eofs_received \in Nat
    /\ sending_messages \in BOOLEAN
    /\ spc \in SenderPCs
    /\ conn \in 0..MaxConn
    /\ spc # "connect" => conn \in Conns
    /\ open \in [Conns -> BOOLEAN]
    /\ announce \in [Conns -> BOOLEAN]
    /\ announce_ack \in [Conns -> BOOLEAN]
    /\ c2s \in [Conns -> Seq(AppMsg)]
    /\ s2c \in [Conns -> Seq(AckMsg)]
    /\ rcv \in [Conns -> {"idle", "running", "stopped"}]
    /\ ack_queue \in Seq(AckEntry)
    /\ fwd \in Seq(AppMsg)

Init ==
    /\ upl = [t \in Types |-> 0]
    /\ current_message = NoMsg
    /\ possible_duplicates = {}
    /\ retried = {}
    /\ eofs_received = 0
    /\ sending_messages = TRUE
    /\ spc = "connect"
    /\ conn = 0
    /\ open = [k \in Conns |-> FALSE]
    /\ announce = [k \in Conns |-> FALSE]
    /\ announce_ack = [k \in Conns |-> FALSE]
    /\ c2s = [k \in Conns |-> <<>>]
    /\ s2c = [k \in Conns |-> <<>>]
    /\ rcv = [k \in Conns |-> "idle"]
    /\ ack_queue = <<>>
    /\ fwd = <<>>

-----------------------------------------------------------------------------
(* The sender process (ProtocolConnection).                                *)

\* __reconnect: open a new socket and write ANNOUNCE on it.
Reconnect ==
    /\ spc = "connect"
    /\ conn < MaxConn
    /\ conn' = conn + 1
    /\ open' = [open EXCEPT ![conn + 1] = TRUE]
    /\ announce' = [announce EXCEPT ![conn + 1] = TRUE]
    /\ spc' = "announce"
    /\ UNCHANGED <<upl, current_message, possible_duplicates, retried,
                   eofs_received, sending_messages, announce_ack, c2s, s2c,
                   rcv, ack_queue, fwd>>

\* __send_announce returns on ANNOUNCE_ACK; __reconnect then drains
\* ack_queue, starts this connection's Receiver and enters __run.
SendAnnounce ==
    /\ spc = "announce"
    /\ announce_ack[conn]
    /\ announce_ack' = [announce_ack EXCEPT ![conn] = FALSE]
    /\ ack_queue' = <<>>
    /\ rcv' = [rcv EXCEPT ![conn] = "running"]
    /\ spc' = "run"
    /\ UNCHANGED <<upl, current_message, possible_duplicates, retried,
                   eofs_received, sending_messages, conn, open, announce, c2s,
                   s2c, fwd>>

\* get_message raises on a closed socket: the connect loop tries again.
AnnounceFailed ==
    /\ spc = "announce"
    /\ ~announce_ack[conn]
    /\ ~open[conn]
    /\ spc' = "connect"
    /\ UNCHANGED <<upl, current_message, possible_duplicates, retried,
                   eofs_received, sending_messages, conn, open, announce,
                   announce_ack, c2s, s2c, rcv, ack_queue, fwd>>

\* The EOF carries the (shared) possible_duplicates list.
WithDups(m, d) == IF m.kind = "eof" THEN [m EXCEPT !.dups = d] ELSE m

\* Mutant: the send queue handed out a message after the uploader's EOF.
TakeMessageUnguarded ==
    /\ spc = "run"
    /\ sending_messages
    /\ current_message = NoMsg
    /\ \E t \in Types :
          /\ upl' = [upl EXCEPT ![t] = @ + 1]
          /\ current_message' = WithDups(Msg(t, upl[t] + 1), possible_duplicates)
    /\ spc' = "send"
    /\ UNCHANGED <<possible_duplicates, retried, eofs_received, sending_messages,
                   conn, open, announce, announce_ack, c2s, s2c, rcv, ack_queue,
                   fwd>>

\* Mutant: a resend that is not recorded in possible_duplicates.
ResendMessageUnmarked ==
    /\ spc = "run"
    /\ sending_messages
    /\ current_message # NoMsg
    /\ current_message' = WithDups(current_message, possible_duplicates)
    /\ spc' = "send"
    /\ UNCHANGED <<upl, possible_duplicates, retried, eofs_received,
                   sending_messages, conn, open, announce, announce_ack, c2s,
                   s2c, rcv, ack_queue, fwd>>

\* One turn of `while self.sending_messages` in __run: take the next message
\* from the send queue, or mark the unacknowledged one as a possible duplicate.
TakeMessage ==
    /\ spc = "run"
    /\ sending_messages
    /\ current_message = NoMsg
    /\ \E t \in Types :
          /\ upl[t] <= N[t]
          /\ upl' = [upl EXCEPT ![t] = @ + 1]
          /\ current_message' = WithDups(Msg(t, upl[t] + 1), possible_duplicates)
    /\ spc' = "send"
    /\ UNCHANGED <<possible_duplicates, retried, eofs_received, sending_messages,
                   conn, open, announce, announce_ack, c2s, s2c, rcv, ack_queue,
                   fwd>>

ResendMessage ==
    /\ spc = "run"
    /\ sending_messages
    /\ current_message # NoMsg
    /\ possible_duplicates' = possible_duplicates \cup {current_message.id}
    /\ retried' = retried \cup {<<current_message.t, current_message.id>>}
    /\ current_message' = WithDups(current_message, possible_duplicates')
    /\ spc' = "send"
    /\ UNCHANGED <<upl, eofs_received, sending_messages, conn, open, announce,
                   announce_ack, c2s, s2c, rcv, ack_queue, fwd>>

\* Leaving the send loop for `while self.waiting_results`.
StopSending ==
    /\ spc = "run"
    /\ ~sending_messages
    /\ spc' = "results"
    /\ UNCHANGED <<upl, current_message, possible_duplicates, retried,
                   eofs_received, sending_messages, conn, open, announce,
                   announce_ack, c2s, s2c, rcv, ack_queue, fwd>>

\* __send: buff.send_message.  On a socket the server has closed the write
\* either raises (reconnect) or is accepted by the kernel and lost.
Send ==
    /\ spc = "send"
    /\ \/ /\ open[conn]
          /\ c2s' = [c2s EXCEPT ![conn] = Append(@, current_message)]
          /\ spc' = "wait"
       \/ /\ ~open[conn]
          /\ c2s' = c2s
          /\ spc' \in {"wait", "connect"}
    /\ UNCHANGED <<upl, current_message, possible_duplicates, retried,
                   eofs_received, sending_messages, conn, open, announce,
                   announce_ack, s2c, rcv, ack_queue, fwd>>

\* __receive_ack inside __send: any ACK clears current_message, whatever
\* message it acknowledges; DISCONNECTED raises and __send reconnects.
ReceiveAck ==
    /\ spc = "wait"
    /\ ack_queue # <<>>
    /\ ack_queue' = Tail(ack_queue)
    /\ IF Head(ack_queue).st = "DISCONNECTED"
          THEN /\ spc' = "connect"
               /\ UNCHANGED <<current_message, eofs_received, sending_messages>>
          ELSE /\ eofs_received' = eofs_received +
                     (IF current_message.kind = "eof" THEN 1 ELSE 0)
               /\ current_message' = NoMsg
               /\ sending_messages' = (eofs_received' # 2)
               /\ spc' = "run"
    /\ UNCHANGED <<upl, possible_duplicates, retried, conn, open, announce,
                   announce_ack, c2s, s2c, rcv, fwd>>

\* __receive_ack in the results loop: DISCONNECTED raises, and an ACK raises
\* too (current_message is None); either way the loop reconnects.
WaitResults ==
    /\ spc = "results"
    /\ ack_queue # <<>>
    /\ ack_queue' = Tail(ack_queue)
    /\ spc' = "connect"
    /\ UNCHANGED <<upl, current_message, possible_duplicates, retried,
                   eofs_received, sending_messages, conn, open, announce,
                   announce_ack, c2s, s2c, rcv, fwd>>

-----------------------------------------------------------------------------
(* The Receiver process of connection k.                                   *)

ReceiverGetAck(k) ==
    /\ rcv[k] = "running"
    /\ s2c[k] # <<>>
    /\ s2c' = [s2c EXCEPT ![k] = Tail(@)]
    /\ ack_queue' = Append(ack_queue, [st |-> "CONNECTED", msg |-> Head(s2c[k])])
    /\ UNCHANGED <<upl, current_message, possible_duplicates, retried,
                   eofs_received, sending_messages, spc, conn, open, announce,
                   announce_ack, c2s, rcv, fwd>>

\* Mutant: a Receiver that stops on a socket error without telling the
\* sender.
ReceiverDisconnectedSilent(k) ==
    /\ rcv[k] = "running"
    /\ s2c[k] = <<>>
    /\ ~open[k]
    /\ rcv' = [rcv EXCEPT ![k] = "stopped"]
    /\ UNCHANGED <<upl, current_message, possible_duplicates, retried,
                   eofs_received, sending_messages, spc, conn, open, announce,
                   announce_ack, c2s, s2c, ack_queue, fwd>>

\* get_message raises once the closed socket is drained.
ReceiverDisconnected(k) ==
    /\ rcv[k] = "running"
    /\ s2c[k] = <<>>
    /\ ~open[k]
    /\ rcv' = [rcv EXCEPT ![k] = "stopped"]
    /\ ack_queue' = Append(ack_queue, [st |-> "DISCONNECTED"])
    /\ UNCHANGED <<upl, current_message, possible_duplicates, retried,
                   eofs_received, sending_messages, spc, conn, open, announce,
                   announce_ack, c2s, s2c, fwd>>

-----------------------------------------------------------------------------
(* The server's client session on connection k.                           *)

\* Mutant: a new session that leaves the client's older sessions running.
ServerAnnounceNoPreempt(k) ==
    /\ open[k]
    /\ announce[k]
    /\ announce' = [announce EXCEPT ![k] = FALSE]
    /\ announce_ack' = [announce_ack EXCEPT ![k] = TRUE]
    /\ UNCHANGED <<upl, current_message, possible_duplicates, retried,
                   eofs_received, sending_messages, spc, conn, open, c2s, s2c,
                   rcv, ack_queue, fwd>>

\* ANNOUNCE: reply ANNOUNCE_ACK; the new socket preempts the client's
\* older sessions, which the server closes.
ServerAnnounce(k) ==
    /\ open[k]
    /\ announce[k]
    /\ announce' = [j \in Conns |-> FALSE]
    /\ announce_ack' = [announce_ack EXCEPT ![k] = TRUE]
    /\ open' = [j \in Conns |-> j = k]
    /\ c2s' = [j \in Conns |-> IF j = k THEN c2s[j] ELSE <<>>]
    /\ UNCHANGED <<upl, current_message, possible_duplicates, retried,
                   eofs_received, sending_messages, spc, conn, s2c, rcv,
                   ack_queue, fwd>>

\* PROTOCOL or EOF: forward to the pipeline, then ACK.
ServerForward(k) ==
    /\ open[k]
    /\ ~announce[k]
    /\ c2s[k] # <<>>
    /\ c2s' = [c2s EXCEPT ![k] = Tail(@)]
    /\ fwd' = Append(fwd, Head(c2s[k]))
    /\ s2c' = [s2c EXCEPT ![k] = Append(@, [t |-> Head(c2s[k]).t,
                                            id |-> Head(c2s[k]).id])]
    /\ UNCHANGED <<upl, current_message, possible_duplicates, retried,
                   eofs_received, sending_messages, spc, conn, open, announce,
                   announce_ack, rcv, ack_queue>>

\* The server closes connection k (crash, connection_timeout): unread client
\* frames are lost; the ACKs it wrote are either still readable (FIN) or
\* lost too (RST).
ConnectionBreak(k) ==
    /\ open[k]
    /\ open' = [open EXCEPT ![k] = FALSE]
    /\ announce' = [announce EXCEPT ![k] = FALSE]
    /\ c2s' = [c2s EXCEPT ![k] = <<>>]
    /\ \/ UNCHANGED <<s2c, announce_ack>>
       \/ /\ s2c' = [s2c EXCEPT ![k] = <<>>]
          /\ announce_ack' = [announce_ack EXCEPT ![k] = FALSE]
    /\ UNCHANGED <<upl, current_message, possible_duplicates, retried,
                   eofs_received, sending_messages, spc, conn, rcv, ack_queue,
                   fwd>>

-----------------------------------------------------------------------------
\* The sender blocks on an empty ack_queue once it has sent everything; the
\* client process later terminates it.
ResultsIdle ==
    /\ spc = "results"
    /\ ack_queue = <<>>
    /\ UNCHANGED vars

\* The model's bound: the sender wants a connection beyond MaxConn.
ReconnectLimit ==
    /\ spc = "connect"
    /\ conn = MaxConn
    /\ UNCHANGED vars

Next ==
    \/ Reconnect \/ SendAnnounce \/ AnnounceFailed
    \/ TakeMessage \/ ResendMessage \/ StopSending
    \/ Send \/ ReceiveAck \/ WaitResults
    \/ \E k \in Conns :
          \/ ReceiverGetAck(k) \/ ReceiverDisconnected(k)
          \/ ServerAnnounce(k) \/ ServerForward(k) \/ ConnectionBreak(k)
    \/ ResultsIdle \/ ReconnectLimit

Spec == Init /\ [][Next]_vars

\* The sender, every Receiver and the server's session loop are processes
\* that block only on a queue or a socket, so none of them stops forever
\* while it can move.  Connection breaks are the environment and get no
\* fairness.
Fairness ==
    /\ WF_vars(Reconnect) /\ WF_vars(SendAnnounce) /\ WF_vars(AnnounceFailed)
    /\ WF_vars(TakeMessage) /\ WF_vars(ResendMessage) /\ WF_vars(StopSending)
    /\ WF_vars(Send) /\ WF_vars(ReceiveAck) /\ WF_vars(WaitResults)
    /\ \A k \in Conns :
          /\ WF_vars(ReceiverGetAck(k)) /\ WF_vars(ReceiverDisconnected(k))
          /\ WF_vars(ServerAnnounce(k)) /\ WF_vars(ServerForward(k))

LiveSpec == Spec /\ Fairness

-----------------------------------------------------------------------------
(* Properties.                                                             *)

\* Positions of fwd that forwarded message <<t, i>>.
FwdPositions(t, i) == {p \in 1..Len(fwd) : fwd[p].t = t /\ fwd[p].id = i}

\* Message <<t, i>> is unread on a connection the server still serves.
InFlight(t, i) ==
    \E k \in Conns : open[k] /\ \E p \in 1..Len(c2s[k]) :
                                  c2s[k][p].t = t /\ c2s[k][p].id = i

\* At-least-once: every message the client has dropped from its send slot as
\* acknowledged (taken from an uploader and no longer current_message) has
\* been forwarded by the server, or is still unread on a connection the
\* server is serving.  Depends on __receive_ack matching an ACK to the
\* message it acknowledges.
AckedImpliesForwarded ==
    \A t \in Types : \A i \in 1..upl[t] :
        (current_message = NoMsg \/ current_message.t # t
                                 \/ current_message.id # i)
            => FwdPositions(t, i) # {} \/ InFlight(t, i)

\* Every data message the server forwarded twice or more before it forwarded
\* the EOF of that type is listed in that EOF's possible_duplicates: the
\* downstream EOF reconciliation relies on it to discount the extra copies.
\* Depends on __run marking every resend of current_message.
DuplicatesDeclared ==
    \A p \in 1..Len(fwd) :
        fwd[p].kind = "eof" =>
            \A i \in 1..N[fwd[p].t] :
                Cardinality({q \in FwdPositions(fwd[p].t, i) : q < p}) >= 2
                    => i \in fwd[p].dups

\* No step makes the server forward a second copy of a data message (ids
\* 1..N[t]) whose id the client has not marked as a possible duplicate:
\* every resend in __run appends message_id to possible_duplicates before
\* __send writes the frame again, whatever connection carries either copy.
DuplicateStepDeclared ==
    Len(fwd') > Len(fwd) =>
        LET m == fwd'[Len(fwd')] IN
        (/\ m.id \in 1..N[m.t]
         /\ \E p \in 1..Len(fwd) : fwd[p].t = m.t /\ fwd[p].id = m.id)
            => m.id \in possible_duplicates

DuplicateOnlyIfDeclared == [][DuplicateStepDeclared]_vars

\* Per protocol type the server forwards message ids in non-decreasing order,
\* so no data message of a type is forwarded after that type's EOF.  Depends
\* on the single current_message slot and on a new session preempting the
\* client's older connections.
ForwardOrder ==
    \A p, q \in 1..Len(fwd) :
        (p < q /\ fwd[p].t = fwd[q].t) => fwd[p].id <= fwd[q].id

\* The sender never blocks forever in ack_queue.get() while waiting for the
\* ACK of the message it sent: an ACK or a DISCONNECTED always arrives,
\* whether the connection stays up, is reset, or is closed with the frame
\* unread.  Depends on every Receiver reporting its socket's failure.
WaitEnds == (spc = "wait") ~> (spc # "wait")

\* The sender goes back to connecting only when the connection it is using
\* has failed (spec 4.2: any state returns to CONNECTING "on socket
\* error").  A DISCONNECTED left by an older Receiver, or an ACK arriving
\* in the results loop, breaks this and starts a needless reconnect.
ReconnectOnlyOnError ==
    (spc = "connect" /\ conn \in Conns) => ~open[conn]

\* The possible_duplicates of the EOF of type t are ids the client resent as
\* messages of type t (spec 4.2: "the accumulated set of retried message_ids
\* for that protocol_type").
EOFDuplicatesOfOwnType ==
    \A p \in 1..Len(fwd) :
        fwd[p].kind = "eof" =>
            \A i \in fwd[p].dups : <<fwd[p].t, i>> \in retried

=============================================================================
