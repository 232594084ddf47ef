----------------------------- MODULE InternalCodec -----------------------------
(***************************************************************************)
(* The codecs of the messages replicas exchange through the broker        *)
(* (src/commons/message.py): a u16 type and the u64 client_id, then the   *)
(* class's fields; count-prefixed lists of u64, and in EOF_AGGREGATION a  *)
(* list of ProcessedMessage (src/commons/log_searcher.py) of 9 bytes each. *)
(* A small state machine serializes one message and parses it back.       *)
(***************************************************************************)
EXTENDS Naturals, Sequences, MessageBytes

CONSTANTS
    ClientIds,       \* client ids (u64)
    Ids,             \* message ids and counters (u64)
    Tags,            \* result tag ids (u8)
    Texts,           \* payloads: strings as sequences of code points
    IdLists,         \* lists of u64: duplicates, replica ids seen
    ProcessedLists,  \* lists of ProcessedMessage records
    NoMsg,           \* nothing parsed yet
    ParseError       \* from_bytes raised

\* MessageType values.
PROTOCOL == 0
PROTOCOL_RESULT == 1
EOF == 2
EOF_DISCOVERY == 3
EOF_AGGREGATION == 4
EOF_FINISH == 5
EOF_RESULT == 6

\* ProcessedMessage(message_id, sent).
Processed(i, s) == [message_id |-> i, sent |-> s]

\* The messages of each class, as their constructors build them.
ProtocolMsg(c, i, t) ==
    [message_type |-> PROTOCOL, client_id |-> c, message_id |-> i, payload |-> t]
ProtocolResult(c, g, i, t) ==
    [message_type |-> PROTOCOL_RESULT, client_id |-> c, tag_id |-> g,
     message_id |-> i, payload |-> t]
EOFMsg(c, n, d) ==
    [message_type |-> EOF, client_id |-> c, messages_sent |-> n, possible_duplicates |-> d]
Discovery(c, on, od, rcv, snt, d, seen) ==
    [message_type |-> EOF_DISCOVERY, client_id |-> c, original_messages_sent |-> on,
     original_possible_duplicates |-> od, messages_received |-> rcv,
     messages_sent |-> snt, possible_duplicates |-> d, replica_id_seen |-> seen]
Aggregation(c, on, od, rcv, snt, d, seen, pb) ==
    [message_type |-> EOF_AGGREGATION, client_id |-> c, original_messages_sent |-> on,
     original_possible_duplicates |-> od, messages_received |-> rcv,
     messages_sent |-> snt, possible_duplicates |-> d, replica_id_seen |-> seen,
     possible_duplicates_processed_by |-> pb]
Finish(c, seen) == [message_type |-> EOF_FINISH, client_id |-> c, replica_id_seen |-> seen]
EOFResult(c, g, n) ==
    [message_type |-> EOF_RESULT, client_id |-> c, tag_id |-> g, messages_sent |-> n]

Messages ==
    {ProtocolMsg(c, i, t) : c \in ClientIds, i \in Ids, t \in Texts}
    \cup {ProtocolResult(c, g, i, t) : c \in ClientIds, g \in Tags, i \in Ids, t \in Texts}
    \cup {EOFMsg(c, n, d) : c \in ClientIds, n \in Ids, d \in IdLists}
    \cup {Discovery(c, on, od, rcv, snt, d, seen) :
            c \in ClientIds, on \in Ids, od \in IdLists, rcv \in Ids, snt \in Ids,
            d \in IdLists, seen \in IdLists}
    \cup {Aggregation(c, on, od, rcv, snt, d, seen, pb) :
            c \in ClientIds, on \in Ids, od \in IdLists, rcv \in Ids, snt \in Ids,
            d \in IdLists, seen \in IdLists, pb \in ProcessedLists}
    \cup {Finish(c, seen) : c \in ClientIds, seen \in IdLists}
    \cup {EOFResult(c, g, n) : c \in ClientIds, g \in Tags, n \in Ids}

-----------------------------------------------------------------------------
(* ProcessedMessage.to_bytes(size) / from_bytes.                           *)

\* The sent flag as one byte, then the id in size - 1 bytes.
ProcessedToBytes(p, size) ==
    <<IF p.sent THEN 1 ELSE 0>> \o IntToBytes(p.message_id, size - 1)

\* sent = bytes[0] == True; message_id from the rest.
ProcessedFromBytes(bs) == Processed(BytesToInt(Tail(bs)), bs[1] = 1)

-----------------------------------------------------------------------------
(* to_bytes.                                                               *)

U64(v) == IntToBytes(v, 8)

\* A count-prefixed list of u64: write_int(len(xs), 4), write_multiple_int.
U64List(xs) == IntToBytes(Len(xs), 4) \o WriteMultiple(xs, U64)

\* Mutant: the payload written without .encode("utf-8").
ProtocolToBytesNoEncode(m) == U64(m.message_id) \o m.payload

ProtocolToBytes(m) == U64(m.message_id) \o Utf8Encode(m.payload)

ProtocolResultToBytes(m) ==
    IntToBytes(m.tag_id, 1) \o U64(m.message_id) \o Utf8Encode(m.payload)

EOFToBytes(m) == U64(m.messages_sent) \o U64List(m.possible_duplicates)

DiscoveryToBytes(m) ==
    U64(m.original_messages_sent) \o U64List(m.original_possible_duplicates)
    \o U64(m.messages_received) \o U64(m.messages_sent)
    \o U64List(m.possible_duplicates) \o U64List(m.replica_id_seen)

\* The processed_by list goes through write_multiple_int(list, 9), which
\* writes each element's to_bytes(9).
AggregationToBytes(m) ==
    U64(m.original_messages_sent) \o U64List(m.original_possible_duplicates)
    \o U64(m.messages_received) \o U64(m.messages_sent)
    \o U64List(m.possible_duplicates) \o U64List(m.replica_id_seen)
    \o IntToBytes(Len(m.possible_duplicates_processed_by), 4)
    \o WriteMultiple(m.possible_duplicates_processed_by,
                     LAMBDA p : ProcessedToBytes(p, 9))

FinishToBytes(m) == U64List(m.replica_id_seen)

EOFResultToBytes(m) == IntToBytes(m.tag_id, 1) \o U64(m.messages_sent)

\* Message.to_bytes: u16 type, u64 client_id, then the subclass's fields.
ToBytes(m) ==
    IntToBytes(m.message_type, 2) \o U64(m.client_id) \o
    CASE m.message_type = PROTOCOL -> ProtocolToBytes(m)
      [] m.message_type = PROTOCOL_RESULT -> ProtocolResultToBytes(m)
      [] m.message_type = EOF -> EOFToBytes(m)
      [] m.message_type = EOF_DISCOVERY -> DiscoveryToBytes(m)
      [] m.message_type = EOF_AGGREGATION -> AggregationToBytes(m)
      [] m.message_type = EOF_FINISH -> FinishToBytes(m)
      [] m.message_type = EOF_RESULT -> EOFResultToBytes(m)

-----------------------------------------------------------------------------
(* from_bytes: each class reads its fields from the reader r.             *)

\* read_int(4) followed by read_multiple_int(8, count).
ReadU64List(r) ==
    LET count == ReadInt(r, 4) IN ReadMultipleInt(count[2], 8, count[1])

ProtocolFromBytes(c, r) ==
    LET id == ReadInt(r, 8)
        payload == ReadToEnd(id[2])
    IN  ProtocolMsg(c, id[1], Utf8Decode(payload[1]))

ProtocolResultFromBytes(c, r) ==
    LET tag == ReadInt(r, 1)
        id == ReadInt(tag[2], 8)
        payload == ReadToEnd(id[2])
    IN  ProtocolResult(c, tag[1], id[1], Utf8Decode(payload[1]))

EOFFromBytes(c, r) ==
    LET sent == ReadInt(r, 8)
        dups == ReadU64List(sent[2])
    IN  EOFMsg(c, sent[1], dups[1])

\* Mutant: messages_sent read before messages_received.
RingFieldsSwapped(r) ==
    LET on == ReadInt(r, 8)
        od == ReadU64List(on[2])
        snt == ReadInt(od[2], 8)
        rcv == ReadInt(snt[2], 8)
        d == ReadU64List(rcv[2])
        seen == ReadU64List(d[2])
    IN  <<on[1], od[1], rcv[1], snt[1], d[1], seen[1], seen[2]>>

\* The fields EOF_DISCOVERY and EOF_AGGREGATION share, in reading order.
RingFields(r) ==
    LET on == ReadInt(r, 8)
        od == ReadU64List(on[2])
        rcv == ReadInt(od[2], 8)
        snt == ReadInt(rcv[2], 8)
        d == ReadU64List(snt[2])
        seen == ReadU64List(d[2])
    IN  <<on[1], od[1], rcv[1], snt[1], d[1], seen[1], seen[2]>>

DiscoveryFromBytes(c, r) ==
    LET f == RingFields(r) IN Discovery(c, f[1], f[2], f[3], f[4], f[5], f[6])

AggregationFromBytes(c, r) ==
    LET f == RingFields(r)
        count == ReadInt(f[7], 4)
        pb == ReadMultipleObject(count[2], 9, count[1], ProcessedFromBytes)
    IN  Aggregation(c, f[1], f[2], f[3], f[4], f[5], f[6], pb[1])

FinishFromBytes(c, r) == Finish(c, ReadU64List(r)[1])

EOFResultFromBytes(c, r) ==
    LET tag == ReadInt(r, 1)
        sent == ReadInt(tag[2], 8)
    IN  EOFResult(c, tag[1], sent[1])

\* Message.from_bytes: u16 type, u64 client_id, dispatch; unknown raises.
FromBytes(bs) ==
    LET t == ReadInt(Reader(bs), 2)
        c == ReadInt(t[2], 8)
        r == c[2]
    IN  CASE t[1] = PROTOCOL -> ProtocolFromBytes(c[1], r)
          [] t[1] = PROTOCOL_RESULT -> ProtocolResultFromBytes(c[1], r)
          [] t[1] = EOF -> EOFFromBytes(c[1], r)
          [] t[1] = EOF_DISCOVERY -> DiscoveryFromBytes(c[1], r)
          [] t[1] = EOF_AGGREGATION -> AggregationFromBytes(c[1], r)
          [] t[1] = EOF_FINISH -> FinishFromBytes(c[1], r)
          [] t[1] = EOF_RESULT -> EOFResultFromBytes(c[1], r)
          [] OTHER -> ParseError

-----------------------------------------------------------------------------
(* One message is published by a replica and consumed by the next stage.  *)

VARIABLES msg, wire, parsed

vars == <<msg, wire, parsed>>

TypeOK ==
    /\ msg \in Messages
    /\ wire \in Seq(Byte)
    /\ parsed \in Messages \cup {NoMsg, ParseError}

Init ==
    /\ msg \in Messages
    /\ wire = <<>>
    /\ parsed = NoMsg

\* The producer publishes message.to_bytes().
Serialize ==
    /\ wire = <<>>
    /\ wire' = ToBytes(msg)
    /\ UNCHANGED <<msg, parsed>>

\* The consumer's callback runs Message.from_bytes(body).
Parse ==
    /\ wire # <<>>
    /\ parsed = NoMsg
    /\ parsed' = FromBytes(wire)
    /\ UNCHANGED <<msg, wire>>

Delivered ==
    /\ parsed # NoMsg
    /\ UNCHANGED vars

Next == Serialize \/ Parse \/ Delivered

Spec == Init /\ [][Next]_vars

-----------------------------------------------------------------------------
\* Round trip (spec 8): every internal message, the ring envelopes with
\* their three lists and the processed-by records included, parses back to
\* itself.
RoundTrip == parsed # NoMsg => parsed = msg
=============================================================================
