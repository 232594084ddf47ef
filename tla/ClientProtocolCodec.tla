-------------------------- MODULE ClientProtocolCodec --------------------------
(***************************************************************************)
(* The client<->server message codecs (src/commons/protocol.py): every    *)
(* message is a u8 type followed by its fields; Message.from_bytes reads  *)
(* the type and dispatches to the class's from_bytes.  A message is a     *)
(* record with its type and the fields of its class.  A small state       *)
(* machine serializes one message onto the wire and parses it back.       *)
(***************************************************************************)
EXTENDS Naturals, Sequences, MessageBytes

CONSTANTS
    ClientIds,   \* client ids (u64)
    MessageIds,  \* message ids, messages_sent and duplicate ids (u64)
    Tags,        \* result tag ids (u8)
    Texts,       \* payloads: strings as sequences of code points
    DupLists,    \* possible_duplicates lists
    NoMsg,       \* nothing parsed yet
    ParseError   \* from_bytes raised

\* MessageType and MessageProtocolType values.
ANNOUNCE == 0
PROTOCOL == 1
RESULT == 2
EOF == 3
HEALTH_CHECK == 4
HEALTH_OK == 5
ACK == 6
ANNOUNCE_ACK == 7
RESULT_ACK == 8
RESULT_EOF == 9
ProtocolTypes == {0, 1}
EmptyTypes == {HEALTH_CHECK, HEALTH_OK, ANNOUNCE_ACK, RESULT_ACK}

\* The messages of each class, as their constructors build them.
Announce(c) == [message_type |-> ANNOUNCE, client_id |-> c]
ClientProtocol(i, p, t) ==
    [message_type |-> PROTOCOL, message_id |-> i, protocol_type |-> p, content |-> t]
Result(g, i, t) == [message_type |-> RESULT, tag_id |-> g, message_id |-> i, result |-> t]
EOFMsg(p, n, d) ==
    [message_type |-> EOF, protocol_type |-> p, messages_sent |-> n,
     possible_duplicates |-> d]
ResultEOF(g, n) == [message_type |-> RESULT_EOF, tag_id |-> g, messages_sent |-> n]
AckMsg(i, p) == [message_type |-> ACK, message_id |-> i, protocol_type |-> p]
Empty(k) == [message_type |-> k]

Messages ==
    {Announce(c) : c \in ClientIds}
    \cup {ClientProtocol(i, p, t) : i \in MessageIds, p \in ProtocolTypes, t \in Texts}
    \cup {Result(g, i, t) : g \in Tags, i \in MessageIds, t \in Texts}
    \cup {EOFMsg(p, n, d) : p \in ProtocolTypes, n \in MessageIds, d \in DupLists}
    \cup {ResultEOF(g, n) : g \in Tags, n \in MessageIds}
    \cup {AckMsg(i, p) : i \in MessageIds, p \in ProtocolTypes}
    \cup {Empty(k) : k \in EmptyTypes}

-----------------------------------------------------------------------------
(* to_bytes.                                                               *)

U64(v) == IntToBytes(v, 8)

\* Each class's to_bytes_impl: its fields in the order it writes them.
AnnounceToBytes(m) == U64(m.client_id)

ClientProtocolToBytes(m) ==
    U64(m.message_id) \o IntToBytes(m.protocol_type, 1) \o Utf8Encode(m.content)

ResultToBytes(m) ==
    IntToBytes(m.tag_id, 1) \o U64(m.message_id) \o Utf8Encode(m.result)

\* Mutant: the duplicate count written as a u64.
EOFToBytesWideCount(m) ==
    IntToBytes(m.protocol_type, 1) \o U64(m.messages_sent)
    \o IntToBytes(Len(m.possible_duplicates), 8)
    \o WriteMultiple(m.possible_duplicates, U64)

EOFToBytes(m) ==
    IntToBytes(m.protocol_type, 1) \o U64(m.messages_sent)
    \o IntToBytes(Len(m.possible_duplicates), 4)
    \o WriteMultiple(m.possible_duplicates, U64)

ResultEOFToBytes(m) == IntToBytes(m.tag_id, 1) \o U64(m.messages_sent)

ACKToBytes(m) == U64(m.message_id) \o IntToBytes(m.protocol_type, 1)

\* Message.to_bytes: the type byte, then the subclass's to_bytes_impl
\* (the classes without fields write nothing more).
ToBytes(m) ==
    IntToBytes(m.message_type, 1) \o
    CASE m.message_type = ANNOUNCE -> AnnounceToBytes(m)
      [] m.message_type = PROTOCOL -> ClientProtocolToBytes(m)
      [] m.message_type = RESULT -> ResultToBytes(m)
      [] m.message_type = EOF -> EOFToBytes(m)
      [] m.message_type = RESULT_EOF -> ResultEOFToBytes(m)
      [] m.message_type = ACK -> ACKToBytes(m)
      [] m.message_type \in EmptyTypes -> <<>>

-----------------------------------------------------------------------------
(* from_bytes: each class reads its fields from the reader r.             *)

\* MessageProtocolType(value) raises ValueError outside {0, 1}.
ProtocolTypeOr(v, m) == IF v \in ProtocolTypes THEN m ELSE ParseError

AnnounceFromBytes(r) == Announce(ReadInt(r, 8)[1])

ClientProtocolFromBytes(r) ==
    LET id == ReadInt(r, 8)
        pt == ReadInt(id[2], 1)
        content == ReadToEnd(pt[2])
    IN  ProtocolTypeOr(pt[1], ClientProtocol(id[1], pt[1], Utf8Decode(content[1])))

\* Mutant: the result bytes are kept without .decode("utf-8").
ResultFromBytesRaw(r) ==
    LET tag == ReadInt(r, 1)
        id == ReadInt(tag[2], 8)
        res == ReadToEnd(id[2])
    IN  Result(tag[1], id[1], res[1])

ResultFromBytes(r) ==
    LET tag == ReadInt(r, 1)
        id == ReadInt(tag[2], 8)
        res == ReadToEnd(id[2])
    IN  Result(tag[1], id[1], Utf8Decode(res[1]))

\* Mutant: the list is read but the constructor's default [] is used.
EOFFromBytesDefaultDups(r) ==
    LET pt == ReadInt(r, 1)
        sent == ReadInt(pt[2], 8)
        count == ReadInt(sent[2], 4)
        dups == ReadMultipleInt(count[2], 8, count[1])
    IN  ProtocolTypeOr(pt[1], EOFMsg(pt[1], sent[1], <<>>))

EOFFromBytes(r) ==
    LET pt == ReadInt(r, 1)
        sent == ReadInt(pt[2], 8)
        count == ReadInt(sent[2], 4)
        dups == ReadMultipleInt(count[2], 8, count[1])
    IN  ProtocolTypeOr(pt[1], EOFMsg(pt[1], sent[1], dups[1]))

ResultEOFFromBytes(r) ==
    LET tag == ReadInt(r, 1)
        sent == ReadInt(tag[2], 8)
    IN  ResultEOF(tag[1], sent[1])

ACKFromBytes(r) ==
    LET id == ReadInt(r, 8)
        pt == ReadInt(id[2], 1)
    IN  ProtocolTypeOr(pt[1], AckMsg(id[1], pt[1]))

\* Message.from_bytes: dispatch on the type byte; an unknown type raises.
FromBytes(bs) ==
    LET t == ReadInt(Reader(bs), 1)
        r == t[2]
    IN  CASE t[1] = ANNOUNCE -> AnnounceFromBytes(r)
          [] t[1] = PROTOCOL -> ClientProtocolFromBytes(r)
          [] t[1] = RESULT -> ResultFromBytes(r)
          [] t[1] = EOF -> EOFFromBytes(r)
          [] t[1] = RESULT_EOF -> ResultEOFFromBytes(r)
          [] t[1] = ACK -> ACKFromBytes(r)
          [] t[1] \in EmptyTypes -> Empty(t[1])
          [] OTHER -> ParseError

-----------------------------------------------------------------------------
(* One message is serialized by its sender and parsed by its receiver.    *)

VARIABLES msg, wire, parsed

vars == <<msg, wire, parsed>>

TypeOK ==
    /\ msg \in Messages
    /\ wire \in Seq(Byte)
    /\ parsed \in Messages \cup {NoMsg, ParseError}

Init ==
    /\ msg \in Messages
    /\ wire = <<>>
    /\ parsed = NoMsg

\* The sender's send(message): message.to_bytes() written to the socket.
Serialize ==
    /\ wire = <<>>
    /\ wire' = ToBytes(msg)
    /\ UNCHANGED <<msg, parsed>>

\* The receiver's recv(): Message.from_bytes on the frame's body.
Parse ==
    /\ wire # <<>>
    /\ parsed = NoMsg
    /\ parsed' = FromBytes(wire)
    /\ UNCHANGED <<msg, wire>>

Delivered ==
    /\ parsed # NoMsg
    /\ UNCHANGED vars

Next == Serialize \/ Parse \/ Delivered

Spec == Init /\ [][Next]_vars

-----------------------------------------------------------------------------
\* Round trip (spec 8): every message parses back to itself, every field
\* in place, for every class of protocol.py.
RoundTrip == parsed # NoMsg => parsed = msg

\* The layout of spec 6, written out field by field: the bytes on the wire
\* are exactly the table's, so a peer built from the spec reads them.
SpecLayout(m) ==
    LET u8(v) == IntToBytes(v, 1)
        u32(v) == IntToBytes(v, 4)
        u64(v) == IntToBytes(v, 8)
        t == m.message_type
    IN  u8(t) \o
        CASE t = 0 -> u64(m.client_id)
          [] t = 1 -> u64(m.message_id) \o u8(m.protocol_type) \o Utf8Encode(m.content)
          [] t = 2 -> u8(m.tag_id) \o u64(m.message_id) \o Utf8Encode(m.result)
          [] t = 3 -> u8(m.protocol_type) \o u64(m.messages_sent)
                      \o u32(Len(m.possible_duplicates))
                      \o FoldLeft(LAMBDA a, d : a \o u64(d), <<>>, m.possible_duplicates)
          [] t = 6 -> u64(m.message_id) \o u8(m.protocol_type)
          [] t = 9 -> u8(m.tag_id) \o u64(m.messages_sent)
          [] OTHER -> <<>>

\* What to_bytes writes is the frame body spec 6 prescribes.
WireMatchesSpec == wire # <<>> => wire = SpecLayout(msg)
=============================================================================
