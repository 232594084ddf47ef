----------------------------- MODULE MessageBytes -----------------------------
(***************************************************************************)
(* The byte-level reader and writer the codecs are built on               *)
(* (commons.message_utils.MessageBytesReader / MessageBytesWriter, which  *)
(* is not under src/; modelled from spec 6: big-endian integers of fixed  *)
(* width, count-prefixed lists, UTF-8 text read to the end of the body).  *)
(* Bytes are the naturals 0..255 and a byte string is a sequence of them. *)
(* Integers are split by repeated division, so no intermediate value      *)
(* exceeds the one being encoded.  Used by TLC only.                      *)
(***************************************************************************)
EXTENDS Naturals, Sequences, SequencesExt

Byte == 0..255

\* int.to_bytes(n, "big"): the n low-order base-256 digits of v, most
\* significant first.
RECURSIVE IntToBytes(_, _)
IntToBytes(v, n) ==
    IF n = 0 THEN <<>> ELSE Append(IntToBytes(v \div 256, n - 1), v % 256)

\* int.from_bytes(bs, "big"); the empty string is 0.
BytesToInt(bs) == FoldLeft(LAMBDA acc, b : acc * 256 + b, 0, bs)

\* A reader over a byte string with its offset.
Reader(bs) == [buf |-> bs, pos |-> 0]

\* The next n bytes, clipped at the end of the buffer as a slice is.
ReadBytes(r, n) ==
    SubSeq(r.buf, r.pos + 1, IF r.pos + n <= Len(r.buf) THEN r.pos + n ELSE Len(r.buf))

Skip(r, n) == [r EXCEPT !.pos = @ + n]

\* read_int(n): <<value, reader after it>>.
ReadInt(r, n) == <<BytesToInt(ReadBytes(r, n)), Skip(r, n)>>

\* read_to_end(): the rest of the buffer.
ReadToEnd(r) == <<ReadBytes(r, Len(r.buf) - r.pos), Skip(r, Len(r.buf) - r.pos)>>

\* read_multiple_object(n, count, cls): count objects of n bytes each,
\* each parsed by cls.from_bytes, and the reader after them.
ReadMultipleObject(r, n, count, FromBytes(_)) ==
    <<[i \in 1..count |-> FromBytes(ReadBytes(Skip(r, (i - 1) * n), n))],
      Skip(r, count * n)>>

\* read_multiple_int(n, count): count integers of n bytes each.
ReadMultipleInt(r, n, count) == ReadMultipleObject(r, n, count, BytesToInt)

\* write_multiple_int(xs, n): each element's to_bytes(n), in list order.
WriteMultiple(xs, ToBytes(_)) ==
    FoldLeft(LAMBDA acc, x : acc \o ToBytes(x), <<>>, xs)

\* str.encode("utf-8") of a string of code points below 2048: one byte
\* below 128, else the two-byte form 110xxxxx 10xxxxxx.
Utf8Char(c) == IF c < 128 THEN <<c>> ELSE <<192 + (c \div 64), 128 + (c % 64)>>

Utf8Encode(s) == FoldLeft(LAMBDA acc, c : acc \o Utf8Char(c), <<>>, s)

\* bytes.decode("utf-8") of one- and two-byte sequences.
RECURSIVE Utf8Decode(_)
Utf8Decode(bs) ==
    IF bs = <<>> THEN <<>>
    ELSE IF Head(bs) < 128 THEN <<Head(bs)>> \o Utf8Decode(Tail(bs))
    ELSE <<(Head(bs) - 192) * 64 + (bs[2] - 128)>> \o Utf8Decode(Tail(Tail(bs)))
=============================================================================
