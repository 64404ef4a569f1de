------------------------------- MODULE MCCmp -------------------------------
(***************************************************************************)
(* A program writes a few values to a backend with limited room; what the  *)
(* backend holds, or a beginning of it, is read back by a program that     *)
(* knows which values to expect.  Or any bytes come from the wire: one     *)
(* object is read from them, asked what it is, and written again.          *)
(***************************************************************************)
EXTENDS Cmp

CONSTANTS
  MaxItems,   \* values written
  Rooms,      \* rooms of the backend, in bytes
  TailBytes   \* the bytes that may follow a marker from the wire

ASSUME BackendAssumption ==
  MaxItems \in Nat /\ Rooms \subseteq Nat /\ TailBytes \subseteq 0 .. BYTE - 1

VARIABLES
  ctx,     \* the cmp_ctx_t, first the writer's, then the reader's
  phase,   \* "write", "full" after a failed write, "read", "stuck" after a failed
           \* read; "wire" when bytes have come from the wire
  tried,   \* the value of the failed write
  sent,    \* the values whose writer returned true
  whole,   \* bytes in the backend after the last of them
  got,     \* what the readers returned
  input,   \* the bytes that came from the wire
  obj,     \* what cmp_read_object gave, << >> before it is called
  out      \* the result of writing the object, << >> before that

stream == << tried, sent, whole, got >>
wire == << input, obj, out >>
vars == << ctx, phase, stream, wire >>

\* A backend in memory: the bytes, the reader's place and the room.
MCWrite(c, bytes) ==
  IF Len(c.buf.bytes) + Len(bytes) <= c.buf.room
  THEN [n |-> Len(bytes), ctx |-> [c EXCEPT !.buf.bytes = @ \o bytes]]
  ELSE [n |-> 0, ctx |-> c]

MCRead(c, n) ==
  IF c.buf.pos + n <= Len(c.buf.bytes)
  THEN [ok |-> TRUE, ctx |-> [c EXCEPT !.buf.pos = @ + n],
        data |-> SubSeq(c.buf.bytes, c.buf.pos + 1, c.buf.pos + n)]
  ELSE [ok |-> FALSE, ctx |-> c, data |-> << >>]

Backend(bytes, room) == cmp_init([bytes |-> bytes, pos |-> 0, room |-> room])

\* Room for any header and, behind it, the longest data that are written here.
Fresh == Backend(<< >>, 1 + W64 + BYTE)

-----------------------------------------------------------------------------
(* The values: the two sides of every boundary of every encoding.          *)

Data(n) == [i \in 1 .. n |-> (7 * i) % BYTE]
Power(t) == Values[Width[t]]
NonNegative == {0, FIXMAP_MARKER - 1, FIXMAP_MARKER} \cup
               (UNION {{Power(t) - 1, Power(t)} : t \in {"UINT8", "UINT16", "UINT32"}}) \cup
               {Power("UINT64") \div 2 - 1}
Negative == {-1, MinNfix, MinNfix - 1} \cup
            (UNION {{-(Power(t) \div 2), -(Power(t) \div 2) - 1} :
                      t \in {"SINT8", "SINT16", "SINT32"}}) \cup {-(Power("SINT64") \div 2)}
Sizes == {0, FIXARRAY_SIZE, FIXARRAY_SIZE + 1, FIXSTR_SIZE, FIXSTR_SIZE + 1, BYTE - 1, BYTE}
LongSizes == Sizes \cup {Power("STR16") - 1, Power("STR16")}

Item(kind, values) == {[kind |-> kind, v |-> v] : v \in values}

Items ==
  Item("integer", NonNegative \cup Negative)
  \cup Item("uinteger", NonNegative \cup {Power("UINT64") - 1})
  \cup Item("decimal", {[float |-> Data(W32), double |-> Data(W64)],
                        [float |-> << >>, double |-> Data(W64)]})
  \cup Item("nil", {0}) \cup Item("bool", BOOLEAN) \cup Item("u8_as_bool", {0, 2})
  \cup Item("str", {Data(n) : n \in Sizes}) \cup Item("str_v4", {Data(n) : n \in Sizes})
  \cup Item("str_marker", LongSizes) \cup Item("str_marker_v4", LongSizes)
  \cup Item("bin", {Data(n) : n \in Sizes}) \cup Item("bin_marker", LongSizes)
  \cup Item("array", LongSizes) \cup Item("map", LongSizes)
  \cup Item("sfix", {MinNfix, -1, 0, FIXMAP_MARKER - 1})
  \cup Item("ext", {[type |-> ty, data |-> Data(n)] : ty \in {-1, 5},
              n \in {0, 1, 2, 3, 4, 8, 16, 17, BYTE}})
  \cup Item("ext_marker", {[type |-> -1, size |-> n] :
              n \in {0, 1, 2, 3, 4, 8, 16, 17, BYTE, Power("EXT16")}})
  \cup (UNION {Item(SIGNED[k], {-1, 1}) \cup Item(UNSIGNED[k], {1}) : k \in 1 .. 4})
  \cup (UNION {Item(t, {Data(3)}) : t \in STR \cup BIN})
  \cup (UNION {Item(t, {[type |-> -2, data |-> Data(3)]}) : t \in EXT})
  \cup (UNION {Item(t, {[type |-> 3, data |-> Data(FixextSize[t])]}) : t \in FIXEXT})

\* What may follow the first value.
Followers == {i \in Items : \/ i.kind \in {"nil", "UINT16", "STR16", "FIXEXT2", "array"}
                            \/ i.kind = "integer" /\ i.v \in {0, -1, MinNfix - 1}}

WriteItem(c, i) ==
  LET k == i.kind
      v == i.v
  IN CASE k = "integer" -> cmp_write_integer(c, v)
       [] k = "uinteger" -> cmp_write_uinteger(c, v)
       [] k = "decimal" -> cmp_write_decimal(c, v)
       [] k = "nil" -> cmp_write_nil(c)
       [] k = "bool" -> cmp_write_bool(c, v)
       [] k = "u8_as_bool" -> cmp_write_u8_as_bool(c, v)
       [] k \in {"str", "str_v4"} -> cmp_write_str(c, v, k = "str_v4")
       [] k \in {"str_marker", "str_marker_v4"} -> cmp_write_str_marker(c, v, k = "str_marker_v4")
       [] k = "bin" -> cmp_write_bin(c, v)
       [] k = "bin_marker" -> cmp_write_bin_marker(c, v)
       [] k = "array" -> cmp_write_array(c, v)
       [] k = "map" -> cmp_write_map(c, v)
       [] k = "sfix" -> cmp_write_sfix(c, v)
       [] k = "ext" -> cmp_write_ext(c, v.type, v.data)
       [] k = "ext_marker" -> cmp_write_ext_marker(c, v.type, v.size)
       [] k \in ToSet(SIGNED) -> WriteSigned(c, k, v)
       [] k \in ToSet(UNSIGNED) -> WriteUnsigned(c, k, v)
       [] k \in STR -> WriteStr(c, k, v)
       [] k \in BIN -> WriteBin(c, k, v)
       [] k \in EXT -> WriteExt(WriteExtMarker(c, k, v.type, Len(v.data)), v.data)
       [] k \in FIXEXT -> WriteExt(WriteFixextMarker(c, k, v.type), v.data)

\* A string or binary value read as an object first, then its data.
ViaObject(c, to(_, _, _), capacity) ==
  LET r == cmp_read_object(c) IN IF r.ok THEN to(r.ctx, r.val, capacity) ELSE r

ReadItem(c, i) ==
  LET k == i.kind
      v == i.v
  IN CASE k = "integer" -> ReadSigned(c, 4)
       [] k = "uinteger" -> ReadUnsigned(c, 4)
       [] k = "decimal" -> cmp_read_decimal(c)
       [] k = "nil" -> ReadSimple(c, "NIL")
       [] k \in {"bool", "u8_as_bool"} -> ReadSimple(c, "BOOLEAN")
       [] k \in {"str", "str_v4"} -> cmp_read_str(c, Len(v) + 1)
       [] k \in {"str_marker", "str_marker_v4"} -> cmp_read_str_size(c)
       [] k = "bin" -> cmp_read_bin(c, Len(v))
       [] k = "bin_marker" -> cmp_read_bin_size(c)
       [] k = "array" -> cmp_read_array(c)
       [] k = "map" -> cmp_read_map(c)
       [] k = "sfix" -> cmp_read_sfix(c)
       [] k = "ext" -> cmp_read_ext(c)
       [] k = "ext_marker" -> cmp_read_ext_marker(c)
       [] k \in ToSet(SIGNED) -> ReadExactly(c, k)
       [] k \in ToSet(UNSIGNED) -> ReadExactUnsigned(c, k)
       [] k \in STR -> ViaObject(c, cmp_object_to_str, Len(v) + 1)
       [] k \in BIN -> ViaObject(c, cmp_object_to_bin, Len(v))
       [] k \in EXT -> ReadExt(c, k)
       [] k \in FIXEXT -> ReadFixext(c, k)

\* The value a reader of i is to return.
Meaning(i) ==
  CASE i.kind = "decimal" -> IF i.v.float # << >> THEN i.v.float ELSE i.v.double
    [] i.kind = "u8_as_bool" -> i.v # 0
    [] OTHER -> i.v

-----------------------------------------------------------------------------
MaxTail == W64

Init ==
  /\ tried = << >> /\ sent = << >> /\ whole = 0 /\ got = << >> /\ obj = << >> /\ out = << >>
  /\ \/ /\ phase = "write" /\ input = << >>
        /\ \E room \in Rooms : ctx = Backend(<< >>, room)
     \/ /\ phase = "wire"
        /\ \E m \in 0 .. BYTE - 1, n \in 0 .. MaxTail :
             \E t \in [1 .. n -> TailBytes] : input = << m >> \o t
        /\ ctx = Backend(input, Len(input))

Send ==
  /\ phase = "write" /\ Len(sent) < MaxItems
  /\ \E i \in IF sent = << >> THEN Items ELSE Followers :
       LET r == WriteItem(ctx, i)
       IN /\ ctx' = r.ctx
          /\ IF r.ok
             THEN /\ sent' = Append(sent, i) /\ whole' = Len(r.ctx.buf.bytes)
                  /\ UNCHANGED << phase, tried >>
             ELSE phase' = "full" /\ tried' = << i >> /\ UNCHANGED << sent, whole >>
  /\ UNCHANGED << got, wire >>

\* Only the first n bytes reach the reader; the cuts next to a boundary.
Deliver ==
  /\ phase \in {"write", "full"} /\ sent # << >>
  /\ \E n \in {m \in 0 .. Len(ctx.buf.bytes) : m < 9 \/ whole - m < 9} :
       ctx' = Backend(SubSeq(ctx.buf.bytes, 1, n), n)
  /\ phase' = "read"
  /\ UNCHANGED << stream, wire >>

Receive ==
  /\ phase = "read" /\ Len(got) < Len(sent)
  /\ LET r == ReadItem(ctx, sent[Len(got) + 1])
     IN /\ ctx' = r.ctx
        /\ IF r.ok THEN got' = Append(got, r.val) /\ UNCHANGED phase
           ELSE phase' = "stuck" /\ UNCHANGED got
  /\ UNCHANGED << sent, tried, whole, wire >>

ReadObject ==
  /\ phase = "wire" /\ obj = << >>
  /\ LET r == cmp_read_object(ctx)
     IN ctx' = r.ctx /\ obj' = << r >>
  /\ UNCHANGED << phase, stream, input, out >>

WriteObject ==
  /\ obj # << >> /\ obj[1].ok /\ out = << >>
  /\ out' = << cmp_write_object(Fresh, obj[1].val) >>
  /\ UNCHANGED << ctx, phase, stream, input, obj >>

Next == Send \/ Deliver \/ Receive \/ ReadObject \/ WriteObject
Spec == Init /\ [][Next]_vars

-----------------------------------------------------------------------------
(* Properties                                                              *)

\* Every value that a reader returns is the value that was written at that
\* place of the stream, whatever was written before it and wherever the stream
\* is cut: the readers consume exactly what the writers of lib/c-msgpack.c wrote.
ValuesArrive == \A k \in DOMAIN got : got[k] = Meaning(sent[k])

\* A reader fails only on a stream that was cut, and leaves an error behind; a
\* reader that has all its values has consumed exactly the bytes of the values,
\* although a failed write may have left a part of another value behind them.
CutsAreNoticed ==
  /\ phase = "stuck" => ctx.error # "ERROR_NONE" /\ Len(ctx.buf.bytes) < whole
  /\ phase = "read" /\ Len(got) = Len(sent) => ctx.buf.pos = whole

\* A writer reports failure only if the encoding of its value does not fit the
\* room that is left, or if the value is an extended one without data: its writer
\* takes the count of the empty write, 0, for a failure (c-msgpack.c:910, 939,
\* 968), while strings and binary data avoid that write (c-msgpack.c:493).
FailsOnlyWhenFull ==
  phase = "full" =>
    \/ whole + Len(WriteItem(Fresh, tried[1]).ctx.buf.bytes) > ctx.buf.room
    \/ tried[1].kind = "ext" /\ tried[1].v.data = << >>

Consumed == SubSeq(input, 1, ctx.buf.pos)
IsObject == obj # << >> /\ obj[1].ok

\* cmp_write_object is the inverse of cmp_read_object: it writes again exactly
\* the bytes that were consumed, for every marker and every header; and
\* cmp_read_object refuses only the unused marker and headers that are cut.
\* cmp_write_object_v4 does the same, less the one type the old format lacks.
ObjectsAreRewritten ==
  /\ out # << >> =>
       /\ out[1].ok /\ out[1].ctx.buf.bytes = Consumed
       /\ LET v4 == cmp_write_object_v4(Fresh, obj[1].val)
          IN IF obj[1].val.type = "STR8" THEN ~v4.ok ELSE v4 = out[1]
  /\ obj # << >> /\ ~obj[1].ok =>
       \/ input[1] = Marker["UNUSED"] /\ ctx.error = "INVALID_TYPE_ERROR"
       \/ ctx.error \notin {"ERROR_NONE", "INVALID_TYPE_ERROR"} /\ Len(input) <= MaxTail

InRange(v, k, signed) ==
  LET n == Values[Width[SIGNED[k]]]
  IN IF signed THEN -(n \div 2) <= v /\ v < n \div 2 ELSE 0 <= v /\ v < n

Reader(c, k, signed) == IF signed THEN ReadSigned(c, k) ELSE ReadUnsigned(c, k)

\* Of all the encodings of a number, cmp_write_integer and cmp_write_uinteger
\* choose one of the least length, and of that one every typed reader of
\* lib/c-msgpack.c returns the number if it is in the range of its C type and
\* refuses it otherwise.
NumbersAreCanonical ==
  IsObject /\ (IsSigned(obj[1].val, 4) \/ IsUnsigned(obj[1].val, 4)) =>
    LET v == obj[1].val.as
        short == IF v < 0 THEN cmp_write_integer(Fresh, v)
                 ELSE cmp_write_uinteger(Fresh, v)
        again == Backend(short.ctx.buf.bytes, 0)
    IN /\ short.ok /\ Len(short.ctx.buf.bytes) <= ctx.buf.pos
       /\ \A k \in 1 .. 4, signed \in BOOLEAN :
            LET r == Reader(again, k, signed)
            IN r.ok = InRange(v, k, signed) /\ (r.ok => r.val = v)

\* Whatever the encoding, a typed reader returns a number of its C type and the
\* number that was encoded; what a narrow reader accepts a wider one does too,
\* and what the object "is" it can be taken "as".
ReadersAreSound ==
  IsObject =>
    \A k \in 1 .. 4, signed \in BOOLEAN :
      LET r == Reader(Backend(input, 0), k, signed)
      IN /\ r.ok => InRange(r.val, k, signed) /\ r.val = obj[1].val.as
         /\ r.ok /\ k < 4 => Reader(Backend(input, 0), k + 1, signed).ok
         /\ IsSigned(obj[1].val, k) => AsSigned(obj[1].val, k)
         /\ ~r.ok => r.ctx.error = "INVALID_TYPE_ERROR"
=============================================================================
