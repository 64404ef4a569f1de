-------------------------------- MODULE Cmp --------------------------------
(***************************************************************************)
(* The MessagePack library of lib/c-msgpack.c: what each family of writers *)
(* appends to the backend, what each family of readers accepts, where they *)
(* stop when the backend fails and which error they leave in the context.  *)
(*                                                                         *)
(* The C functions differ by the width of a field; here a family is one    *)
(* operator and the width is the object type.  Writers return [ok, ctx],   *)
(* readers [ok, ctx, val], val being the out parameter and meaningful only *)
(* when ok.  Bytes are numbers.  The layout of the marker byte and the     *)
(* width of the fields are constants, so that TLC, whose integers have 32  *)
(* bits, can cover every marker and every boundary of a smaller alphabet;  *)
(* the code's values are in the comments.                                  *)
(***************************************************************************)
EXTENDS Integers, Sequences, SequencesExt

CONSTANTS
  BYTE,           \* values of a byte: 256
  W16, W32, W64,  \* bytes of a 16, 32 and 64 bit field: 2, 4, 8
  FIXARRAY_SIZE,  \* 15
  FIXMAP_SIZE,    \* 15
  FIXSTR_SIZE,    \* 31
  write(_, _),    \* the cmp_writer callback: (ctx, bytes) -> [n, ctx]
  read(_, _)      \* the cmp_reader callback: (ctx, count) -> [ok, ctx, data]

\* The types of cmp_object_t whose marker is a byte of its own, in the order
\* of their markers; NIL stands first, then an unused byte, FALSE and TRUE.
MarkerOrder ==
  << "NIL", "UNUSED", "FALSE", "TRUE", "BIN8", "BIN16", "BIN32",
     "EXT8", "EXT16", "EXT32", "FLOAT", "DOUBLE",
     "UINT8", "UINT16", "UINT32", "UINT64", "SINT8", "SINT16", "SINT32", "SINT64",
     "FIXEXT1", "FIXEXT2", "FIXEXT4", "FIXEXT8", "FIXEXT16",
     "STR8", "STR16", "STR32", "ARRAY16", "ARRAY32", "MAP16", "MAP32" >>

FIXMAP_MARKER == BYTE \div 2
FIXARRAY_MARKER == FIXMAP_MARKER + FIXMAP_SIZE + 1
FIXSTR_MARKER == FIXARRAY_MARKER + FIXARRAY_SIZE + 1
NIL_MARKER == FIXSTR_MARKER + FIXSTR_SIZE + 1
NEGATIVE_FIXNUM_MARKER == NIL_MARKER + Len(MarkerOrder)

Marker == [t \in ToSet(MarkerOrder) |->
             NIL_MARKER + (CHOOSE i \in DOMAIN MarkerOrder : MarkerOrder[i] = t) - 1]

\* The smallest number a negative fixnum holds: -32.
MinNfix == NEGATIVE_FIXNUM_MARKER - BYTE

\* Bytes of the length or value that follows the marker of a type.
Width ==
  LET w8  == {"BIN8", "EXT8", "UINT8", "SINT8", "STR8"}
      w16 == {"BIN16", "EXT16", "UINT16", "SINT16", "STR16", "ARRAY16", "MAP16"}
      w32 == {"BIN32", "EXT32", "UINT32", "SINT32", "STR32", "ARRAY32", "MAP32", "FLOAT"}
      w64 == {"UINT64", "SINT64", "DOUBLE"}
  IN [t \in w8 \cup w16 \cup w32 \cup w64 |->
        IF t \in w8 THEN 1 ELSE IF t \in w16 THEN W16 ELSE IF t \in w32 THEN W32 ELSE W64]

FixextSize == [FIXEXT1 |-> 1, FIXEXT2 |-> 2, FIXEXT4 |-> 4, FIXEXT8 |-> 8,
               FIXEXT16 |-> 16]

\* Bytes are whole numbers of bits, field widths grow, the masks of the fixed
\* markers are powers of two aligned with the markers, every kind of fixed header
\* holds a size, and a negative fixnum is smaller than a byte.
LayoutFits ==
  /\ {BYTE, W16, W32, W64, FIXARRAY_SIZE, FIXMAP_SIZE, FIXSTR_SIZE} \subseteq Nat
  /\ BYTE % 2 = 0
  /\ 1 < W16 /\ W16 < W32 /\ W32 < W64
  /\ FIXMAP_MARKER % (FIXMAP_SIZE + 1) = 0
  /\ FIXARRAY_MARKER % (FIXARRAY_SIZE + 1) = 0
  /\ FIXSTR_MARKER % (FIXSTR_SIZE + 1) = 0
  /\ NEGATIVE_FIXNUM_MARKER < BYTE
  /\ -MinNfix < BYTE \div 2

ASSUME LayoutAssumption == LayoutFits

-----------------------------------------------------------------------------
(* Bytes of a number in network order, and back.                           *)

\* How many values n bytes have.
Values[n \in Nat] == IF n = 0 THEN 1 ELSE Values[n - 1] * BYTE

\* The n low bytes of v; two's complement when v is negative.
BigEndian(v, n) == [i \in 1 .. n |-> (v \div Values[n - i]) % BYTE]

Number(bytes) ==
  LET upTo[n \in 0 .. Len(bytes)] == IF n = 0 THEN 0 ELSE upTo[n - 1] * BYTE + bytes[n]
  IN upTo[Len(bytes)]

\* A number of n bytes read as a signed integer.
AsTwosComplement(u, n) == IF u < Values[n] \div 2 THEN u ELSE u - Values[n]

-----------------------------------------------------------------------------
(* The context and the single accesses to the backend.                     *)

cmp_init(b) == [buf |-> b, error |-> "ERROR_NONE"]

Success(c) == [ok |-> TRUE, ctx |-> c]
Value(c, v) == [ok |-> TRUE, ctx |-> c, val |-> v]
Failure(c, e) == [ok |-> FALSE, ctx |-> [c EXCEPT !.error = e]]

\* A second write, only after a first that succeeded.
Then(r, op(_)) == IF r.ok THEN op(r.ctx) ELSE r

\* The callback returns the count it wrote, tested for being zero: a payload
\* of no bytes counts as a failure.
Put(c, bytes, e) ==
  LET w == write(c, bytes) IN IF w.n # 0 THEN Success(w.ctx) ELSE Failure(w.ctx, e)

\* The numeric writers return the callback's count and leave the error alone.
PutNumber(c, bytes) == Put(c, bytes, c.error)

Take(c, n, e) ==
  LET r == read(c, n) IN IF r.ok THEN Value(r.ctx, r.data) ELSE Failure(r.ctx, e)

write_type_marker(c, t) == Put(c, << Marker[t] >>, "TYPE_MARKER_WRITING_ERROR")
write_fixed_value(c, v) == Put(c, << v >>, "FIXED_VALUE_WRITING_ERROR")
read_type_marker(c) == Take(c, 1, "TYPE_MARKER_READING_ERROR")

-----------------------------------------------------------------------------
(* Writing numbers, nil and booleans.                                      *)

cmp_write_pfix(c, v) ==
  IF v < FIXMAP_MARKER THEN write_fixed_value(c, v)
  ELSE Failure(c, "INPUT_VALUE_TOO_LARGE_ERROR")

cmp_write_nfix(c, v) ==
  IF v \in MinNfix .. -1 THEN write_fixed_value(c, v % BYTE)
  ELSE Failure(c, "INPUT_VALUE_TOO_LARGE_ERROR")

cmp_write_sfix(c, v) == IF v >= 0 THEN cmp_write_pfix(c, v) ELSE cmp_write_nfix(c, v)

\* A marker and the bytes of a value of its width.
WriteNumber(c, t, image) ==
  Then(write_type_marker(c, t), LAMBDA d : PutNumber(d, image))

\* cmp_write_s8 ... cmp_write_s64, cmp_write_u8 ... cmp_write_u64
WriteSigned(c, t, v) == WriteNumber(c, t, BigEndian(v, Width[t]))
WriteUnsigned(c, t, v) == WriteNumber(c, t, BigEndian(v, Width[t]))

cmp_write_uinteger(c, u) ==
  IF u < FIXMAP_MARKER THEN cmp_write_pfix(c, u)
  ELSE IF u < BYTE THEN WriteUnsigned(c, "UINT8", u)
  ELSE IF u < Values[W16] THEN WriteUnsigned(c, "UINT16", u)
  ELSE IF u < Values[W32] THEN WriteUnsigned(c, "UINT32", u)
  ELSE WriteUnsigned(c, "UINT64", u)

\* wrong: the least value of an sint8 is sent as an sint16
WrongInteger(c, d) ==
  IF d >= 0 THEN cmp_write_uinteger(c, d)
  ELSE IF d >= MinNfix THEN cmp_write_nfix(c, d)
  ELSE IF d > -(BYTE \div 2) THEN WriteSigned(c, "SINT8", d)
  ELSE IF d >= -(Values[W16] \div 2) THEN WriteSigned(c, "SINT16", d)
  ELSE IF d >= -(Values[W32] \div 2) THEN WriteSigned(c, "SINT32", d)
  ELSE WriteSigned(c, "SINT64", d)

cmp_write_integer(c, d) ==
  IF d >= 0 THEN cmp_write_uinteger(c, d)
  ELSE IF d >= MinNfix THEN cmp_write_nfix(c, d)
  ELSE IF d >= -(BYTE \div 2) THEN WriteSigned(c, "SINT8", d)
  ELSE IF d >= -(Values[W16] \div 2) THEN WriteSigned(c, "SINT16", d)
  ELSE IF d >= -(Values[W32] \div 2) THEN WriteSigned(c, "SINT32", d)
  ELSE WriteSigned(c, "SINT64", d)

\* A floating-point number is the bytes of its big-endian image.  A double is
\* that and the image of the equal float: << >> when conversion to float
\* changes it, as it does every double that is not a number.
cmp_write_decimal(c, d) ==
  IF d.float # << >> THEN WriteNumber(c, "FLOAT", d.float)
  ELSE WriteNumber(c, "DOUBLE", d.double)

cmp_write_nil(c) == write_type_marker(c, "NIL")
cmp_write_bool(c, b) == write_type_marker(c, IF b THEN "TRUE" ELSE "FALSE")
cmp_write_u8_as_bool(c, b) == cmp_write_bool(c, b # 0)

-----------------------------------------------------------------------------
(* Writing strings, binary data, arrays, maps and extended types.          *)

\* A marker and a length of its width, the low bytes of size.
WriteLength(c, t, size) ==
  Then(write_type_marker(c, t),
       LAMBDA d : Put(d, BigEndian(size, Width[t]), "LENGTH_WRITING_ERROR"))

\* A marker with the length in its low bits; size is a uint8_t.
WriteFixLength(c, marker, limit, size) ==
  IF size <= limit THEN write_fixed_value(c, marker + size)
  ELSE Failure(c, "INPUT_VALUE_TOO_LARGE_ERROR")

\* wrong: the writer is called for a payload of no bytes as well
WrongPayload(r, data) == Then(r, LAMBDA d : Put(d, data, "DATA_WRITING_ERROR"))

\* What follows the marker of a string or of binary data.
PutPayload(r, data) ==
  IF data = << >> THEN r
  ELSE Then(r, LAMBDA d : Put(d, data, "DATA_WRITING_ERROR"))

cmp_write_fixstr_marker(c, size) == WriteFixLength(c, FIXSTR_MARKER, FIXSTR_SIZE, size)

\* cmp_write_fixstr, cmp_write_str8 ... cmp_write_str32
WriteStr(c, t, data) ==
  PutPayload(IF t = "FIXSTR" THEN cmp_write_fixstr_marker(c, Len(data))
             ELSE WriteLength(c, t, Len(data)), data)

\* The shortest string type; version 4 of the format has no STR8.
StrType(size, v4) ==
  IF size <= FIXSTR_SIZE THEN "FIXSTR"
  ELSE IF size < BYTE /\ ~v4 THEN "STR8"
  ELSE IF size < Values[W16] THEN "STR16"
  ELSE "STR32"

cmp_write_str_marker(c, size, v4) ==
  LET t == StrType(size, v4)
  IN IF t = "FIXSTR" THEN cmp_write_fixstr_marker(c, size) ELSE WriteLength(c, t, size)

cmp_write_str(c, data, v4) == WriteStr(c, StrType(Len(data), v4), data)

\* cmp_write_bin8 ... cmp_write_bin32
WriteBin(c, t, data) == PutPayload(WriteLength(c, t, Len(data)), data)

BinType(size) ==
  IF size < BYTE THEN "BIN8" ELSE IF size < Values[W16] THEN "BIN16" ELSE "BIN32"

cmp_write_bin_marker(c, size) == WriteLength(c, BinType(size), size)
cmp_write_bin(c, data) == WriteBin(c, BinType(Len(data)), data)

cmp_write_fixarray(c, size) == WriteFixLength(c, FIXARRAY_MARKER, FIXARRAY_SIZE, size)
cmp_write_fixmap(c, size) == WriteFixLength(c, FIXMAP_MARKER, FIXMAP_SIZE, size)

cmp_write_array(c, size) ==
  IF size <= FIXARRAY_SIZE THEN cmp_write_fixarray(c, size)
  ELSE WriteLength(c, IF size < Values[W16] THEN "ARRAY16" ELSE "ARRAY32", size)

cmp_write_map(c, size) ==
  IF size <= FIXMAP_SIZE THEN cmp_write_fixmap(c, size)
  ELSE WriteLength(c, IF size < Values[W16] THEN "MAP16" ELSE "MAP32", size)

PutExtType(c, type) == Put(c, BigEndian(type, 1), "EXT_TYPE_WRITING_ERROR")

\* cmp_write_fixext1_marker ... cmp_write_fixext16_marker
WriteFixextMarker(c, t, type) ==
  Then(write_type_marker(c, t), LAMBDA d : PutExtType(d, type))

\* wrong: the application's type goes before the length
WrongExtMarker(c, t, type, size) ==
  Then(Then(write_type_marker(c, t), LAMBDA d : PutExtType(d, type)),
       LAMBDA d : Put(d, BigEndian(size, Width[t]), "LENGTH_WRITING_ERROR"))

\* cmp_write_ext8_marker ... cmp_write_ext32_marker
WriteExtMarker(c, t, type, size) ==
  Then(WriteLength(c, t, size), LAMBDA d : PutExtType(d, type))

\* Unlike PutPayload, the writer is called even for a payload of no bytes.
WriteExt(r, data) == Then(r, LAMBDA d : Put(d, data, "DATA_WRITING_ERROR"))

ExtType(size) ==
  IF \E t \in DOMAIN FixextSize : FixextSize[t] = size
  THEN CHOOSE t \in DOMAIN FixextSize : FixextSize[t] = size
  ELSE IF size < BYTE THEN "EXT8" ELSE IF size < Values[W16] THEN "EXT16" ELSE "EXT32"

cmp_write_ext_marker(c, type, size) ==
  LET t == ExtType(size)
  IN IF t \in DOMAIN FixextSize THEN WriteFixextMarker(c, t, type)
     ELSE WriteExtMarker(c, t, type, size)

cmp_write_ext(c, type, data) == WriteExt(cmp_write_ext_marker(c, type, Len(data)), data)

-----------------------------------------------------------------------------
(* Objects: the type of a value and what its header says.                  *)

SIGNED == << "SINT8", "SINT16", "SINT32", "SINT64" >>
UNSIGNED == << "UINT8", "UINT16", "UINT32", "UINT64" >>
STR == {"STR8", "STR16", "STR32"}
BIN == {"BIN8", "BIN16", "BIN32"}
EXT == {"EXT8", "EXT16", "EXT32"}
FIXEXT == DOMAIN FixextSize
ARRAY == {"ARRAY16", "ARRAY32"}
MAP == {"MAP16", "MAP32"}

\* A size handed to a fixed marker is cut to a uint8_t.
cmp_write_object(c, o) ==
  CASE o.type = "POSITIVE_FIXNUM" -> cmp_write_pfix(c, o.as)
    [] o.type = "NEGATIVE_FIXNUM" -> cmp_write_nfix(c, o.as)
    [] o.type = "FIXMAP" -> cmp_write_fixmap(c, o.as % BYTE)
    [] o.type = "FIXARRAY" -> cmp_write_fixarray(c, o.as % BYTE)
    [] o.type = "FIXSTR" -> cmp_write_fixstr_marker(c, o.as % BYTE)
    [] o.type = "NIL" -> cmp_write_nil(c)
    [] o.type = "BOOLEAN" -> cmp_write_bool(c, o.as)
    [] o.type \in STR \cup BIN \cup ARRAY \cup MAP -> WriteLength(c, o.type, o.as)
    [] o.type \in EXT -> WriteExtMarker(c, o.type, o.as.type, o.as.size)
    [] o.type \in FIXEXT -> WriteFixextMarker(c, o.type, o.as.type)
    [] o.type \in {"FLOAT", "DOUBLE"} -> WriteNumber(c, o.type, o.as)
    [] o.type \in ToSet(UNSIGNED) -> WriteUnsigned(c, o.type, o.as)
    [] o.type \in ToSet(SIGNED) -> WriteSigned(c, o.type, o.as)
    [] OTHER -> Failure(c, "INVALID_TYPE_ERROR")

cmp_write_object_v4(c, o) ==
  IF o.type = "STR8" THEN Failure(c, "INVALID_TYPE_ERROR") ELSE cmp_write_object(c, o)

Object(c, t, v) == Value(c, [type |-> t, as |-> v])

\* The object of type t whose value is decoded from n more bytes.
TakeObject(c, t, n, e, decode(_)) ==
  LET r == Take(c, n, e) IN IF r.ok THEN Object(r.ctx, t, decode(r.val)) ELSE r

\* Markers that hold the value themselves.
ReadFix(c, m) ==
  IF m < FIXMAP_MARKER THEN Object(c, "POSITIVE_FIXNUM", m)
  ELSE IF m < FIXARRAY_MARKER THEN Object(c, "FIXMAP", m % (FIXMAP_SIZE + 1))
  ELSE IF m < FIXSTR_MARKER THEN Object(c, "FIXARRAY", m % (FIXARRAY_SIZE + 1))
  ELSE Object(c, "FIXSTR", m % (FIXSTR_SIZE + 1))

ReadBinHeader(c, t) == TakeObject(c, t, Width[t], "LENGTH_READING_ERROR", Number)

\* wrong: the type is taken before the length
WrongExtHeader(c, t) ==
  LET r == Take(c, 1, "EXT_TYPE_READING_ERROR")
  IN IF r.ok THEN TakeObject(r.ctx, t, Width[t], "LENGTH_READING_ERROR",
         LAMBDA b : [type |-> AsTwosComplement(Number(r.val), 1), size |-> Number(b)])
     ELSE r

\* The length comes first, then the type.
ReadExtHeader(c, t) ==
  LET r == Take(c, Width[t], "LENGTH_READING_ERROR")
  IN IF r.ok THEN TakeObject(r.ctx, t, 1, "EXT_TYPE_READING_ERROR",
         LAMBDA b : [type |-> AsTwosComplement(Number(b), 1), size |-> Number(r.val)])
     ELSE r

ReadNumber(c, t) ==
  TakeObject(c, t, Width[t], "DATA_READING_ERROR",
             LAMBDA b : IF t \in {"FLOAT", "DOUBLE"} THEN b
                        ELSE IF t \in ToSet(SIGNED) THEN AsTwosComplement(Number(b), Width[t])
                        ELSE Number(b))

ReadFixextHeader(c, t) ==
  TakeObject(c, t, 1, "EXT_TYPE_READING_ERROR",
             LAMBDA b : [type |-> AsTwosComplement(Number(b), 1), size |-> FixextSize[t]])

ReadSizeHeader(c, t) == TakeObject(c, t, Width[t], "DATA_READING_ERROR", Number)

ReadAfterMarker(c, m) ==
  LET t == MarkerOrder[m - NIL_MARKER + 1]
  IN IF m < NIL_MARKER THEN ReadFix(c, m)
     ELSE IF m >= NEGATIVE_FIXNUM_MARKER THEN Object(c, "NEGATIVE_FIXNUM", m - BYTE)
     ELSE CASE t = "NIL" -> Object(c, "NIL", 0)
            [] t \in {"FALSE", "TRUE"} -> Object(c, "BOOLEAN", t = "TRUE")
            [] t \in BIN -> ReadBinHeader(c, t)
            [] t \in EXT -> ReadExtHeader(c, t)
            [] t \in FIXEXT -> ReadFixextHeader(c, t)
            [] t \in STR \cup ARRAY \cup MAP -> ReadSizeHeader(c, t)
            [] t = "UNUSED" -> Failure(c, "INVALID_TYPE_ERROR")
            [] OTHER -> ReadNumber(c, t)

cmp_read_object(c) ==
  LET r == read_type_marker(c) IN IF r.ok THEN ReadAfterMarker(r.ctx, r.val[1]) ELSE r

-----------------------------------------------------------------------------
(* Questions about an object.  The integer families are numbered: 1 is     *)
(* char, 2 short, 3 int and 4 long (and sinteger, uinteger).               *)

\* cmp_object_is_char ... cmp_object_is_long
IsSigned(o, k) == o.type = "NEGATIVE_FIXNUM" \/ \E i \in 1 .. k : o.type = SIGNED[i]

\* cmp_object_is_uchar ... cmp_object_is_ulong
IsUnsigned(o, k) == o.type = "POSITIVE_FIXNUM" \/ \E i \in 1 .. k : o.type = UNSIGNED[i]

\* cmp_object_is_float, _double, _nil, _bool
IsExactly(o, t) == o.type = t
cmp_object_is_str(o) == o.type \in STR \cup {"FIXSTR"}
cmp_object_is_bin(o) == o.type \in BIN
cmp_object_is_array(o) == o.type \in ARRAY \cup {"FIXARRAY"}
cmp_object_is_map(o) == o.type \in MAP \cup {"FIXMAP"}
cmp_object_is_ext(o) == o.type \in EXT \cup FIXEXT

\* wrong: an unsigned number of the same width is taken without looking at it
WrongAsSigned(o, k) == IsSigned(o, k) \/ IsUnsigned(o, k)

\* wrong: an unsigned number of the same width is never taken
WrongAsNarrower(o, k) == IsSigned(o, k) \/ IsUnsigned(o, k - 1)

\* Whether cmp_object_as_char ... cmp_object_as_long give a value: unsigned
\* numbers of the same width only when they fit.
AsSigned(o, k) ==
  \/ IsSigned(o, k)
  \/ IsUnsigned(o, k - 1)
  \/ o.type = UNSIGNED[k] /\ o.as < Values[Width[UNSIGNED[k]]] \div 2

\* cmp_object_as_uchar ... cmp_object_as_ulong
AsUnsigned(o, k) == IsUnsigned(o, k)

-----------------------------------------------------------------------------
(* Typed readers: an object of the wrong type has been consumed when they  *)
(* refuse it.                                                              *)

Typed(r, accepts(_)) ==
  IF ~r.ok THEN r
  ELSE IF accepts(r.val) THEN Value(r.ctx, r.val.as)
  ELSE Failure(r.ctx, "INVALID_TYPE_ERROR")

\* cmp_read_pfix, _nfix, _s8 ... _s64
ReadExactly(c, t) == Typed(cmp_read_object(c), LAMBDA o : IsExactly(o, t))
cmp_read_sfix(c) ==
  Typed(cmp_read_object(c), LAMBDA o : o.type \in {"POSITIVE_FIXNUM", "NEGATIVE_FIXNUM"})

\* cmp_read_char ... cmp_read_long
ReadSigned(c, k) == Typed(cmp_read_object(c), LAMBDA o : AsSigned(o, k))

\* cmp_read_u8 ... cmp_read_u64
ReadExactUnsigned(c, t) == ReadExactly(c, t)

\* cmp_read_uchar ... cmp_read_ulong
ReadUnsigned(c, k) == Typed(cmp_read_object(c), LAMBDA o : AsUnsigned(o, k))
cmp_read_uint(c) == ReadUnsigned(c, 3)

\* cmp_read_float, _double, _nil, _bool
ReadSimple(c, t) == ReadExactly(c, t)
cmp_read_decimal(c) == Typed(cmp_read_object(c), LAMBDA o : o.type \in {"FLOAT", "DOUBLE"})

cmp_read_str_size(c) == Typed(cmp_read_object(c), cmp_object_is_str)
cmp_read_bin_size(c) == Typed(cmp_read_object(c), cmp_object_is_bin)
cmp_read_array(c) == Typed(cmp_read_object(c), cmp_object_is_array)
cmp_read_map(c) == Typed(cmp_read_object(c), cmp_object_is_map)

\* The string and its terminator must fit capacity; the sum is a uint32_t.
TakeStr(c, size, capacity) ==
  IF (size + 1) % Values[W32] > capacity THEN Failure(c, "STR_DATA_LENGTH_TOO_LONG_ERROR")
  ELSE Take(c, size, "DATA_READING_ERROR")

TakeBin(c, size, capacity) ==
  IF size > capacity THEN Failure(c, "BIN_DATA_LENGTH_TOO_LONG_ERROR")
  ELSE Take(c, size, "DATA_READING_ERROR")

cmp_read_str(c, capacity) ==
  LET r == cmp_read_str_size(c) IN IF r.ok THEN TakeStr(r.ctx, r.val, capacity) ELSE r

cmp_read_bin(c, capacity) ==
  LET r == cmp_read_bin_size(c) IN IF r.ok THEN TakeBin(r.ctx, r.val, capacity) ELSE r

\* cmp_object_to_str and cmp_object_to_bin: as above, from an object already read.
cmp_object_to_str(c, o, capacity) ==
  IF cmp_object_is_str(o) THEN TakeStr(c, o.as, capacity) ELSE Failure(c, c.error)
cmp_object_to_bin(c, o, capacity) ==
  IF cmp_object_is_bin(o) THEN TakeBin(c, o.as, capacity) ELSE Failure(c, c.error)

\* The payload after the header of an extended type, and the type with it.
TakeExt(r) ==
  IF ~r.ok THEN r
  ELSE LET d == Take(r.ctx, r.val.size, "DATA_READING_ERROR")
       IN IF d.ok THEN Value(d.ctx, [type |-> r.val.type, data |-> d.val]) ELSE d

\* cmp_read_fixext1 ... cmp_read_fixext16, cmp_read_ext8 ... cmp_read_ext32
ReadFixext(c, t) == TakeExt(ReadExactly(c, t))
ReadExt(c, t) == TakeExt(ReadExactly(c, t))

cmp_read_ext_marker(c) == Typed(cmp_read_object(c), cmp_object_is_ext)
cmp_read_ext(c) == TakeExt(cmp_read_ext_marker(c))
=============================================================================
