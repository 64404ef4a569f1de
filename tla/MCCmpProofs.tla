---------------------------- MODULE MCCmpProofs ----------------------------
(***************************************************************************)
(* Proofs about the MessagePack library on a backend in memory, for every  *)
(* layout of the markers, every width of the fields, every room and every  *)
(* bytes from the wire.                                                    *)
(*                                                                         *)
(* The bytes of an object are its Header (CmpProofs).  A read of them in a *)
(* memory that holds them, or a beginning of them, gives the object or the *)
(* error of a cut (ReadsAs); a write of them adds them to the memory or    *)
(* fails (Wrote).  Any bytes from the wire begin with the header of some   *)
(* object (WireBegins), so that what is read is written again as it was,   *)
(* and the readers and writers of numbers can be compared by the object's  *)
(* type alone (As, Canonical).                                             *)
(*                                                                         *)
(* A value of the stream is the header of an object and the data behind it *)
(* (Encodes): what its writer adds, and what its reader makes of that      *)
(* object.  The inductive invariant of the stream (Stream) places every    *)
(* value that was sent in the bytes, also in those of which only a         *)
(* beginning was delivered, and the reader at the end of one of them.      *)
(***************************************************************************)
EXTENDS MCCmp, CmpProofs

\* The backend is the memory of MCCmp, as in MCCmp.cfg.
BackendIsMemory ==
  /\ \A c, b : write(c, b) = MCWrite(c, b)
  /\ \A c, n : read(c, n) = MCRead(c, n)

-----------------------------------------------------------------------------
(* What comes from the wire.                                               *)

FromWire ==
  /\ input \in Seq(Byte) /\ Len(input) \in 1 .. 1 + MaxTail
  /\ obj = << >> => ctx = Backend(input, Len(input))
  /\ obj # << >> => /\ obj = << cmp_read_object(Backend(input, Len(input))) >>
                    /\ ctx = obj[1].ctx
  /\ out # << >> => /\ obj # << >> /\ obj[1].ok
                    /\ out = << cmp_write_object(Fresh, obj[1].val) >>

WireInv ==
  /\ phase = "wire" => FromWire
  /\ phase # "wire" => obj = << >> /\ out = << >>

LEMMA InputFacts ==
  ASSUME NEW m \in Byte, NEW n \in 0 .. MaxTail, NEW t \in [1 .. n -> TailBytes]
  PROVE  << m >> \o t \in Seq(Byte) /\ Len(<< m >> \o t) \in 1 .. 1 + MaxTail
<1>1. n \in Nat /\ n <= MaxTail /\ MaxTail \in Nat
  BY LayoutFacts DEF MaxTail
<1>2. t \in Seq(Byte) /\ Len(t) = n
  <2>1. t \in Seq(TailBytes) /\ Len(t) = n
    BY <1>1
  <2>2. TailBytes \subseteq Byte
    BY BackendAssumption DEF Byte
  <2> QED
    BY <2>1, <2>2
<1>3. << m >> \in Seq(Byte) /\ Len(<< m >>) = 1
  OBVIOUS
<1>4. << m >> \o t \in Seq(Byte) /\ Len(<< m >> \o t) = 1 + n
  BY <1>2, <1>3
<1> QED
  BY <1>1, <1>4

\* obj is what cmp_read_object gives for the bytes from the wire, and out what
\* cmp_write_object makes of it (c-msgpack.c:1013, 2031), in every reachable state.
THEOREM WireInvariant == Spec => []WireInv
<1>1. ASSUME Init PROVE WireInv
  <2>1. CASE phase = "write"
    BY <1>1, <2>1 DEF Init, WireInv
  <2>2. CASE phase = "wire"
    <3>1. PICK m \in Byte, n \in 0 .. MaxTail : \E t \in [1 .. n -> TailBytes] : input = << m >> \o t
      BY <1>1, <2>2 DEF Init, Byte
    <3>2. PICK t \in [1 .. n -> TailBytes] : input = << m >> \o t
      BY <3>1
    <3>3. input \in Seq(Byte) /\ Len(input) \in 1 .. 1 + MaxTail
      BY <3>2, InputFacts
    <3>4. obj = << >> /\ out = << >> /\ ctx = Backend(input, Len(input))
      BY <1>1, <2>2 DEF Init
    <3> QED
      BY <2>2, <3>3, <3>4 DEF WireInv, FromWire
  <2> QED
    BY <1>1, <2>1, <2>2 DEF Init
<1>2. WireInv /\ [Next]_vars => WireInv'
  <2> SUFFICES ASSUME WireInv, [Next]_vars PROVE WireInv'
    OBVIOUS
  <2>1. CASE Send
    BY <2>1 DEF WireInv, Send, wire
  <2>2. CASE Deliver
    BY <2>2 DEF WireInv, Deliver, wire
  <2>3. CASE Receive
    BY <2>3 DEF WireInv, Receive, wire
  <2>4. CASE ReadObject
    BY <2>4 DEF WireInv, FromWire, ReadObject
  <2>5. CASE WriteObject
    BY <2>5 DEF WireInv, FromWire, WriteObject
  <2>6. CASE UNCHANGED vars
    BY <2>6 DEF WireInv, FromWire, vars, wire
  <2> QED
    BY <2>1, <2>2, <2>3, <2>4, <2>5, <2>6 DEF Next
<1> QED
  BY <1>1, <1>2, PTL DEF Spec

-----------------------------------------------------------------------------
(* The memory.                                                             *)

\* Its context: the bytes b, the reader at p.
Mem(b, p, room, e) == [buf |-> [bytes |-> b, pos |-> p, room |-> room], error |-> e]

LEMMA MemFields ==
  ASSUME NEW b, NEW p, NEW room, NEW e
  PROVE  /\ Mem(b, p, room, e).buf.bytes = b /\ Mem(b, p, room, e).buf.pos = p
         /\ Mem(b, p, room, e).buf.room = room /\ Mem(b, p, room, e).error = e
         /\ \A f : Failure(Mem(b, p, room, e), f) = [ok |-> FALSE, ctx |-> Mem(b, p, room, f)]
         /\ Backend(b, room) = Mem(b, 0, room, "ERROR_NONE")
<1>1. /\ Mem(b, p, room, e).buf.bytes = b /\ Mem(b, p, room, e).buf.pos = p
      /\ Mem(b, p, room, e).buf.room = room /\ Mem(b, p, room, e).error = e
  BY DEF Mem
<1>2. ASSUME NEW f
      PROVE  Failure(Mem(b, p, room, e), f) = [ok |-> FALSE, ctx |-> Mem(b, p, room, f)]
  <2>1. [Mem(b, p, room, e) EXCEPT !.error = f] = Mem(b, p, room, f)
    BY DEF Mem
  <2> QED
    BY <2>1 DEF Failure
<1>3. Backend(b, room) = Mem(b, 0, room, "ERROR_NONE")
  BY DEF Mem, Backend, cmp_init
<1> QED
  BY <1>1, <1>2, <1>3

\* The results of a read.
Hit(c, s) == [ok |-> TRUE, ctx |-> c, data |-> s]
Miss(c) == [ok |-> FALSE, ctx |-> c, data |-> << >>]

LEMMA MemGoes ==
  ASSUME BackendIsMemory, NEW b, NEW p \in Nat, NEW room, NEW e, NEW n \in Nat,
         Len(b) \in Nat, p + n <= Len(b)
  PROVE  read(Mem(b, p, room, e), n) = Hit(Mem(b, p + n, room, e), SubSeq(b, p + 1, p + n))
<1> DEFINE c == Mem(b, p, room, e)
<1>1. c.buf = [bytes |-> b, pos |-> p, room |-> room] /\ c.error = e
  BY DEF Mem
<1>2. [c EXCEPT !.buf.pos = p + n] = Mem(b, p + n, room, e)
  BY DEF Mem
<1>3. c.buf.pos + n <= Len(c.buf.bytes)
  BY <1>1
<1>4. MCRead(c, n) = [ok |-> TRUE, ctx |-> [c EXCEPT !.buf.pos = c.buf.pos + n],
                      data |-> SubSeq(c.buf.bytes, c.buf.pos + 1, c.buf.pos + n)]
  BY <1>3 DEF MCRead
<1>5. c.buf.pos = p /\ c.buf.bytes = b
  BY <1>1
<1> HIDE DEF c
<1>6. read(c, n) = MCRead(c, n)
  BY DEF BackendIsMemory
<1>7. read(c, n) = Hit(Mem(b, p + n, room, e), SubSeq(b, p + 1, p + n))
  BY <1>2, <1>4, <1>5, <1>6 DEF Hit
<1> QED
  BY <1>7 DEF c

LEMMA MemEnds ==
  ASSUME BackendIsMemory, NEW b, NEW p \in Nat, NEW room, NEW e, NEW n \in Nat,
         Len(b) \in Nat, ~(p + n <= Len(b))
  PROVE  read(Mem(b, p, room, e), n) = Miss(Mem(b, p, room, e))
<1> DEFINE c == Mem(b, p, room, e)
<1>1. ~(c.buf.pos + n <= Len(c.buf.bytes))
  BY DEF Mem
<1>2. MCRead(c, n) = Miss(c)
  BY <1>1 DEF MCRead, Miss
<1> QED
  BY <1>2 DEF BackendIsMemory

\* From p on, the bytes b begin as s does, as far as they go.
Agrees(s, b, p) == \A i \in 1 .. Len(s) : p + i <= Len(b) => b[p + i] = s[i]

LEMMA AgreesIs ==
  ASSUME NEW b \in Seq(Byte), NEW p \in Nat, NEW s \in Seq(Byte), Agrees(s, b, p),
         p + Len(s) <= Len(b)
  PROVE  SubSeq(b, p + 1, p + Len(s)) = s
<1>1. PICK n \in Nat : n = Len(s)
  OBVIOUS
<1>2. Len(b) \in Nat /\ p + n <= Len(b)
  BY <1>1
<1>3. /\ SubSeq(b, p + 1, p + n) \in Seq(Byte) /\ Len(SubSeq(b, p + 1, p + n)) = n
      /\ \A i \in 1 .. n : SubSeq(b, p + 1, p + n)[i] = b[p + i]
  BY <1>2
<1>4. PICK x \in Seq(Byte) : x = SubSeq(b, p + 1, p + n)
  BY <1>3, Zenon
<1>5. \A i \in 1 .. n : b[p + i] = s[i]
  <2>1. ASSUME NEW i \in 1 .. n PROVE p + i <= Len(b)
    BY <1>2
  <2> QED
    BY <1>1, <2>1 DEF Agrees
<1>6. Len(x) = Len(s) /\ \A i \in 1 .. Len(s) : x[i] = s[i]
  BY <1>1, <1>3, <1>4, <1>5
<1>7. x = s
  BY <1>6
<1> QED
  BY <1>1, <1>4, <1>7

LEMMA AgreesBoth ==
  ASSUME NEW b, NEW p \in Nat, NEW s \in Seq(Byte), NEW t \in Seq(Byte),
         Agrees(s \o t, b, p)
  PROVE  Agrees(s, b, p) /\ Agrees(t, b, p + Len(s))
<1>1. PICK k \in Nat : k = Len(s)
  OBVIOUS
<1>2. PICK l \in Nat : l = Len(t)
  OBVIOUS
<1>3. /\ Len(s \o t) = k + l
      /\ \A i \in 1 .. k : (s \o t)[i] = s[i] /\ i \in 1 .. k + l
      /\ \A i \in 1 .. l : (s \o t)[k + i] = t[i] /\ k + i \in 1 .. k + l
  BY <1>1, <1>2
<1>4. \A i \in 1 .. k + l : p + i <= Len(b) => b[p + i] = (s \o t)[i]
  BY <1>3 DEF Agrees
<1>5. Agrees(s, b, p)
  BY <1>1, <1>3, <1>4 DEF Agrees
<1>6. \A i \in 1 .. l : (p + k) + i <= Len(b) => b[(p + k) + i] = t[i]
  <2>1. ASSUME NEW i \in 1 .. l, (p + k) + i <= Len(b)
        PROVE  b[(p + k) + i] = t[i]
    <3>1. PICK j \in 1 .. k + l : j = k + i
      BY <1>3
    <3>2. p + j = (p + k) + i
      BY <3>1
    <3>3. b[p + j] = (s \o t)[j] /\ (s \o t)[j] = t[i]
      BY <1>3, <1>4, <2>1, <3>1, <3>2
    <3> QED
      BY <3>2, <3>3
  <2> QED
    BY <2>1
<1>7. Agrees(t, b, p + k)
  BY <1>2, <1>6 DEF Agrees
<1> QED
  BY <1>1, <1>5, <1>7

LEMMA AgreesJoin ==
  ASSUME NEW b, NEW p \in Nat, NEW s \in Seq(Byte), NEW t \in Seq(Byte),
         Agrees(s, b, p), Agrees(t, b, p + Len(s))
  PROVE  Agrees(s \o t, b, p)
<1>1. PICK k \in Nat : k = Len(s)
  OBVIOUS
<1>2. PICK l \in Nat : l = Len(t)
  OBVIOUS
<1>3. /\ Len(s \o t) = k + l
      /\ \A i \in 1 .. k : (s \o t)[i] = s[i]
      /\ \A i \in 1 .. l : (s \o t)[k + i] = t[i]
  BY <1>1, <1>2
<1>4. ASSUME NEW i \in 1 .. k + l, p + i <= Len(b)
      PROVE  b[p + i] = (s \o t)[i]
  <2>1. CASE i \in 1 .. k
    BY <1>1, <1>3, <1>4, <2>1 DEF Agrees
  <2>2. CASE ~(i \in 1 .. k)
    <3>1. PICK j \in 1 .. l : i = k + j
      <4>1. i - k \in 1 .. l /\ i = k + (i - k)
        BY <2>2
      <4> QED
        BY <4>1
    <3>2. (p + k) + j = p + i
      BY <3>1
    <3>3. b[(p + k) + j] = t[j]
      BY <1>1, <1>2, <1>4, <3>2 DEF Agrees
    <3> QED
      BY <1>3, <3>1, <3>2, <3>3
  <2> QED
    BY <2>1, <2>2
<1> QED
  BY <1>3, <1>4 DEF Agrees

\* The result r of one read of the bytes s up to q: they are there, or the bytes
\* end before.
Fetched(r, b, p, q, room, e, s) ==
  /\ q <= Len(b) => r = Hit(Mem(b, q, room, e), s)
  /\ ~(q <= Len(b)) => r = Miss(Mem(b, p, room, e))

LEMMA MemReads ==
  ASSUME BackendIsMemory, NEW b \in Seq(Byte), NEW p \in Nat, NEW room, NEW e,
         NEW s \in Seq(Byte), Agrees(s, b, p)
  PROVE  Fetched(read(Mem(b, p, room, e), Len(s)), b, p, p + Len(s), room, e, s)
<1>1. Len(b) \in Nat /\ Len(s) \in Nat
  OBVIOUS
<1>2. ASSUME p + Len(s) <= Len(b)
      PROVE  read(Mem(b, p, room, e), Len(s)) = Hit(Mem(b, p + Len(s), room, e), s)
  <2>1. SubSeq(b, p + 1, p + Len(s)) = s
    BY <1>2, AgreesIs
  <2>2. read(Mem(b, p, room, e), Len(s))
          = Hit(Mem(b, p + Len(s), room, e), SubSeq(b, p + 1, p + Len(s)))
    BY <1>1, <1>2, MemGoes
  <2> QED
    BY <2>1, <2>2
<1>3. ASSUME ~(p + Len(s) <= Len(b))
      PROVE  read(Mem(b, p, room, e), Len(s)) = Miss(Mem(b, p, room, e))
  BY <1>1, <1>3, MemEnds
<1> QED
  BY <1>2, <1>3 DEF Fetched

LEMMA JoinFacts ==
  ASSUME NEW S, NEW s \in Seq(S), NEW t \in Seq(S)
  PROVE  s \o t \in Seq(S) /\ Len(s \o t) = Len(s) + Len(t)
OBVIOUS

-----------------------------------------------------------------------------
(* Reading an object from its header, and from a beginning of it.          *)

\* The reader found the end of the bytes b.
Cut(r, b) == r.ok = FALSE /\ r.ctx.error \in ReadErrors /\ r.ctx.buf.bytes = b

\* The result r of reading up to q the object of type t with the value v.
ReadsAs(r, b, q, room, e, t, v) ==
  /\ q <= Len(b) => r = Object(Mem(b, q, room, e), t, v)
  /\ ~(q <= Len(b)) => Cut(r, b)

LEMMA FailureCuts ==
  ASSUME NEW b, NEW p, NEW room, NEW e, NEW f \in ReadErrors
  PROVE  Cut(Failure(Mem(b, p, room, e), f), b)
<1>1. Failure(Mem(b, p, room, e), f) = [ok |-> FALSE, ctx |-> Mem(b, p, room, f)]
  BY MemFields
<1>2. Mem(b, p, room, f).error = f /\ Mem(b, p, room, f).buf.bytes = b
  BY MemFields
<1> QED
  BY <1>1, <1>2 DEF Cut

LEMMA CutBeforeMarker ==
  ASSUME NEW c, NEW r, r = read(c, 1), ~r.ok
  PROVE  cmp_read_object(c) = Failure(r.ctx, "TYPE_MARKER_READING_ERROR")
<1>1. /\ ~read_type_marker(c).ok
      /\ read_type_marker(c) = Failure(r.ctx, "TYPE_MARKER_READING_ERROR")
  BY TakeIs DEF read_type_marker
<1> QED
  BY <1>1 DEF cmp_read_object

\* The field of Size(t) bytes, behind the marker and the length.
LEMMA ReadsHeader ==
  ASSUME BackendIsMemory, NEW b \in Seq(Byte), NEW p \in Nat, NEW room, NEW e,
         NEW t \in Fixed \cup Marked, NEW v, Legal(t, v), Agrees(Header(t, v), b, p)
  PROVE  ReadsAs(cmp_read_object(Mem(b, p, room, e)), b, p + Len(Header(t, v)), room, e, t, v)
<1> DEFINE c == Mem(b, p, room, e)
           m == << First(t, v) >>
<1>1. /\ First(t, v) \in Byte
      /\ t \in Fixed => Header(t, v) = m
      /\ t \in Marked \ EXT => Header(t, v) = m \o Chunk(t, v)
      /\ t \in EXT => /\ BigEndian(v.size, Width[t]) \in Seq(Byte)
                      /\ Header(t, v) = (m \o BigEndian(v.size, Width[t])) \o Chunk(t, v)
  BY HeaderIs
<1>2. m \in Seq(Byte) /\ Len(m) = 1 /\ m[1] = First(t, v)
  BY <1>1
<1>3. PICK n \in Nat : n = 1
  OBVIOUS
<1>4. Len(b) \in Nat
  OBVIOUS
<1> HIDE DEF c
<1>5. ASSUME Agrees(m, b, p)
      PROVE  /\ p + 1 <= Len(b) => read(c, 1) = Hit(Mem(b, p + 1, room, e), m)
             /\ ~(p + 1 <= Len(b)) => Cut(cmp_read_object(c), b)
  <2> HIDE DEF m
  <2>1. /\ p + 1 <= Len(b) => read(c, n) = Hit(Mem(b, p + n, room, e), m)
        /\ ~(p + 1 <= Len(b)) => read(c, n) = Miss(c)
    <3>1. Fetched(read(c, Len(m)), b, p, p + Len(m), room, e, m)
      BY <1>2, <1>5, MemReads DEF c
    <3>2. Fetched(read(c, n), b, p, p + n, room, e, m)
      BY <1>2, <1>3, <3>1
    <3> QED
      BY <1>3, <3>2 DEF Fetched, c
  <2>2. ASSUME ~(p + 1 <= Len(b)) PROVE Cut(cmp_read_object(c), b)
    <3>1. PICK r : r = read(c, 1) /\ r = Miss(c)
      BY <1>3, <2>1, <2>2
    <3>2. ~r.ok /\ r.ctx = c
      BY <3>1 DEF Miss
    <3>3. cmp_read_object(c) = Failure(c, "TYPE_MARKER_READING_ERROR")
      BY <3>1, <3>2, CutBeforeMarker
    <3> QED
      BY <3>3, FailureCuts DEF ReadErrors, c
  <2> QED
    BY <1>3, <2>1, <2>2
<1>6. CASE t \in Fixed
  <2>1. Header(t, v) = m
    BY <1>1, <1>6
  <2> HIDE DEF m
  <2>2. Agrees(m, b, p) /\ p + Len(Header(t, v)) = p + 1
    BY <1>2, <2>1
  <2>3. ASSUME p + 1 <= Len(b) PROVE cmp_read_object(c) = Object(Mem(b, p + 1, room, e), t, v)
    <3>1. PICK r : r = read(c, 1) /\ r = Hit(Mem(b, p + 1, room, e), m)
      BY <1>5, <2>2, <2>3
    <3>2. r.ok /\ r.ctx = Mem(b, p + 1, room, e) /\ r.data = << First(t, v) >>
      BY <3>1 DEF Hit, m
    <3> QED
      BY <1>6, <3>1, <3>2, ReadsFixed
  <2> QED
    BY <1>5, <2>2, <2>3 DEF ReadsAs, c
<1>7. CASE t \in Marked \ EXT
  <2> DEFINE s == Chunk(t, v)
  <2>1. s \in Seq(Byte) /\ Len(s) = Size(t)
    BY <1>7, ChunkIs
  <2>2. Header(t, v) = m \o s
    BY <1>1, <1>7
  <2> HIDE DEF m, s
  <2>3. PICK k \in Nat : k = Len(s) /\ k = Size(t)
    BY <2>1
  <2>4. Len(m \o s) = 1 + k
    <3>1. Len(m \o s) = Len(m) + Len(s)
      BY <1>2, <2>1, JoinFacts
    <3> QED
      BY <1>2, <2>3, <3>1
  <2>5. Agrees(m, b, p) /\ Agrees(s, b, p + 1)
    BY <1>2, <2>1, <2>2, AgreesBoth
  <2>6. PICK o \in Nat : o = p + 1
    OBVIOUS
  <2>7. PICK q \in Nat : q = o + k /\ q = p + Len(Header(t, v))
    BY <2>2, <2>4, <2>6
  <2>8. CASE ~(o <= Len(b))
    <3>1. ~(q <= Len(b))
      BY <1>4, <2>7, <2>8
    <3>2. Cut(cmp_read_object(c), b)
      BY <1>5, <2>5, <2>6, <2>8
    <3> QED
      BY <2>7, <3>1, <3>2 DEF ReadsAs, c
  <2>9. CASE o <= Len(b)
    <3>1. PICK r : r = read(c, 1) /\ r = Hit(Mem(b, o, room, e), m)
      BY <1>5, <2>5, <2>6, <2>9
    <3>2. r.ok /\ r.ctx = Mem(b, o, room, e) /\ r.data = << First(t, v) >>
      BY <3>1 DEF Hit, m
    <3>3. /\ q <= Len(b) => read(Mem(b, o, room, e), k) = Hit(Mem(b, q, room, e), s)
          /\ ~(q <= Len(b)) => read(Mem(b, o, room, e), k) = Miss(Mem(b, o, room, e))
      <4>1. Fetched(read(Mem(b, o, room, e), Len(s)), b, o, o + Len(s), room, e, s)
        BY <2>1, <2>5, <2>6, MemReads
      <4>2. Fetched(read(Mem(b, o, room, e), k), b, o, q, room, e, s)
        BY <2>3, <2>7, <4>1
      <4> QED
        BY <4>2 DEF Fetched
    <3>4. PICK y : y = read(r.ctx, Size(t))
      OBVIOUS
    <3>5. y = read(Mem(b, o, room, e), k)
      BY <2>3, <3>2, <3>4
    <3>6. CASE q <= Len(b)
      <4>1. y.ok /\ y.ctx = Mem(b, q, room, e) /\ y.data = Chunk(t, v)
        BY <3>3, <3>5, <3>6 DEF Hit, s
      <4>2. cmp_read_object(c) = Object(y.ctx, t, v)
        BY <1>7, <3>1, <3>2, <3>4, <4>1, ReadsField
      <4> QED
        BY <2>7, <3>6, <4>1, <4>2 DEF ReadsAs, c
    <3>7. CASE ~(q <= Len(b))
      <4>1. ~y.ok /\ y.ctx = Mem(b, o, room, e)
        BY <3>3, <3>5, <3>7 DEF Miss
      <4>2. cmp_read_object(c) = ReadAfterMarker(r.ctx, Marker[t])
        BY <1>7, <3>1, <3>2, AfterFirst, FirstIs
      <4>3. PICK f \in ReadErrors : ReadAfterMarker(r.ctx, Marker[t]) = Failure(y.ctx, f)
        BY <1>7, <3>4, <4>1, AfterField
      <4>4. Cut(cmp_read_object(c), b)
        BY <4>1, <4>2, <4>3, FailureCuts
      <4> QED
        BY <2>7, <3>7, <4>4 DEF ReadsAs, c
    <3> QED
      BY <3>6, <3>7
  <2> QED
    BY <2>8, <2>9
<1>8. CASE t \in EXT
  <2> DEFINE l == BigEndian(v.size, Width[t])
             s == Chunk(t, v)
  <2>1. /\ v \in [type : Twos(1), size : Unsigned(Width[t])]
        /\ Width[t] \in Nat \ {0} /\ t \in Marked /\ Size(t) = 1
    <3>1. t \notin Counted \cup Signed \cup Real \cup FIXEXT \cup Fixed
      BY <1>8, Sorts DEF Marked
    <3> QED
      BY <1>8, <3>1, Widths DEF Legal, Fixed, Marked, Size
  <2>2. v.size \in Unsigned(Width[t])
    BY <2>1
  <2>3. v.size \in Int /\ 0 <= v.size /\ v.size < Values[Width[t]]
    BY <2>1, <2>2, ValuesType DEF Unsigned
  <2>4. l \in Seq(Byte) /\ Len(l) = Width[t] /\ Number(l) = v.size
    BY <2>1, <2>3, BigEndianType, NumberOfBigEndian
  <2>5. s \in Seq(Byte) /\ Len(s) = 1 /\ Decoded(t, s, v.size) = v
    <3>1. s \in Seq(Byte) /\ Len(s) = Size(t) /\ Decoded(t, s, v.size) = v
      BY <2>1, ChunkIs
    <3> QED
      BY <2>1, <3>1
  <2>6. Header(t, v) = (m \o l) \o s
    BY <1>1, <1>8
  <2> HIDE DEF m, l, s
  <2>7. PICK w \in Nat : w = Len(l) /\ w = Width[t]
    BY <2>4
  <2>8. m \o l \in Seq(Byte) /\ Len(m \o l) = 1 + w /\ Len((m \o l) \o s) = (1 + w) + 1
    <3>1. PICK x : x = m \o l
      OBVIOUS
    <3>2. x \in Seq(Byte) /\ Len(x) = Len(m) + Len(l)
      BY <1>2, <2>4, <3>1, JoinFacts
    <3>3. Len(x \o s) = Len(x) + Len(s)
      BY <2>5, <3>2, JoinFacts
    <3> QED
      BY <1>2, <2>5, <2>7, <3>1, <3>2, <3>3
  <2>9. Agrees(m \o l, b, p) /\ Agrees(s, b, p + (1 + w))
    <3>1. PICK x \in Seq(Byte) : x = m \o l
      BY <2>8
    <3>2. Agrees(x, b, p) /\ Agrees(s, b, p + Len(x))
      BY <2>5, <2>6, <3>1, AgreesBoth
    <3> QED
      BY <2>8, <3>1, <3>2
  <2>10. Agrees(m, b, p) /\ Agrees(l, b, p + 1)
    BY <1>2, <2>4, <2>9, AgreesBoth
  <2>11. PICK o \in Nat : o = p + 1
    OBVIOUS
  <2>12. PICK k \in Nat : k = o + w /\ k = p + (1 + w)
    BY <2>11
  <2>13. PICK q \in Nat : q = k + 1 /\ q = p + Len(Header(t, v))
    BY <2>6, <2>8, <2>12
  <2>14. CASE ~(o <= Len(b))
    <3>1. ~(q <= Len(b))
      BY <1>4, <2>12, <2>13, <2>14
    <3>2. Cut(cmp_read_object(c), b)
      BY <1>5, <2>10, <2>11, <2>14
    <3> QED
      BY <2>13, <3>1, <3>2 DEF ReadsAs, c
  <2>15. CASE o <= Len(b)
    <3>1. PICK r : r = read(c, 1) /\ r = Hit(Mem(b, o, room, e), m)
      BY <1>5, <2>10, <2>11, <2>15
    <3>2. r.ok /\ r.ctx = Mem(b, o, room, e) /\ r.data = << First(t, v) >>
      BY <3>1 DEF Hit, m
    <3>3. /\ k <= Len(b) => read(Mem(b, o, room, e), w) = Hit(Mem(b, k, room, e), l)
          /\ ~(k <= Len(b)) => read(Mem(b, o, room, e), w) = Miss(Mem(b, o, room, e))
      <4>1. Fetched(read(Mem(b, o, room, e), Len(l)), b, o, o + Len(l), room, e, l)
        BY <2>4, <2>10, <2>11, MemReads
      <4>2. Fetched(read(Mem(b, o, room, e), w), b, o, k, room, e, l)
        BY <2>7, <2>12, <4>1
      <4> QED
        BY <4>2 DEF Fetched
    <3>4. PICK y : y = read(r.ctx, Width[t])
      OBVIOUS
    <3>5. y = read(Mem(b, o, room, e), w)
      BY <2>7, <3>2, <3>4
    <3>6. PICK z : z = read(y.ctx, 1)
      OBVIOUS
    <3>7. PICK f \in ReadErrors, g \in ReadErrors :
            ReadAfterMarker(r.ctx, Marker[t]) =
              IF ~y.ok THEN Failure(y.ctx, f)
              ELSE IF z.ok THEN Object(z.ctx, t, Decoded(t, z.data, Number(y.data)))
              ELSE Failure(z.ctx, g)
      <4>1. ReadInTwo(ReadAfterMarker(r.ctx, Marker[t]), y, z, t)
        BY <1>8, <3>4, <3>6, AfterExt
      <4> QED
        BY <4>1 DEF ReadInTwo
    <3>8. cmp_read_object(c) = ReadAfterMarker(r.ctx, Marker[t])
      BY <2>1, <3>1, <3>2, AfterFirst, FirstIs
    <3>9. CASE ~(k <= Len(b))
      <4>1. ~y.ok /\ y.ctx = Mem(b, o, room, e)
        BY <3>3, <3>5, <3>9 DEF Miss
      <4>2. ~(q <= Len(b))
        BY <1>4, <2>13, <3>9
      <4>3. Cut(cmp_read_object(c), b)
        BY <3>7, <3>8, <4>1, FailureCuts
      <4> QED
        BY <2>13, <4>2, <4>3 DEF ReadsAs, c
    <3>10. CASE k <= Len(b)
      <4>1. y.ok = TRUE /\ y.ctx = Mem(b, k, room, e) /\ y.data = l
        BY <3>3, <3>5, <3>10 DEF Hit
      <4>2. /\ q <= Len(b) => read(Mem(b, k, room, e), n) = Hit(Mem(b, q, room, e), s)
            /\ ~(q <= Len(b)) => read(Mem(b, k, room, e), n) = Miss(Mem(b, k, room, e))
        <5>1. Fetched(read(Mem(b, k, room, e), Len(s)), b, k, k + Len(s), room, e, s)
          BY <2>5, <2>9, <2>12, MemReads
        <5>2. Fetched(read(Mem(b, k, room, e), n), b, k, q, room, e, s)
          BY <1>3, <2>5, <2>13, <5>1
        <5> QED
          BY <5>2 DEF Fetched
      <4>3. z = read(Mem(b, k, room, e), n)
        BY <1>3, <3>6, <4>1
      <4>4. CASE q <= Len(b)
        <5>1. z.ok = TRUE /\ z.ctx = Mem(b, q, room, e) /\ z.data = s
          BY <4>2, <4>3, <4>4 DEF Hit
        <5>2. cmp_read_object(c) = Object(Mem(b, q, room, e), t, Decoded(t, s, v.size))
          BY <2>4, <3>7, <3>8, <4>1, <5>1
        <5> QED
          BY <2>5, <2>13, <4>4, <5>2 DEF ReadsAs, c
      <4>5. CASE ~(q <= Len(b))
        <5>1. ~z.ok /\ z.ctx = Mem(b, k, room, e)
          BY <4>2, <4>3, <4>5 DEF Miss
        <5>2. Cut(cmp_read_object(c), b)
          BY <3>7, <3>8, <4>1, <5>1, FailureCuts
        <5> QED
          BY <2>13, <4>5, <5>2 DEF ReadsAs, c
      <4> QED
        BY <4>4, <4>5
    <3> QED
      BY <3>9, <3>10
  <2> QED
    BY <2>14, <2>15
<1> QED
  BY <1>6, <1>7, <1>8

-----------------------------------------------------------------------------
(* Writing.                                                                *)

\* The writer's context: the bytes b and no error.
Sink(b, room) == Mem(b, 0, room, "ERROR_NONE")

\* The result r of writing the bytes s behind b: they fit, or the writer fails
\* and leaves a beginning behind.
Wrote(r, b, room, s) ==
  /\ Len(b) + Len(s) <= room => r = Success(Sink(b \o s, room))
  /\ ~(Len(b) + Len(s) <= room) =>
       /\ r.ok = FALSE
       /\ \E x \in Seq(Byte) : \E e : r.ctx = Mem(b \o x, 0, room, e)

LEMMA MemTakes ==
  ASSUME BackendIsMemory, NEW b, NEW p, NEW room, NEW e, NEW s
  PROVE  write(Mem(b, p, room, e), s) =
           IF Len(b) + Len(s) <= room
           THEN [n |-> Len(s), ctx |-> Mem(b \o s, p, room, e)]
           ELSE [n |-> 0, ctx |-> Mem(b, p, room, e)]
<1> DEFINE c == Mem(b, p, room, e)
<1>1. c.buf.bytes = b /\ c.buf.room = room
  BY MemFields
<1>2. [c EXCEPT !.buf.bytes = b \o s] = Mem(b \o s, p, room, e)
  <2>1. PICK x : x = b \o s
    OBVIOUS
  <2>2. [c EXCEPT !.buf.bytes = x] = Mem(x, p, room, e)
    BY DEF Mem
  <2> QED
    BY <2>1, <2>2
<1> HIDE DEF c
<1>3. MCWrite(c, s) = IF Len(b) + Len(s) <= room
                      THEN [n |-> Len(s), ctx |-> [c EXCEPT !.buf.bytes = b \o s]]
                      ELSE [n |-> 0, ctx |-> c]
  BY <1>1 DEF MCWrite
<1>4. write(c, s) = MCWrite(c, s)
  BY DEF BackendIsMemory
<1> QED
  BY <1>2, <1>3, <1>4 DEF c

LEMMA Nothing ==
  ASSUME NEW S, NEW b \in Seq(S)
  PROVE  b \o << >> = b /\ << >> \o b = b /\ << >> \in Seq(S)
OBVIOUS

LEMMA PutWrites ==
  ASSUME BackendIsMemory, NEW b \in Seq(Byte), NEW room \in Nat, NEW s \in Seq(Byte),
         s # << >>, NEW e
  PROVE  Wrote(Put(Sink(b, room), s, e), b, room, s)
<1> DEFINE c == Sink(b, room)
           w == write(c, s)
           r == Put(c, s, e)
<1>1. Len(s) \in Nat \ {0}
  OBVIOUS
<1>2. ASSUME Len(b) + Len(s) <= room PROVE r = Success(Sink(b \o s, room))
  <2>1. w = [n |-> Len(s), ctx |-> Sink(b \o s, room)]
    BY <1>2, MemTakes DEF Sink
  <2>2. w.n = Len(s) /\ w.ctx = Sink(b \o s, room)
    BY <2>1
  <2> QED
    BY <1>1, <2>2 DEF Put
<1>3. ASSUME ~(Len(b) + Len(s) <= room)
      PROVE  r.ok = FALSE /\ \E x \in Seq(Byte) : \E f : r.ctx = Mem(b \o x, 0, room, f)
  <2>1. w = [n |-> 0, ctx |-> c]
    BY <1>3, MemTakes DEF Sink
  <2>2. r = Failure(c, e)
    BY <2>1 DEF Put
  <2>3. r = [ok |-> FALSE, ctx |-> Mem(b, 0, room, e)]
    BY <2>2, MemFields DEF Sink
  <2>4. b \o << >> = b /\ << >> \in Seq(Byte)
    BY Nothing
  <2>5. r.ok = FALSE /\ r.ctx = Mem(b \o << >>, 0, room, e)
    BY <2>3, <2>4
  <2> QED
    BY <2>4, <2>5
<1> QED
  BY <1>2, <1>3 DEF Wrote

\* w is the write of the bytes s after the write r, if that succeeds.
Follows(w, r, s) == \E e : w = IF r.ok THEN Put(r.ctx, s, e) ELSE r

LEMMA ThenWrites ==
  ASSUME BackendIsMemory, NEW b \in Seq(Byte), NEW room \in Nat,
         NEW t \in Seq(Byte), NEW s \in Seq(Byte), s # << >>,
         NEW r, Wrote(r, b, room, t), NEW w, Follows(w, r, s)
  PROVE  Wrote(w, b, room, t \o s)
<1>1. PICK k \in Nat : k = Len(t)
  OBVIOUS
<1>2. PICK l \in Nat : l = Len(s)
  OBVIOUS
<1>3. PICK m \in Nat : m = Len(b)
  OBVIOUS
<1>4. PICK a \in Seq(Byte) : a = b \o t /\ Len(a) = m + k
  BY <1>1, <1>3, JoinFacts
<1>5. Len(t \o s) = k + l /\ b \o (t \o s) = a \o s
  BY <1>1, <1>2, <1>4
<1> PICK e : w = IF r.ok THEN Put(r.ctx, s, e) ELSE r
  BY DEF Follows
<1>6. CASE ~(m + k <= room)
  <2>1. r.ok = FALSE /\ \E x \in Seq(Byte) : \E f : r.ctx = Mem(b \o x, 0, room, f)
    BY <1>1, <1>3, <1>6 DEF Wrote
  <2>2. w = r /\ ~(m + (k + l) <= room)
    BY <1>6, <2>1
  <2> QED
    BY <1>3, <1>5, <2>1, <2>2 DEF Wrote
<1>7. CASE m + k <= room
  <2>1. r = Success(Sink(a, room))
    BY <1>1, <1>3, <1>4, <1>7 DEF Wrote
  <2>2. r.ok = TRUE /\ r.ctx = Sink(a, room)
    BY <2>1 DEF Success
  <2>3. w = Put(Sink(a, room), s, e)
    BY <2>2
  <2>4. Wrote(w, a, room, s)
    BY <2>3, PutWrites
  <2>5. CASE m + (k + l) <= room
    <3>1. w = Success(Sink(a \o s, room))
      BY <1>2, <1>4, <2>4, <2>5 DEF Wrote
    <3> QED
      BY <1>3, <1>5, <2>5, <3>1 DEF Wrote
  <2>6. CASE ~(m + (k + l) <= room)
    <3>1. w.ok = FALSE /\ \E x \in Seq(Byte) : \E f : w.ctx = Mem(a \o x, 0, room, f)
      BY <1>2, <1>4, <2>4, <2>6 DEF Wrote
    <3>2. PICK x \in Seq(Byte) : \E f : w.ctx = Mem(a \o x, 0, room, f)
      BY <3>1
    <3>3. PICK y \in Seq(Byte) : y = t \o x
      BY JoinFacts
    <3>4. a \o x = b \o y
      BY <1>4, <3>3
    <3> QED
      BY <1>3, <1>5, <2>6, <3>1, <3>2, <3>4 DEF Wrote
  <2> QED
    BY <2>5, <2>6
<1> QED
  BY <1>6, <1>7

-----------------------------------------------------------------------------
(* Writing an object.                                                      *)

\* The alternatives of cmp_write_object exclude one another.
LEMMA Alternatives ==
  /\ \A t \in Fixed : /\ t \notin STR \cup BIN \cup ARRAY \cup MAP /\ t \notin EXT /\ t \notin FIXEXT
                      /\ t \notin {"FLOAT", "DOUBLE"} /\ t \notin ToSet(UNSIGNED)
                      /\ t \notin ToSet(SIGNED)
  /\ \A t \in STR \cup BIN \cup ARRAY \cup MAP :
       /\ t \notin Fixed /\ t \notin EXT /\ t \notin FIXEXT /\ t \notin {"FLOAT", "DOUBLE"}
       /\ t \notin ToSet(UNSIGNED) /\ t \notin ToSet(SIGNED)
  /\ \A t \in EXT : /\ t \notin Fixed /\ t \notin STR \cup BIN \cup ARRAY \cup MAP /\ t \notin FIXEXT
                    /\ t \notin {"FLOAT", "DOUBLE"} /\ t \notin ToSet(UNSIGNED)
                    /\ t \notin ToSet(SIGNED)
  /\ \A t \in FIXEXT : /\ t \notin Fixed /\ t \notin STR \cup BIN \cup ARRAY \cup MAP /\ t \notin EXT
                       /\ t \notin {"FLOAT", "DOUBLE"} /\ t \notin ToSet(UNSIGNED)
                       /\ t \notin ToSet(SIGNED)
  /\ \A t \in {"FLOAT", "DOUBLE"} :
       /\ t \notin Fixed /\ t \notin STR \cup BIN \cup ARRAY \cup MAP /\ t \notin EXT /\ t \notin FIXEXT
       /\ t \notin ToSet(UNSIGNED) /\ t \notin ToSet(SIGNED)
  /\ \A t \in ToSet(UNSIGNED) :
       /\ t \notin Fixed /\ t \notin STR \cup BIN \cup ARRAY \cup MAP /\ t \notin EXT /\ t \notin FIXEXT
       /\ t \notin {"FLOAT", "DOUBLE"} /\ t \notin ToSet(SIGNED)
  /\ \A t \in ToSet(SIGNED) :
       /\ t \notin Fixed /\ t \notin STR \cup BIN \cup ARRAY \cup MAP /\ t \notin EXT /\ t \notin FIXEXT
       /\ t \notin {"FLOAT", "DOUBLE"} /\ t \notin ToSet(UNSIGNED)
BY Types DEF Fixed, Signed

LEMMA FixedPuts ==
  ASSUME NEW c, NEW t \in Fixed, NEW v, Legal(t, v)
  PROVE  \E e : cmp_write_object(c, [type |-> t, as |-> v]) = Put(c, << First(t, v) >>, e)
<1>1. /\ FIXMAP_MARKER \in Nat /\ FIXARRAY_MARKER \in Nat /\ FIXSTR_MARKER \in Nat
      /\ NIL_MARKER \in Nat /\ MinNfix \in Int /\ BYTE \in Nat /\ BYTE # 0
      /\ NIL_MARKER < BYTE /\ FIXMAP_SIZE < BYTE /\ FIXARRAY_SIZE < BYTE /\ FIXSTR_SIZE < BYTE
      /\ FIXMAP_SIZE \in Nat /\ FIXARRAY_SIZE \in Nat /\ FIXSTR_SIZE \in Nat
  BY LayoutFacts
<1> DEFINE o == [type |-> t, as |-> v]
<1>2. o.type = t /\ o.as = v
  OBVIOUS
<1> HIDE DEF o
<1> /\ t \notin STR \cup BIN \cup ARRAY \cup MAP /\ t \notin EXT /\ t \notin FIXEXT
    /\ t \notin {"FLOAT", "DOUBLE"} /\ t \notin ToSet(UNSIGNED) /\ t \notin ToSet(SIGNED)
  BY Alternatives
<1>3. \A s : write_fixed_value(c, s) = Put(c, << s >>, "FIXED_VALUE_WRITING_ERROR")
  BY DEF write_fixed_value
<1>4. ASSUME NEW n \in Nat, n < BYTE PROVE n % BYTE = n
  BY <1>1, <1>4
<1>5. CASE t = "POSITIVE_FIXNUM"
  <2>1. v \in Nat /\ v < FIXMAP_MARKER /\ First(t, v) = v
    BY <1>1, <1>5 DEF Legal, First
  <2>2. cmp_write_object(c, o) = write_fixed_value(c, v)
    BY <1>2, <1>5, <2>1 DEF cmp_write_object, cmp_write_pfix
  <2> QED
    BY <1>3, <2>1, <2>2 DEF o
<1>6. CASE t = "NEGATIVE_FIXNUM"
  <2>1. v \in MinNfix .. -1 /\ First(t, v) = v + BYTE
    BY <1>1, <1>6 DEF Legal, First
  <2>2. v % BYTE = v + BYTE
    <3>1. PICK r \in 0 .. BYTE - 1 : r = v + BYTE
      BY <1>1, <2>1, LayoutFacts
    <3>2. v = (-1) * BYTE + r /\ BYTE \in Nat \ {0} /\ -1 \in Int
      BY <1>1, <2>1, <3>1
    <3>3. ((-1) * BYTE + r) % BYTE = r
      BY <3>2, QuotientAndRest, Zenon
    <3> QED
      BY <3>1, <3>2, <3>3
  <2>3. cmp_write_object(c, o) = write_fixed_value(c, v % BYTE)
    BY <1>2, <1>6, <2>1 DEF cmp_write_object, cmp_write_nfix
  <2> QED
    BY <1>3, <2>1, <2>2, <2>3 DEF o
<1>7. CASE t = "FIXMAP"
  <2>1. v \in 0 .. FIXMAP_SIZE /\ First(t, v) = FIXMAP_MARKER + v /\ v % BYTE = v
    BY <1>1, <1>4, <1>7 DEF Legal, First
  <2>2. cmp_write_object(c, o) = write_fixed_value(c, FIXMAP_MARKER + v)
    BY <1>1, <1>2, <1>7, <2>1 DEF cmp_write_object, cmp_write_fixmap, WriteFixLength
  <2> QED
    BY <1>3, <2>1, <2>2 DEF o
<1>8. CASE t = "FIXARRAY"
  <2>1. v \in 0 .. FIXARRAY_SIZE /\ First(t, v) = FIXARRAY_MARKER + v /\ v % BYTE = v
    BY <1>1, <1>4, <1>8 DEF Legal, First
  <2>2. cmp_write_object(c, o) = write_fixed_value(c, FIXARRAY_MARKER + v)
    BY <1>1, <1>2, <1>8, <2>1 DEF cmp_write_object, cmp_write_fixarray, WriteFixLength
  <2> QED
    BY <1>3, <2>1, <2>2 DEF o
<1>9. CASE t = "FIXSTR"
  <2>1. v \in 0 .. FIXSTR_SIZE /\ First(t, v) = FIXSTR_MARKER + v /\ v % BYTE = v
    BY <1>1, <1>4, <1>9 DEF Legal, First
  <2>2. cmp_write_object(c, o) = write_fixed_value(c, FIXSTR_MARKER + v)
    BY <1>1, <1>2, <1>9, <2>1 DEF cmp_write_object, cmp_write_fixstr_marker, WriteFixLength
  <2> QED
    BY <1>3, <2>1, <2>2 DEF o
<1>10. CASE t = "NIL"
  <2>1. First(t, v) = Marker["NIL"]
    BY <1>10 DEF First
  <2>2. cmp_write_object(c, o) = write_type_marker(c, "NIL")
    BY <1>2, <1>10 DEF cmp_write_object, cmp_write_nil
  <2> QED
    BY <2>1, <2>2 DEF o, write_type_marker
<1>11. CASE t = "BOOLEAN"
  <2>1. First(t, v) = Marker[IF v THEN "TRUE" ELSE "FALSE"]
    BY <1>11 DEF First
  <2>2. cmp_write_object(c, o) = write_type_marker(c, IF v THEN "TRUE" ELSE "FALSE")
    BY <1>2, <1>11 DEF cmp_write_object, cmp_write_bool
  <2> QED
    BY <2>1, <2>2 DEF o, write_type_marker
<1> QED
  BY <1>5, <1>6, <1>7, <1>8, <1>9, <1>10, <1>11 DEF Fixed, o

LEMMA FieldFollows ==
  ASSUME NEW c, NEW t \in Marked \ EXT, NEW v, Legal(t, v)
  PROVE  \E e : Follows(cmp_write_object(c, [type |-> t, as |-> v]),
                        Put(c, << First(t, v) >>, e), Chunk(t, v))
<1> DEFINE o == [type |-> t, as |-> v]
           r == write_type_marker(c, t)
<1>1. o.type = t /\ o.as = v
  OBVIOUS
<1>2. First(t, v) = Marker[t] /\ t \notin Fixed
  BY FirstIs, Sorts
<1>3. r = Put(c, << First(t, v) >>, "TYPE_MARKER_WRITING_ERROR")
  BY <1>2 DEF write_type_marker
<1> HIDE DEF o, r
<1> SUFFICES Follows(cmp_write_object(c, o), r, Chunk(t, v))
  BY <1>3 DEF o
<1>4. CASE t \in STR \cup BIN \cup ARRAY \cup MAP
  <2>1. /\ t \notin Fixed /\ t \notin EXT /\ t \notin FIXEXT /\ t \notin {"FLOAT", "DOUBLE"}
        /\ t \notin ToSet(UNSIGNED) /\ t \notin ToSet(SIGNED)
    BY <1>4, Alternatives
  <2>2. Chunk(t, v) = BigEndian(v, Width[t])
    BY <2>1 DEF Chunk, Size, Real
  <2>3. cmp_write_object(c, o) = WriteLength(c, t, v)
    BY <1>1, <1>4, <2>1 DEF cmp_write_object, Fixed
  <2>4. WriteLength(c, t, v) =
          IF r.ok THEN Put(r.ctx, BigEndian(v, Width[t]), "LENGTH_WRITING_ERROR") ELSE r
    BY DEF WriteLength, Then, r
  <2> QED
    BY <2>2, <2>3, <2>4 DEF Follows
<1>5. CASE t \in FIXEXT
  <2>1. /\ t \notin Fixed /\ t \notin STR \cup BIN \cup ARRAY \cup MAP /\ t \notin EXT
        /\ t \notin {"FLOAT", "DOUBLE"} /\ t \notin ToSet(UNSIGNED) /\ t \notin ToSet(SIGNED)
    BY <1>5, Alternatives
  <2>2. Chunk(t, v) = BigEndian(v.type, 1)
    BY <1>5, <2>1 DEF Chunk, Size, Real
  <2>3. cmp_write_object(c, o) = WriteFixextMarker(c, t, v.type)
    BY <1>1, <1>2, <1>5, <2>1 DEF cmp_write_object, Fixed
  <2>4. WriteFixextMarker(c, t, v.type) =
          IF r.ok THEN Put(r.ctx, BigEndian(v.type, 1), "EXT_TYPE_WRITING_ERROR") ELSE r
    BY DEF WriteFixextMarker, Then, r, PutExtType
  <2> QED
    BY <2>2, <2>3, <2>4 DEF Follows
<1>6. ASSUME NEW s
      PROVE  WriteNumber(c, t, s) = IF r.ok THEN Put(r.ctx, s, r.ctx.error) ELSE r
  BY DEF WriteNumber, PutNumber, Then, r
<1>7. CASE t \in Real
  <2>1. /\ t \notin Fixed /\ t \notin STR \cup BIN \cup ARRAY \cup MAP /\ t \notin EXT
        /\ t \notin FIXEXT /\ t \notin ToSet(UNSIGNED) /\ t \notin ToSet(SIGNED)
    BY <1>7, Alternatives DEF Real
  <2>2. Chunk(t, v) = v
    BY <1>7 DEF Chunk
  <2>3. cmp_write_object(c, o) = WriteNumber(c, t, v)
    BY <1>1, <1>2, <1>7, <2>1 DEF cmp_write_object, Fixed, Real
  <2> QED
    BY <1>6, <2>2, <2>3 DEF Follows
<1>8. CASE t \in ToSet(UNSIGNED)
  <2>1. /\ t \notin Fixed /\ t \notin STR \cup BIN \cup ARRAY \cup MAP /\ t \notin EXT
        /\ t \notin FIXEXT /\ t \notin {"FLOAT", "DOUBLE"} /\ t \notin ToSet(SIGNED)
    BY <1>8, Alternatives
  <2>2. Chunk(t, v) = BigEndian(v, Width[t])
    BY <2>1 DEF Chunk, Size, Real
  <2>3. cmp_write_object(c, o) = WriteNumber(c, t, BigEndian(v, Width[t]))
    BY <1>1, <1>2, <1>8, <2>1 DEF cmp_write_object, Fixed, Real, WriteUnsigned
  <2> QED
    BY <1>6, <2>2, <2>3 DEF Follows
<1>9. CASE t \in Signed
  <2>1. /\ t \notin Fixed /\ t \notin STR \cup BIN \cup ARRAY \cup MAP /\ t \notin EXT
        /\ t \notin FIXEXT /\ t \notin {"FLOAT", "DOUBLE"} /\ t \notin ToSet(UNSIGNED)
    BY <1>9, Alternatives DEF Signed
  <2>2. Chunk(t, v) = BigEndian(v, Width[t])
    BY <2>1 DEF Chunk, Size, Real
  <2>3. cmp_write_object(c, o) = WriteNumber(c, t, BigEndian(v, Width[t]))
    BY <1>1, <1>2, <1>9, <2>1 DEF cmp_write_object, Fixed, Real, WriteSigned, Signed
  <2> QED
    BY <1>6, <2>2, <2>3 DEF Follows
<1> QED
  BY <1>4, <1>5, <1>7, <1>8, <1>9 DEF Marked, Counted

LEMMA ExtFollows ==
  ASSUME NEW c, NEW t \in EXT, NEW v
  PROVE  \E e, q : /\ Follows(q, Put(c, << First(t, v) >>, e), BigEndian(v.size, Width[t]))
                   /\ Follows(cmp_write_object(c, [type |-> t, as |-> v]), q, Chunk(t, v))
<1> DEFINE o == [type |-> t, as |-> v]
           r == write_type_marker(c, t)
           q == WriteLength(c, t, v.size)
<1>1. o.type = t /\ o.as = v
  OBVIOUS
<1>2. First(t, v) = Marker[t] /\ t \notin Fixed
  BY FirstIs, Sorts DEF Marked
<1>3. r = Put(c, << First(t, v) >>, "TYPE_MARKER_WRITING_ERROR")
  BY <1>2 DEF write_type_marker
<1> HIDE DEF o
<1>4. Follows(q, r, BigEndian(v.size, Width[t]))
  <2> HIDE DEF r
  <2>1. q = IF r.ok THEN Put(r.ctx, BigEndian(v.size, Width[t]), "LENGTH_WRITING_ERROR") ELSE r
    BY DEF WriteLength, Then, r
  <2> HIDE DEF q
  <2> QED
    BY <2>1 DEF Follows
<1> HIDE DEF r, q
<1>5. /\ t \notin Fixed /\ t \notin STR \cup BIN \cup ARRAY \cup MAP /\ t \notin FIXEXT
      /\ t \notin {"FLOAT", "DOUBLE"} /\ t \notin ToSet(UNSIGNED) /\ t \notin ToSet(SIGNED)
  BY Alternatives
<1>6. Chunk(t, v) = BigEndian(v.type, 1)
  BY <1>5 DEF Chunk, Size, Real
<1>7. cmp_write_object(c, o) = WriteExtMarker(c, t, v.type, v.size)
  BY <1>1, <1>2, <1>5 DEF cmp_write_object, Fixed
<1>8. WriteExtMarker(c, t, v.type, v.size) =
        IF q.ok THEN Put(q.ctx, BigEndian(v.type, 1), "EXT_TYPE_WRITING_ERROR") ELSE q
  BY DEF WriteExtMarker, Then, q, PutExtType
<1>9. Follows(cmp_write_object(c, o), q, Chunk(t, v))
  BY <1>6, <1>7, <1>8 DEF Follows
<1> QED
  BY <1>3, <1>4, <1>9 DEF o

\* cmp_write_object writes the header of the object.
LEMMA WritesHeader ==
  ASSUME BackendIsMemory, NEW b \in Seq(Byte), NEW room \in Nat,
         NEW t \in Fixed \cup Marked, NEW v, Legal(t, v)
  PROVE  Wrote(cmp_write_object(Sink(b, room), [type |-> t, as |-> v]), b, room, Header(t, v))
<1> DEFINE c == Sink(b, room)
           w == cmp_write_object(c, [type |-> t, as |-> v])
           m == << First(t, v) >>
<1>1. /\ First(t, v) \in Byte
      /\ t \in Fixed => Header(t, v) = m
      /\ t \in Marked \ EXT => Header(t, v) = m \o Chunk(t, v)
      /\ t \in EXT => /\ BigEndian(v.size, Width[t]) \in Seq(Byte)
                      /\ Header(t, v) = (m \o BigEndian(v.size, Width[t])) \o Chunk(t, v)
  BY HeaderIs
<1>2. m \in Seq(Byte) /\ m # << >>
  BY <1>1
<1>3. t \in Marked => Chunk(t, v) \in Seq(Byte) /\ Chunk(t, v) # << >>
  <2>1. ASSUME t \in Marked PROVE Chunk(t, v) \in Seq(Byte) /\ Len(Chunk(t, v)) = Size(t) /\ Size(t) # 0
    <3>1. PICK size : t \in EXT => size = v.size
      OBVIOUS
    <3> QED
      BY <2>1, <3>1, ChunkIs, Widths
  <2>2. ASSUME t \in Marked PROVE Chunk(t, v) # << >>
    BY <2>1, <2>2
  <2> QED
    BY <2>1, <2>2
<1> HIDE DEF c, w, m
<1>4. \A e : Wrote(Put(c, m, e), b, room, m)
  BY <1>2, PutWrites DEF c
<1>5. CASE t \in Fixed
  <2>1. PICK e : w = Put(c, m, e)
    BY <1>5, FixedPuts DEF w, m
  <2> QED
    BY <1>1, <1>4, <1>5, <2>1 DEF w, c
<1>6. CASE t \in Marked \ EXT
  <2>1. PICK e : Follows(w, Put(c, m, e), Chunk(t, v))
    BY <1>6, FieldFollows DEF w, m
  <2>2. Wrote(w, b, room, m \o Chunk(t, v))
    BY <1>2, <1>3, <1>4, <1>6, <2>1, ThenWrites
  <2> QED
    BY <1>1, <1>6, <2>2 DEF w, c
<1>7. CASE t \in EXT
  <2> DEFINE l == BigEndian(v.size, Width[t])
  <2>1. l \in Seq(Byte) /\ l # << >>
    <3>1. t \in Marked /\ t \notin Fixed \cup Counted \cup Signed \cup Real \cup FIXEXT
      BY <1>7, Sorts DEF Marked
    <3>2. v \in [type : Twos(1), size : Unsigned(Width[t])] /\ Width[t] \in Nat \ {0}
      BY <3>1, Widths DEF Legal, Fixed
    <3>3. v.size \in Int
      BY <3>2 DEF Unsigned
    <3>4. Len(l) = Width[t] /\ l \in Seq(Byte)
      BY <3>2, <3>3, BigEndianType
    <3> QED
      BY <3>2, <3>4
  <2>2. PICK e, q : Follows(q, Put(c, m, e), l) /\ Follows(w, q, Chunk(t, v))
    BY <1>7, ExtFollows DEF w, m
  <2> HIDE DEF l
  <2>3. Wrote(q, b, room, m \o l) /\ m \o l \in Seq(Byte)
    BY <1>2, <1>4, <2>1, <2>2, ThenWrites, JoinFacts
  <2>4. PICK x \in Seq(Byte) : x = m \o l
    BY <2>3
  <2>5. t \in Marked
    BY <1>7 DEF Marked
  <2>6. Wrote(w, b, room, x \o Chunk(t, v))
    BY <1>3, <2>2, <2>3, <2>4, <2>5, ThenWrites
  <2> QED
    BY <1>1, <1>7, <2>4, <2>6 DEF w, c, l
<1> QED
  BY <1>5, <1>6, <1>7

-----------------------------------------------------------------------------
(* Bytes from the wire are the header of an object, or a beginning of one. *)

LEMMA HeaderLength ==
  ASSUME NEW t \in Fixed \cup Marked, NEW v, Legal(t, v)
  PROVE  /\ Len(Header(t, v)) \in Nat /\ Len(Header(t, v)) <= 1 + W64
         /\ t \in Fixed => Len(Header(t, v)) = 1
         /\ t \in Marked \ EXT => Len(Header(t, v)) = 1 + Size(t)
<1> DEFINE m == << First(t, v) >>
<1>1. /\ First(t, v) \in Byte
      /\ t \in Fixed => Header(t, v) = m
      /\ t \in Marked \ EXT => Header(t, v) = m \o Chunk(t, v)
      /\ t \in EXT => /\ BigEndian(v.size, Width[t]) \in Seq(Byte)
                      /\ Header(t, v) = (m \o BigEndian(v.size, Width[t])) \o Chunk(t, v)
  BY HeaderIs
<1>2. m \in Seq(Byte) /\ Len(m) = 1
  BY <1>1
<1> HIDE DEF m
<1>3. t \in Marked => /\ Chunk(t, v) \in Seq(Byte) /\ Len(Chunk(t, v)) = Size(t)
                      /\ Size(t) \in Nat /\ Size(t) <= W64
  <2>1. PICK size : t \in EXT => size = v.size
    OBVIOUS
  <2> QED
    BY <2>1, ChunkIs, Widths
<1>4. W64 \in Nat /\ W32 \in Nat /\ W16 \in Nat /\ 1 < W16 /\ W16 < W32 /\ W32 < W64
  BY LayoutFacts
<1>5. CASE t \in Fixed
  <2>1. t \notin Marked
    BY <1>5, Sorts
  <2>2. Len(Header(t, v)) = 1
    BY <1>1, <1>2, <1>5
  <2> QED
    BY <1>4, <2>1, <2>2
<1>6. CASE t \in Marked \ EXT
  <2>1. t \notin Fixed
    BY <1>6, Sorts
  <2>2. PICK s \in Seq(Byte) : s = Chunk(t, v)
    BY <1>3, <1>6
  <2>3. Len(m \o s) = Len(m) + Len(s)
    BY <1>2, JoinFacts
  <2>4. Header(t, v) = m \o s
    BY <1>1, <1>6, <2>2
  <2>5. Len(Header(t, v)) = 1 + Size(t)
    BY <1>2, <1>3, <1>6, <2>2, <2>3, <2>4
  <2> QED
    BY <1>3, <1>4, <1>6, <2>1, <2>5
<1>7. CASE t \in EXT
  <2>1. t \notin Fixed /\ t \in Marked /\ Size(t) = 1
    BY <1>7, Sorts DEF Marked, Size
  <2>2. Width[t] \in Nat /\ Width[t] <= W32
    BY <1>4, <1>7, Widths, Types
  <2>3. PICK l \in Seq(Byte) : l = BigEndian(v.size, Width[t])
    BY <1>1, <1>7
  <2>4. Len(l) = Width[t]
    <3>1. t \notin Counted \cup Signed \cup Real \cup FIXEXT
      BY <1>7, Sorts
    <3>2. v \in [type : Twos(1), size : Unsigned(Width[t])]
      BY <2>1, <3>1 DEF Legal, Fixed
    <3>3. v.size \in Int
      BY <3>2 DEF Unsigned
    <3> QED
      BY <2>2, <2>3, <3>3, BigEndianType
  <2>5. PICK s \in Seq(Byte) : s = Chunk(t, v) /\ Len(s) = 1
    BY <1>3, <2>1
  <2>6. PICK x \in Seq(Byte) : x = m \o l /\ Len(x) = 1 + Width[t]
    <3>1. m \o l \in Seq(Byte) /\ Len(m \o l) = Len(m) + Len(l)
      BY <1>2, JoinFacts
    <3> QED
      BY <1>2, <2>4, <3>1
  <2>7. Len(x \o s) = Len(x) + Len(s)
    BY JoinFacts
  <2>8. Header(t, v) = x \o s
    BY <1>1, <1>7, <2>3, <2>5, <2>6
  <2>9. Len(Header(t, v)) = (1 + Width[t]) + 1
    BY <2>2, <2>5, <2>6, <2>7, <2>8
  <2> QED
    BY <1>4, <1>7, <2>1, <2>2, <2>9
<1> QED
  BY <1>5, <1>6, <1>7

\* The n bytes of b from k on, zeros where b has ended.
Field(b, k, n) == [i \in 1 .. n |-> IF k + i <= Len(b) THEN b[k + i] ELSE 0]

LEMMA FieldIs ==
  ASSUME NEW b \in Seq(Byte), NEW k \in Nat, NEW n \in Nat
  PROVE  Field(b, k, n) \in Seq(Byte) /\ Len(Field(b, k, n)) = n /\ Agrees(Field(b, k, n), b, k)
<1>1. 0 \in Byte
  BY LayoutFacts DEF Byte
<1>2. ASSUME NEW i \in 1 .. n
      PROVE  (IF k + i <= Len(b) THEN b[k + i] ELSE 0) \in Byte
  BY <1>1
<1> DEFINE s == Field(b, k, n)
<1>3. s \in [1 .. n -> Byte] /\ \A i \in 1 .. n : s[i] = IF k + i <= Len(b) THEN b[k + i] ELSE 0
  BY <1>2 DEF Field
<1> HIDE DEF s
<1>4. s \in Seq(Byte) /\ Len(s) = n
  BY <1>3
<1>5. Agrees(s, b, k)
  BY <1>3, <1>4 DEF Agrees
<1> QED
  BY <1>4, <1>5 DEF s

\* The bytes b begin with the header of the object of type t with the value v.
Begins(b, t, v) == t \in Fixed \cup Marked /\ Legal(t, v) /\ Agrees(Header(t, v), b, 0)

LEMMA WireBegins ==
  ASSUME NEW b \in Seq(Byte), b # << >>, b[1] # Marker["UNUSED"]
  PROVE  \E t, v : Begins(b, t, v)
<1> DEFINE m == b[1]
<1>1. m \in Byte /\ Len(b) \in Nat
  OBVIOUS
<1>2. Agrees(<< m >>, b, 0) /\ << m >> \in Seq(Byte) /\ Len(<< m >>) = 1
  <2>1. << m >> \in Seq(Byte) /\ Len(<< m >>) = 1 /\ << m >>[1] = m
    BY <1>1
  <2>2. ASSUME NEW i \in 1 .. 1 PROVE 0 + i = 1 /\ i = 1
    OBVIOUS
  <2> QED
    BY <2>1, <2>2 DEF Agrees
<1>3. PICK k \in Nat : k = 1
  OBVIOUS
<1> HIDE DEF m
<1>4. CASE \A t \in Marked \cup {"UNUSED"} : m # Marker[t]
  <2>1. PICK t \in Fixed : \E v : Legal(t, v) /\ First(t, v) = m
    BY <1>1, <1>4, FixedOfByte
  <2>2. PICK v : Legal(t, v) /\ First(t, v) = m
    BY <2>1
  <2>3. Header(t, v) = << m >>
    BY <2>2, HeaderIs
  <2> QED
    BY <1>2, <2>2, <2>3 DEF Begins
<1>5. ASSUME NEW t \in Marked \ EXT, m = Marker[t]
      PROVE  \E v : Begins(b, t, v)
  <2> DEFINE s == Field(b, k, Size(t))
             v == Decoded(t, s, 0)
  <2>1. s \in Seq(Byte) /\ Len(s) = Size(t) /\ Agrees(s, b, k)
    BY FieldIs, Widths
  <2> HIDE DEF s
  <2>2. Legal(t, v) /\ Chunk(t, v) = s
    BY <2>1, DecodedIs
  <2> HIDE DEF v
  <2>3. Header(t, v) = << m >> \o s
    BY <1>5, <2>2, HeaderIs, FirstIs
  <2>4. Agrees(<< m >> \o s, b, 0)
    <3>1. PICK p \in Nat : p = 0
      OBVIOUS
    <3>2. p + Len(<< m >>) = k
      BY <1>2, <1>3, <3>1
    <3>3. Agrees(<< m >> \o s, b, p)
      BY <1>2, <2>1, <3>1, <3>2, AgreesJoin
    <3> QED
      BY <3>1, <3>3
  <2> QED
    BY <2>2, <2>3, <2>4 DEF Begins
<1>6. ASSUME NEW t \in EXT, m = Marker[t]
      PROVE  \E v : Begins(b, t, v)
  <2>1. t \in Marked /\ Size(t) = 1
    BY DEF Marked, Size
  <2>2. PICK w \in Nat : w = Width[t] /\ w # 0
    BY <2>1, Widths, Sorts
  <2>3. PICK j \in Nat : j = k + w
    OBVIOUS
  <2> DEFINE l == Field(b, k, w)
             s == Field(b, j, k)
             size == Number(l)
             v == Decoded(t, s, size)
  <2>4. l \in Seq(Byte) /\ Len(l) = w /\ Agrees(l, b, k)
    BY FieldIs
  <2>5. s \in Seq(Byte) /\ Len(s) = 1 /\ Agrees(s, b, j)
    BY <1>3, FieldIs
  <2> HIDE DEF l, s
  <2>6. size \in Unsigned(w) /\ BigEndian(size, w) = l
    BY <2>4, NumberBounds, BigEndianOfNumber, ValuesType DEF Unsigned
  <2> HIDE DEF size
  <2>7. Legal(t, v) /\ Chunk(t, v) = s /\ v.size = size
    <3>1. Len(s) = Size(t) /\ size \in Unsigned(Width[t])
      BY <2>1, <2>2, <2>5, <2>6
    <3> HIDE DEF size, v
    <3>2. PICK n \in Unsigned(Width[t]) : n = size
      BY <3>1
    <3> PICK x \in Seq(Byte) : x = s
      BY <2>5
    <3>3. t \in Marked /\ Len(x) = Size(t)
      BY <2>1, <3>1
    <3>4. Legal(t, Decoded(t, x, n))
      BY <3>3, DecodedIs
    <3>5. Chunk(t, Decoded(t, x, n)) = x
      BY <3>3, DecodedIs
    <3>6. Decoded(t, x, n).size = n
      BY <3>3, DecodedIs
    <3> QED
      BY <3>2, <3>4, <3>5, <3>6 DEF v
  <2> HIDE DEF v
  <2>8. Header(t, v) = (<< m >> \o l) \o s
    BY <1>6, <2>1, <2>2, <2>6, <2>7, HeaderIs, FirstIs
  <2>9. Agrees((<< m >> \o l) \o s, b, 0)
    <3>1. PICK p \in Nat : p = 0
      OBVIOUS
    <3>2. PICK a \in Seq(Byte) : a = << m >> /\ Len(a) = 1
      BY <1>2
    <3>3. p + Len(a) = k /\ Agrees(a, b, p)
      BY <1>2, <1>3, <3>1, <3>2
    <3>4. PICK x \in Seq(Byte) : x = a \o l /\ Len(x) = 1 + w
      BY <2>4, <3>2, JoinFacts
    <3>5. Agrees(x, b, p)
      BY <2>4, <3>3, <3>4, AgreesJoin
    <3>6. p + Len(x) = j
      BY <1>3, <2>3, <3>1, <3>4
    <3>7. Agrees(x \o s, b, p)
      BY <2>5, <3>5, <3>6, AgreesJoin
    <3> QED
      BY <3>1, <3>2, <3>4, <3>7
  <2> QED
    BY <2>1, <2>7, <2>8, <2>9 DEF Begins
<1>7. CASE \E t \in Marked : m = Marker[t]
  BY <1>5, <1>6, <1>7
<1> QED
  BY <1>4, <1>7 DEF m

\* What cmp_read_object makes of bytes from the wire.
Refused(r) == r.ok = FALSE /\ r.ctx.error = "INVALID_TYPE_ERROR"

LEMMA ReadsUnused ==
  ASSUME BackendIsMemory, NEW b \in Seq(Byte), b # << >>, b[1] = Marker["UNUSED"],
         NEW room, NEW e
  PROVE  Refused(cmp_read_object(Mem(b, 0, room, e)))
<1>1. PICK n \in Nat : n = 1
  OBVIOUS
<1>2. PICK p \in Nat : p = 0
  OBVIOUS
<1>3. Len(b) \in Nat /\ p + n <= Len(b)
  BY <1>1, <1>2
<1>4. read(Mem(b, p, room, e), n) = Hit(Mem(b, p + n, room, e), SubSeq(b, p + 1, p + n))
  BY <1>3, MemGoes
<1>5. PICK r : r = read(Mem(b, p, room, e), 1)
  OBVIOUS
<1>6. SubSeq(b, p + 1, p + n)[1] = b[1]
  BY <1>1, <1>2, <1>3
<1>7. r.ok /\ r.ctx = Mem(b, p + n, room, e) /\ r.data[1] = Marker["UNUSED"]
  BY <1>1, <1>4, <1>5, <1>6 DEF Hit
<1>8. cmp_read_object(Mem(b, p, room, e)) = Failure(Mem(b, p + n, room, e), "INVALID_TYPE_ERROR")
  BY <1>5, <1>7, AfterFirst, AfterUnused
<1>9. PICK q : q = p + n
  OBVIOUS
<1>10. Failure(Mem(b, q, room, e), "INVALID_TYPE_ERROR")
         = [ok |-> FALSE, ctx |-> Mem(b, q, room, "INVALID_TYPE_ERROR")]
  BY MemFields
<1>11. Mem(b, q, room, "INVALID_TYPE_ERROR").error = "INVALID_TYPE_ERROR"
  BY MemFields
<1> QED
  BY <1>2, <1>8, <1>9, <1>10, <1>11 DEF Refused

LEMMA ReadsWire ==
  ASSUME BackendIsMemory, NEW b \in Seq(Byte), NEW room, NEW t, NEW v, Begins(b, t, v)
  PROVE  ReadsAs(cmp_read_object(Backend(b, room)), b, Len(Header(t, v)), room, "ERROR_NONE", t, v)
<1>1. PICK p \in Nat : p = 0
  OBVIOUS
<1>2. Backend(b, room) = Mem(b, p, room, "ERROR_NONE")
  BY <1>1, MemFields
<1>3. t \in Fixed \cup Marked /\ Legal(t, v) /\ Agrees(Header(t, v), b, p)
  BY <1>1 DEF Begins
<1>4. Len(Header(t, v)) \in Nat
  BY <1>3, HeaderLength
<1>5. PICK q \in Nat : q = Len(Header(t, v)) /\ q = p + Len(Header(t, v))
  BY <1>1, <1>4
<1>6. ReadsAs(cmp_read_object(Mem(b, p, room, "ERROR_NONE")), b, p + Len(Header(t, v)), room,
              "ERROR_NONE", t, v)
  BY <1>3, ReadsHeader
<1> QED
  BY <1>2, <1>5, <1>6

-----------------------------------------------------------------------------
(* ObjectsAreRewritten.                                                    *)

\* What WireInv says of an object that has been read.
LEMMA WireObject ==
  ASSUME BackendIsMemory, FromWire, obj # << >>
  PROVE  /\ input \in Seq(Byte) /\ input # << >> /\ Len(input) \in Nat
         /\ obj[1] = cmp_read_object(Backend(input, Len(input))) /\ ctx = obj[1].ctx
         /\ input[1] = Marker["UNUSED"] => Refused(obj[1])
         /\ \A t, v : Begins(input, t, v) =>
              ReadsAs(obj[1], input, Len(Header(t, v)), Len(input), "ERROR_NONE", t, v)
<1>1. input \in Seq(Byte) /\ input # << >> /\ Len(input) \in Nat
  BY DEF FromWire
<1>2. obj[1] = cmp_read_object(Backend(input, Len(input))) /\ ctx = obj[1].ctx
  BY DEF FromWire
<1>3. ASSUME input[1] = Marker["UNUSED"] PROVE Refused(obj[1])
  <2>1. Refused(cmp_read_object(Mem(input, 0, Len(input), "ERROR_NONE")))
    BY <1>1, <1>3, ReadsUnused
  <2> QED
    BY <1>2, <2>1, MemFields
<1>4. ASSUME NEW t, NEW v, Begins(input, t, v)
      PROVE  ReadsAs(obj[1], input, Len(Header(t, v)), Len(input), "ERROR_NONE", t, v)
  BY <1>1, <1>2, <1>4, ReadsWire
<1> QED
  BY <1>1, <1>2, <1>3, <1>4

\* The object that was read, if one was.
ReadIs(t, v) ==
  /\ Begins(input, t, v)
  /\ Len(Header(t, v)) \in Nat /\ Len(Header(t, v)) <= Len(input)
  /\ obj[1] = Object(Mem(input, Len(Header(t, v)), Len(input), "ERROR_NONE"), t, v)

LEMMA ObjectRead ==
  ASSUME BackendIsMemory, FromWire, obj # << >>, obj[1].ok
  PROVE  \E t, v : ReadIs(t, v)
<1>1. input[1] # Marker["UNUSED"]
  BY WireObject DEF Refused
<1>2. PICK t, v : Begins(input, t, v)
  BY <1>1, WireObject, WireBegins
<1>3. Len(Header(t, v)) \in Nat
  BY <1>2, HeaderLength DEF Begins
<1>4. PICK q \in Nat : q = Len(Header(t, v))
  BY <1>3
<1>5. ReadsAs(obj[1], input, q, Len(input), "ERROR_NONE", t, v)
  BY <1>2, <1>4, WireObject
<1>6. q <= Len(input) /\ obj[1] = Object(Mem(input, q, Len(input), "ERROR_NONE"), t, v)
  BY <1>5 DEF ReadsAs, Cut
<1> QED
  BY <1>2, <1>3, <1>4, <1>6 DEF ReadIs

LEMMA FreshWrites ==
  ASSUME BackendIsMemory, NEW t \in Fixed \cup Marked, NEW v, Legal(t, v)
  PROVE  /\ cmp_write_object(Fresh, [type |-> t, as |-> v]).ok = TRUE
         /\ cmp_write_object(Fresh, [type |-> t, as |-> v]).ctx.buf.bytes = Header(t, v)
<1>1. PICK room \in Nat : room = 1 + W64 + BYTE
  BY LayoutFacts
<1>2. Fresh = Sink(<< >>, room)
  BY <1>1, MemFields DEF Fresh, Sink
<1>3. << >> \in Seq(Byte) /\ Len(<< >>) = 0
  OBVIOUS
<1>4. Header(t, v) \in Seq(Byte) /\ Len(Header(t, v)) \in Nat /\ Len(Header(t, v)) <= room
  <2>1. Header(t, v) \in Seq(Byte)
    BY HeaderIs
  <2>2. Len(Header(t, v)) \in Nat /\ Len(Header(t, v)) <= 1 + W64
    BY HeaderLength
  <2> QED
    BY <1>1, <2>1, <2>2, LayoutFacts
<1>5. PICK r : r = cmp_write_object(Fresh, [type |-> t, as |-> v])
  OBVIOUS
<1>6. Wrote(r, << >>, room, Header(t, v))
  BY <1>2, <1>3, <1>5, WritesHeader
<1>7. PICK h \in Seq(Byte) : h = Header(t, v)
  BY <1>4
<1>8. r = Success(Sink(<< >> \o h, room))
  BY <1>3, <1>4, <1>6, <1>7 DEF Wrote
<1>9. << >> \o h = h
  BY Nothing
<1>10. r = Success(Sink(h, room))
  BY <1>8, <1>9
<1>11. Sink(h, room).buf.bytes = h
  BY MemFields DEF Sink
<1> QED
  BY <1>5, <1>7, <1>10, <1>11 DEF Success

LEMMA WireObjectsAreRewritten ==
  ASSUME BackendIsMemory, WireInv
  PROVE  ObjectsAreRewritten
<1>1. ASSUME out # << >>
      PROVE  /\ out[1].ok /\ out[1].ctx.buf.bytes = Consumed
             /\ LET v4 == cmp_write_object_v4(Fresh, obj[1].val)
                IN IF obj[1].val.type = "STR8" THEN ~v4.ok ELSE v4 = out[1]
  <2>1. FromWire /\ obj # << >> /\ obj[1].ok /\ out[1] = cmp_write_object(Fresh, obj[1].val)
    BY <1>1 DEF WireInv, FromWire
  <2>2. PICK t, v : ReadIs(t, v)
    BY <2>1, ObjectRead
  <2>3. PICK q \in Nat : q = Len(Header(t, v))
    BY <2>2 DEF ReadIs
  <2>4. /\ t \in Fixed \cup Marked /\ Legal(t, v) /\ Agrees(Header(t, v), input, 0)
        /\ q <= Len(input) /\ obj[1] = Object(Mem(input, q, Len(input), "ERROR_NONE"), t, v)
    BY <2>2, <2>3 DEF ReadIs, Begins
  <2>5. obj[1].ctx = Mem(input, q, Len(input), "ERROR_NONE") /\ obj[1].val = [type |-> t, as |-> v]
    <3>1. PICK c : c = Mem(input, q, Len(input), "ERROR_NONE")
      OBVIOUS
    <3>2. obj[1] = Object(c, t, v)
      BY <2>4, <3>1
    <3>3. Object(c, t, v).ctx = c /\ Object(c, t, v).val = [type |-> t, as |-> v]
      BY DEF Object, Value
    <3> QED
      BY <3>1, <3>2, <3>3, Zenon
  <2>6. out[1].ok /\ out[1].ctx.buf.bytes = Header(t, v)
    <3>1. /\ cmp_write_object(Fresh, [type |-> t, as |-> v]).ok = TRUE
          /\ cmp_write_object(Fresh, [type |-> t, as |-> v]).ctx.buf.bytes = Header(t, v)
      BY <2>4, FreshWrites
    <3> QED
      BY <2>1, <2>5, <3>1
  <2>7. Consumed = Header(t, v)
    <3>1. ctx.buf.pos = q
      BY <2>1, <2>5, WireObject, MemFields
    <3>2. PICK p \in Nat : p = 0
      OBVIOUS
    <3>3. PICK h \in Seq(Byte) : h = Header(t, v)
      BY <2>4, HeaderIs
    <3>4. input \in Seq(Byte) /\ Agrees(h, input, p) /\ p + Len(h) <= Len(input)
      BY <2>1, <2>3, <2>4, <3>2, <3>3, WireObject
    <3>5. SubSeq(input, p + 1, p + Len(h)) = h
      BY <3>4, AgreesIs
    <3>6. p + 1 = 1 /\ p + Len(h) = q
      BY <2>3, <3>2, <3>3
    <3> QED
      BY <3>1, <3>3, <3>5, <3>6 DEF Consumed
  <2>8. IF obj[1].val.type = "STR8" THEN ~cmp_write_object_v4(Fresh, obj[1].val).ok
        ELSE cmp_write_object_v4(Fresh, obj[1].val) = out[1]
    <3>1. Failure(Fresh, "INVALID_TYPE_ERROR").ok = FALSE
      BY DEF Failure
    <3> QED
      BY <2>1, <3>1 DEF cmp_write_object_v4
  <2> QED
    BY <2>6, <2>7, <2>8
<1>2. ASSUME obj # << >>, ~obj[1].ok
      PROVE  \/ input[1] = Marker["UNUSED"] /\ ctx.error = "INVALID_TYPE_ERROR"
             \/ ctx.error \notin {"ERROR_NONE", "INVALID_TYPE_ERROR"} /\ Len(input) <= MaxTail
  <2>1. FromWire
    BY <1>2 DEF WireInv
  <2>2. CASE input[1] = Marker["UNUSED"]
    BY <1>2, <2>1, <2>2, WireObject DEF Refused
  <2>3. CASE input[1] # Marker["UNUSED"]
    <3>1. PICK t, v : Begins(input, t, v)
      BY <1>2, <2>1, <2>3, WireObject, WireBegins
    <3>2. Len(Header(t, v)) \in Nat /\ Len(Header(t, v)) <= 1 + W64
      BY <3>1, HeaderLength DEF Begins
    <3>3. PICK q \in Nat : q = Len(Header(t, v))
      BY <3>2
    <3>4. ReadsAs(obj[1], input, q, Len(input), "ERROR_NONE", t, v)
      BY <1>2, <2>1, <3>1, <3>3, WireObject
    <3>5. ~(q <= Len(input)) /\ obj[1].ctx.error \in ReadErrors
      <4>1. Object(Mem(input, q, Len(input), "ERROR_NONE"), t, v).ok = TRUE
        BY DEF Object, Value
      <4> QED
        BY <1>2, <3>4, <4>1 DEF ReadsAs, Cut
    <3>6. Len(input) <= W64
      BY <1>2, <2>1, <3>2, <3>3, <3>5, WireObject, LayoutFacts
    <3> QED
      BY <1>2, <2>1, <3>5, <3>6, WireObject DEF ReadErrors, MaxTail
  <2> QED
    BY <2>2, <2>3
<1> QED
  BY <1>1, <1>2 DEF ObjectsAreRewritten

-----------------------------------------------------------------------------
(* The types of numbers.                                                   *)

Bytes(k) == Width[SIGNED[k]]
Full(k) == Values[Bytes(k)]
Half(k) == Full(k) \div 2

LEMMA Families ==
  /\ SIGNED[1] = "SINT8" /\ SIGNED[2] = "SINT16" /\ SIGNED[3] = "SINT32" /\ SIGNED[4] = "SINT64"
  /\ UNSIGNED[1] = "UINT8" /\ UNSIGNED[2] = "UINT16" /\ UNSIGNED[3] = "UINT32"
  /\ UNSIGNED[4] = "UINT64"
  /\ Bytes(1) = 1 /\ Bytes(2) = W16 /\ Bytes(3) = W32 /\ Bytes(4) = W64
  /\ \A k \in 1 .. 4 : Width[UNSIGNED[k]] = Bytes(k)
<1>1. SIGNED[1] = "SINT8" /\ SIGNED[2] = "SINT16" /\ SIGNED[3] = "SINT32" /\ SIGNED[4] = "SINT64"
  BY DEF SIGNED
<1>2. /\ UNSIGNED[1] = "UINT8" /\ UNSIGNED[2] = "UINT16" /\ UNSIGNED[3] = "UINT32"
      /\ UNSIGNED[4] = "UINT64"
  BY DEF UNSIGNED
<1>3. Bytes(1) = 1 /\ Bytes(2) = W16 /\ Bytes(3) = W32 /\ Bytes(4) = W64
  BY <1>1, Widths DEF Bytes
<1>4. ASSUME NEW k \in 1 .. 4 PROVE Width[UNSIGNED[k]] = Bytes(k)
  <2>1. k = 1 \/ k = 2 \/ k = 3 \/ k = 4
    OBVIOUS
  <2> QED
    BY <1>2, <1>3, <2>1, Widths
<1> QED
  BY <1>1, <1>2, <1>3, <1>4

LEMMA FamiliesGrow ==
  /\ \A k \in 1 .. 4 : /\ Bytes(k) \in Nat \ {0} /\ Half(k) \in Nat \ {0} /\ Full(k) \in Nat
                       /\ Full(k) = 2 * Half(k)
  /\ \A i \in 1 .. 4, j \in 1 .. 4 : i < j => Full(i) <= Half(j) /\ Bytes(i) < Bytes(j)
  /\ FIXMAP_MARKER = Half(1) /\ MinNfix \in Int /\ -Half(1) < MinNfix /\ MinNfix < 0
<1>1. ASSUME NEW k \in 1 .. 4
      PROVE  /\ Bytes(k) \in Nat \ {0} /\ Half(k) \in Nat \ {0} /\ Full(k) \in Nat
             /\ Full(k) = 2 * Half(k)
  <2>1. k = 1 \/ k = 2 \/ k = 3 \/ k = 4
    OBVIOUS
  <2>2. Bytes(k) \in Nat \ {0}
    BY <2>1, Families, LayoutFacts
  <2> QED
    BY <2>2, ValuesEven, ValuesType DEF Full, Half
<1>2. ASSUME NEW i \in 1 .. 4, NEW j \in 1 .. 4, i < j
      PROVE  Full(i) <= Half(j) /\ Bytes(i) < Bytes(j)
  <2>1. \/ i = 1 /\ j \in {2, 3, 4}
        \/ i = 2 /\ j \in {3, 4}
        \/ i = 3 /\ j = 4
    BY <1>2
  <2>2. Bytes(i) < Bytes(j)
    BY <2>1, Families, LayoutFacts
  <2>3. Full(i) * BYTE <= Full(j)
    BY <1>1, <2>2, ValuesGrow DEF Full
  <2>4. PICK f \in Nat : f = Full(i)
    BY <1>1
  <2>5. PICK d \in Nat : BYTE = 2 + d
    <3>1. BYTE - 2 \in Nat /\ BYTE = 2 + (BYTE - 2)
      BY LayoutFacts
    <3> QED
      BY <3>1
  <2>6. f * (2 + d) = 2 * f + f * d /\ f * d \in Nat
    OBVIOUS
  <2>7. 2 * f <= f * BYTE
    BY <2>5, <2>6
  <2>8. PICK h \in Nat : h = Half(j) /\ Full(j) = 2 * h
    BY <1>1
  <2>9. PICK g \in Nat : g = f * BYTE
    BY LayoutFacts
  <2>10. f <= h
    BY <2>3, <2>4, <2>7, <2>8, <2>9
  <2> QED
    BY <2>2, <2>4, <2>8, <2>10
<1>3. FIXMAP_MARKER = Half(1) /\ MinNfix \in Int /\ -Half(1) < MinNfix /\ MinNfix < 0
  <2>1. Half(1) = BYTE \div 2
    BY Families, ValuesType DEF Half, Full
  <2>2. -MinNfix < BYTE \div 2
    BY LayoutAssumption DEF LayoutFits
  <2>3. BYTE \div 2 \in Nat /\ MinNfix \in Int /\ MinNfix < 0
    <3>1. NEGATIVE_FIXNUM_MARKER \in Nat
      <4>1. FIXMAP_MARKER \in Nat
        BY LayoutFacts
      <4> QED
        BY <4>1, LayoutFacts
    <3> QED
      BY <3>1, LayoutFacts
  <2> QED
    BY <2>1, <2>2, <2>3, LayoutFacts
<1> QED
  BY <1>1, <1>2, <1>3

\* The types of numbers are all different.
LEMMA FamiliesDiffer ==
  /\ \A i \in 1 .. 4 : /\ SIGNED[i] \in Signed /\ UNSIGNED[i] \in Counted
                       /\ SIGNED[i] \in Marked \ EXT /\ UNSIGNED[i] \in Marked \ EXT
                       /\ SIGNED[i] \notin Fixed /\ UNSIGNED[i] \notin Fixed
                       /\ Size(SIGNED[i]) = Bytes(i) /\ Size(UNSIGNED[i]) = Bytes(i)
  /\ \A i \in 1 .. 4, j \in 1 .. 4 : /\ SIGNED[i] # UNSIGNED[j]
                                     /\ SIGNED[i] = SIGNED[j] => i = j
                                     /\ UNSIGNED[i] = UNSIGNED[j] => i = j
<1>1. \A k \in 1 .. 4 : k = 1 \/ k = 2 \/ k = 3 \/ k = 4
  OBVIOUS
<1>2. ASSUME NEW i \in 1 .. 4
      PROVE  SIGNED[i] \in {"SINT8", "SINT16", "SINT32", "SINT64"}
  BY <1>1, Families
<1>3. ASSUME NEW i \in 1 .. 4
      PROVE  UNSIGNED[i] \in {"UINT8", "UINT16", "UINT32", "UINT64"}
  BY <1>1, Families
<1>4. ASSUME NEW i \in 1 .. 4
      PROVE  /\ SIGNED[i] \in Signed /\ UNSIGNED[i] \in Counted
             /\ SIGNED[i] \in Marked \ EXT /\ UNSIGNED[i] \in Marked \ EXT
             /\ SIGNED[i] \notin Fixed /\ UNSIGNED[i] \notin Fixed
             /\ Size(SIGNED[i]) = Bytes(i) /\ Size(UNSIGNED[i]) = Bytes(i)
  <2>1. SIGNED[i] \in Signed /\ SIGNED[i] \notin Fixed
    BY <1>2, Types DEF Fixed
  <2>2. UNSIGNED[i] \in Counted /\ UNSIGNED[i] \notin Fixed
    BY <1>3, Types DEF Fixed
  <2>3. SIGNED[i] \in Marked \ EXT /\ UNSIGNED[i] \in Marked \ EXT
    BY <2>1, <2>2, Sorts DEF Marked
  <2>4. SIGNED[i] \notin FIXEXT \cup EXT /\ UNSIGNED[i] \notin FIXEXT \cup EXT
    BY <2>1, <2>2, Sorts
  <2>5. Size(SIGNED[i]) = Bytes(i) /\ Size(UNSIGNED[i]) = Bytes(i)
    BY <2>4, Families DEF Size, Bytes
  <2> QED
    BY <2>1, <2>2, <2>3, <2>5
<1>5. ASSUME NEW i \in 1 .. 4, NEW j \in 1 .. 4
      PROVE  /\ SIGNED[i] # UNSIGNED[j]
             /\ SIGNED[i] = SIGNED[j] => i = j
             /\ UNSIGNED[i] = UNSIGNED[j] => i = j
  <2>1. SIGNED[i] # UNSIGNED[j]
    BY <1>2, <1>3
  <2>2. ASSUME i # j PROVE SIGNED[i] # SIGNED[j]
    <3>1. i = 1 \/ i = 2 \/ i = 3 \/ i = 4
      BY <1>1
    <3>2. j = 1 \/ j = 2 \/ j = 3 \/ j = 4
      BY <1>1
    <3> QED
      BY <2>2, <3>1, <3>2, Families
  <2>3. ASSUME i # j PROVE UNSIGNED[i] # UNSIGNED[j]
    <3>1. i = 1 \/ i = 2 \/ i = 3 \/ i = 4
      BY <1>1
    <3>2. j = 1 \/ j = 2 \/ j = 3 \/ j = 4
      BY <1>1
    <3> QED
      BY <2>3, <3>1, <3>2, Families
  <2> QED
    BY <2>1, <2>2, <2>3
<1> QED
  BY <1>4, <1>5

\* The value of an object of a number type.
IsNumber(t, v) ==
  \/ t = "POSITIVE_FIXNUM" /\ v \in Nat /\ v < Half(1)
  \/ t = "NEGATIVE_FIXNUM" /\ v \in Int /\ MinNfix <= v /\ v < 0
  \/ \E i \in 1 .. 4 : t = SIGNED[i] /\ v \in Int /\ -Half(i) <= v /\ v < Half(i)
  \/ \E i \in 1 .. 4 : t = UNSIGNED[i] /\ v \in Nat /\ v < Full(i)

LEMMA NumbersAreLegal ==
  ASSUME NEW t, NEW v
  PROVE  /\ IsNumber(t, v) => t \in Fixed \cup Marked /\ Legal(t, v)
         /\ /\ Legal(t, v)
            /\ \/ t \in {"POSITIVE_FIXNUM", "NEGATIVE_FIXNUM"}
               \/ \E i \in 1 .. 4 : t = SIGNED[i] \/ t = UNSIGNED[i]
            => IsNumber(t, v)
<1>1. CASE t = "POSITIVE_FIXNUM"
  <2>1. Legal(t, v) <=> v \in Nat /\ v < Half(1)
    BY <1>1, FamiliesGrow, LayoutFacts DEF Legal
  <2> QED
    BY <1>1, <2>1, FamiliesDiffer DEF IsNumber, Fixed
<1>2. CASE t = "NEGATIVE_FIXNUM"
  <2>1. Legal(t, v) <=> v \in Int /\ MinNfix <= v /\ v < 0
    BY <1>2, FamiliesGrow DEF Legal
  <2> QED
    BY <1>2, <2>1, FamiliesDiffer DEF IsNumber, Fixed
<1>3. ASSUME NEW i \in 1 .. 4, t = SIGNED[i]
      PROVE  /\ t \in Marked
             /\ Legal(t, v) <=> v \in Int /\ -Half(i) <= v /\ v < Half(i)
  <2>1. t \in Signed /\ t \notin Fixed \cup Counted /\ t \in Marked
    BY <1>3, FamiliesDiffer, Sorts
  <2>2. Legal(t, v) <=> v \in Twos(Bytes(i))
    BY <1>3, <2>1 DEF Legal, Fixed, Bytes
  <2>3. Half(i) \in Nat
    BY FamiliesGrow
  <2> QED
    BY <2>1, <2>2, <2>3 DEF Twos, Half, Full
<1>4. ASSUME NEW i \in 1 .. 4, t = UNSIGNED[i]
      PROVE  /\ t \in Marked
             /\ Legal(t, v) <=> v \in Nat /\ v < Full(i)
  <2>1. t \in Counted /\ t \notin Fixed /\ t \in Marked
    BY <1>4, FamiliesDiffer
  <2>2. Legal(t, v) <=> v \in Unsigned(Bytes(i))
    BY <1>4, <2>1, Families DEF Legal, Fixed
  <2>3. Full(i) \in Nat
    BY FamiliesGrow
  <2> QED
    BY <2>1, <2>2, <2>3 DEF Unsigned, Full
<1>5. IsNumber(t, v) => t \in Fixed \cup Marked /\ Legal(t, v)
  BY <1>1, <1>2, <1>3, <1>4 DEF IsNumber
<1>6. ASSUME Legal(t, v),
             \/ t \in {"POSITIVE_FIXNUM", "NEGATIVE_FIXNUM"}
             \/ \E i \in 1 .. 4 : t = SIGNED[i] \/ t = UNSIGNED[i]
      PROVE  IsNumber(t, v)
  <2>1. CASE t \in {"POSITIVE_FIXNUM", "NEGATIVE_FIXNUM"}
    BY <1>1, <1>2, <1>6, <2>1
  <2>2. CASE \E i \in 1 .. 4 : t = SIGNED[i]
    BY <1>3, <1>6, <2>2 DEF IsNumber
  <2>3. CASE \E i \in 1 .. 4 : t = UNSIGNED[i]
    BY <1>4, <1>6, <2>3 DEF IsNumber
  <2> QED
    BY <1>6, <2>1, <2>2, <2>3
<1> QED
  BY <1>5, <1>6

-----------------------------------------------------------------------------
(* What the typed readers accept.                                          *)

LEMMA Accepts ==
  ASSUME NEW t, NEW v, NEW k \in 1 .. 4
  PROVE  /\ IsSigned([type |-> t, as |-> v], k) <=>
              t = "NEGATIVE_FIXNUM" \/ \E i \in 1 .. k : t = SIGNED[i]
         /\ AsSigned([type |-> t, as |-> v], k) <=>
              \/ t \in {"NEGATIVE_FIXNUM", "POSITIVE_FIXNUM"}
              \/ \E i \in 1 .. k : t = SIGNED[i]
              \/ \E i \in 1 .. k - 1 : t = UNSIGNED[i]
              \/ t = UNSIGNED[k] /\ v < Half(k)
         /\ AsUnsigned([type |-> t, as |-> v], k) <=>
              t = "POSITIVE_FIXNUM" \/ \E i \in 1 .. k : t = UNSIGNED[i]
<1> DEFINE o == [type |-> t, as |-> v]
<1>1. o.type = t /\ o.as = v
  OBVIOUS
<1> HIDE DEF o
<1>2. Values[Width[UNSIGNED[k]]] \div 2 = Half(k)
  BY Families DEF Half, Full
<1>3. IsSigned(o, k) <=> t = "NEGATIVE_FIXNUM" \/ \E i \in 1 .. k : t = SIGNED[i]
  BY <1>1 DEF IsSigned
<1>4. AsUnsigned(o, k) <=> t = "POSITIVE_FIXNUM" \/ \E i \in 1 .. k : t = UNSIGNED[i]
  BY <1>1 DEF AsUnsigned, IsUnsigned
<1>5. IsUnsigned(o, k - 1) <=> t = "POSITIVE_FIXNUM" \/ \E i \in 1 .. k - 1 : t = UNSIGNED[i]
  BY <1>1 DEF IsUnsigned
<1>6. AsSigned(o, k) <=>
        \/ t \in {"NEGATIVE_FIXNUM", "POSITIVE_FIXNUM"}
        \/ \E i \in 1 .. k : t = SIGNED[i]
        \/ \E i \in 1 .. k - 1 : t = UNSIGNED[i]
        \/ t = UNSIGNED[k] /\ v < Half(k)
  BY <1>1, <1>2, <1>3, <1>5 DEF AsSigned
<1> QED
  BY <1>3, <1>4, <1>6 DEF o

\* A typed reader accepts objects whose number is in its range, and a wider one
\* accepts them too.
LEMMA AcceptedInRange ==
  ASSUME NEW t, NEW v, Legal(t, v), NEW k \in 1 .. 4
  PROVE  /\ AsSigned([type |-> t, as |-> v], k) =>
              v \in Int /\ -Half(k) <= v /\ v < Half(k)
         /\ AsUnsigned([type |-> t, as |-> v], k) => v \in Nat /\ v < Full(k)
<1>1. ASSUME AsSigned([type |-> t, as |-> v], k)
      PROVE  v \in Int /\ -Half(k) <= v /\ v < Half(k)
  <2>1. \/ t \in {"NEGATIVE_FIXNUM", "POSITIVE_FIXNUM"}
        \/ \E i \in 1 .. k : t = SIGNED[i]
        \/ \E i \in 1 .. k - 1 : t = UNSIGNED[i]
        \/ t = UNSIGNED[k] /\ v < Half(k)
    BY <1>1, Accepts
  <2>2. \A i \in 1 .. k : i \in 1 .. 4 /\ (i < k \/ i = k)
    OBVIOUS
  <2>3. IsNumber(t, v)
    <3>1. \/ t \in {"POSITIVE_FIXNUM", "NEGATIVE_FIXNUM"}
          \/ \E i \in 1 .. 4 : t = SIGNED[i] \/ t = UNSIGNED[i]
      BY <2>1, <2>2
    <3> QED
      BY <3>1, NumbersAreLegal
  <2>4. /\ Half(k) \in Nat /\ Half(1) \in Nat /\ MinNfix \in Int /\ -Half(1) < MinNfix
        /\ Half(1) <= Half(k)
    <3>1. 1 \in 1 .. 4 /\ (1 < k \/ k = 1)
      OBVIOUS
    <3>2. 1 < k => Full(1) <= Half(k)
      BY <3>1, FamiliesGrow
    <3> QED
      BY <3>1, <3>2, FamiliesGrow
  <2>5. CASE t = "POSITIVE_FIXNUM"
    <3>1. \A i \in 1 .. 4 : t # SIGNED[i] /\ t # UNSIGNED[i]
      BY <2>5, FamiliesDiffer DEF Fixed
    <3>2. v \in Nat /\ v < Half(1)
      BY <2>3, <2>5, <3>1 DEF IsNumber
    <3> QED
      BY <2>4, <3>2
  <2>6. CASE t = "NEGATIVE_FIXNUM"
    <3>1. \A i \in 1 .. 4 : t # SIGNED[i] /\ t # UNSIGNED[i]
      BY <2>6, FamiliesDiffer DEF Fixed
    <3>2. v \in Int /\ MinNfix <= v /\ v < 0
      BY <2>3, <2>6, <3>1 DEF IsNumber
    <3> QED
      BY <2>4, <3>2
  <2>7. CASE \E i \in 1 .. k : t = SIGNED[i]
    <3>1. PICK i \in 1 .. k : t = SIGNED[i]
      BY <2>7
    <3>2. i \in 1 .. 4 /\ (i < k \/ i = k)
      BY <2>2
    <3>3. v \in Int /\ -Half(i) <= v /\ v < Half(i)
      <4>1. t \notin {"POSITIVE_FIXNUM", "NEGATIVE_FIXNUM"}
        BY <3>1, <3>2, FamiliesDiffer DEF Fixed
      <4>2. \A j \in 1 .. 4 : t # UNSIGNED[j] /\ (t = SIGNED[j] => j = i)
        BY <3>1, <3>2, FamiliesDiffer
      <4> QED
        BY <2>3, <4>1, <4>2 DEF IsNumber
    <3>4. Half(i) \in Nat /\ Half(i) <= Half(k)
      <4>1. i < k => Full(i) <= Half(k)
        BY <3>2, FamiliesGrow
      <4>2. Half(i) \in Nat /\ Full(i) = 2 * Half(i)
        BY <3>2, FamiliesGrow
      <4> QED
        BY <2>4, <3>2, <4>1, <4>2
    <3> QED
      BY <2>4, <3>3, <3>4
  <2>8. ASSUME NEW i \in 1 .. k, t = UNSIGNED[i]
        PROVE  v \in Nat /\ v < Full(i)
    <3>1. i \in 1 .. 4
      BY <2>2
    <3>2. t \notin {"POSITIVE_FIXNUM", "NEGATIVE_FIXNUM"}
      BY <2>8, <3>1, FamiliesDiffer DEF Fixed
    <3>3. \A j \in 1 .. 4 : t # SIGNED[j] /\ (t = UNSIGNED[j] => j = i)
      BY <2>8, <3>1, FamiliesDiffer
    <3> QED
      BY <2>3, <3>2, <3>3 DEF IsNumber
  <2>9. CASE \E i \in 1 .. k - 1 : t = UNSIGNED[i]
    <3>1. PICK i \in 1 .. k : t = UNSIGNED[i] /\ i < k /\ i \in 1 .. 4
      BY <2>9
    <3>2. v \in Nat /\ v < Full(i)
      BY <2>8, <3>1
    <3>3. Full(i) \in Nat /\ Full(i) <= Half(k)
      BY <3>1, FamiliesGrow
    <3> QED
      BY <2>4, <3>2, <3>3
  <2>10. CASE t = UNSIGNED[k] /\ v < Half(k)
    <3>1. k \in 1 .. k
      OBVIOUS
    <3>2. v \in Nat
      BY <2>8, <2>10, <3>1
    <3> QED
      BY <2>4, <2>10, <3>2
  <2> QED
    BY <2>1, <2>5, <2>6, <2>7, <2>9, <2>10
<1>2. ASSUME AsUnsigned([type |-> t, as |-> v], k)
      PROVE  v \in Nat /\ v < Full(k)
  <2>1. t = "POSITIVE_FIXNUM" \/ \E i \in 1 .. k : t = UNSIGNED[i]
    BY <1>2, Accepts
  <2>2. \A i \in 1 .. k : i \in 1 .. 4 /\ (i < k \/ i = k)
    OBVIOUS
  <2>3. IsNumber(t, v)
    <3>1. \/ t \in {"POSITIVE_FIXNUM", "NEGATIVE_FIXNUM"}
          \/ \E i \in 1 .. 4 : t = SIGNED[i] \/ t = UNSIGNED[i]
      BY <2>1, <2>2
    <3> QED
      BY <3>1, NumbersAreLegal
  <2>4. \A i \in 1 .. k : Full(i) \in Nat /\ Full(i) <= Full(k) /\ Half(i) <= Full(i) /\ Half(i) \in Nat
    <3>1. ASSUME NEW i \in 1 .. k
          PROVE  Full(i) \in Nat /\ Full(i) <= Full(k) /\ Half(i) <= Full(i) /\ Half(i) \in Nat
      <4>1. i \in 1 .. 4 /\ (i < k \/ i = k)
        BY <2>2
      <4>2. i < k => Full(i) <= Half(k)
        BY <4>1, FamiliesGrow
      <4>3. Full(i) \in Nat /\ Half(i) \in Nat /\ Full(i) = 2 * Half(i)
        BY <4>1, FamiliesGrow
      <4>4. Full(k) \in Nat /\ Half(k) \in Nat /\ Full(k) = 2 * Half(k)
        BY FamiliesGrow
      <4> QED
        BY <4>1, <4>2, <4>3, <4>4
    <3> QED
      BY <3>1
  <2>5. CASE t = "POSITIVE_FIXNUM"
    <3>1. \A i \in 1 .. 4 : t # SIGNED[i] /\ t # UNSIGNED[i]
      BY <2>5, FamiliesDiffer DEF Fixed
    <3>2. v \in Nat /\ v < Half(1)
      BY <2>3, <2>5, <3>1 DEF IsNumber
    <3>3. 1 \in 1 .. k /\ Full(k) \in Nat
      BY FamiliesGrow
    <3>4. Full(1) \in Nat /\ Full(1) <= Full(k) /\ Half(1) <= Full(1) /\ Half(1) \in Nat
      BY <2>4, <3>3
    <3> QED
      BY <3>2, <3>3, <3>4
  <2>6. CASE \E i \in 1 .. k : t = UNSIGNED[i]
    <3>1. PICK i \in 1 .. k : t = UNSIGNED[i]
      BY <2>6
    <3>2. i \in 1 .. 4
      BY <2>2
    <3>3. v \in Nat /\ v < Full(i)
      <4>1. t \notin {"POSITIVE_FIXNUM", "NEGATIVE_FIXNUM"}
        BY <3>1, <3>2, FamiliesDiffer DEF Fixed
      <4>2. \A j \in 1 .. 4 : t # SIGNED[j] /\ (t = UNSIGNED[j] => j = i)
        BY <3>1, <3>2, FamiliesDiffer
      <4> QED
        BY <2>3, <4>1, <4>2 DEF IsNumber
    <3>4. Full(i) \in Nat /\ Full(i) <= Full(k) /\ Full(k) \in Nat
      BY <2>4, FamiliesGrow
    <3> QED
      BY <3>3, <3>4
  <2> QED
    BY <2>1, <2>5, <2>6
<1> QED
  BY <1>1, <1>2

LEMMA AcceptedByWider ==
  ASSUME NEW t, NEW v, Legal(t, v), NEW k \in 1 .. 3
  PROVE  /\ AsSigned([type |-> t, as |-> v], k) => AsSigned([type |-> t, as |-> v], k + 1)
         /\ AsUnsigned([type |-> t, as |-> v], k) => AsUnsigned([type |-> t, as |-> v], k + 1)
<1>1. PICK j \in 1 .. 4 : j = k + 1
  OBVIOUS
<1>2. k \in 1 .. 4 /\ j - 1 = k
  BY <1>1
<1>3. \A i \in 1 .. k : i \in 1 .. j /\ i \in 1 .. j - 1
  BY <1>1
<1>4. \A i \in 1 .. k - 1 : i \in 1 .. j - 1
  BY <1>1
<1>5. k \in 1 .. j - 1
  BY <1>1
<1>6. AsSigned([type |-> t, as |-> v], k) => AsSigned([type |-> t, as |-> v], j)
  <2>1. AsSigned([type |-> t, as |-> v], k) =>
          \/ t \in {"NEGATIVE_FIXNUM", "POSITIVE_FIXNUM"}
          \/ \E i \in 1 .. k : t = SIGNED[i]
          \/ \E i \in 1 .. k - 1 : t = UNSIGNED[i]
          \/ t = UNSIGNED[k]
    BY <1>2, Accepts
  <2>2. \/ t \in {"NEGATIVE_FIXNUM", "POSITIVE_FIXNUM"}
        \/ \E i \in 1 .. j : t = SIGNED[i]
        \/ \E i \in 1 .. j - 1 : t = UNSIGNED[i]
        => AsSigned([type |-> t, as |-> v], j)
    BY Accepts
  <2> QED
    BY <1>3, <1>4, <1>5, <2>1, <2>2
<1>7. AsUnsigned([type |-> t, as |-> v], k) => AsUnsigned([type |-> t, as |-> v], j)
  BY <1>2, <1>3, Accepts
<1> QED
  BY <1>1, <1>6, <1>7

-----------------------------------------------------------------------------
(* ReadersAreSound.                                                        *)

\* The reader takes the number as signed or as unsigned.
As(t, v, k, signed) ==
  IF signed THEN AsSigned([type |-> t, as |-> v], k) ELSE AsUnsigned([type |-> t, as |-> v], k)

\* The reader gives the number v, or refuses it.
Gives(r, v) == r.ok = TRUE /\ r.val = v

LEMMA TypedReads ==
  ASSUME NEW c, NEW b, NEW q, NEW room, NEW e, NEW t, NEW v,
         cmp_read_object(c) = Object(Mem(b, q, room, e), t, v), NEW k, NEW signed \in BOOLEAN
  PROVE  /\ As(t, v, k, signed) => Gives(Reader(c, k, signed), v)
         /\ ~As(t, v, k, signed) => Refused(Reader(c, k, signed))
<1> DEFINE o == [type |-> t, as |-> v]
           d == Mem(b, q, room, e)
           x == cmp_read_object(c)
<1>1. x.ok = TRUE /\ x.ctx = d /\ x.val = o /\ o.as = v
  BY DEF Object, Value
<1>2. Failure(d, "INVALID_TYPE_ERROR").ok = FALSE
      /\ Failure(d, "INVALID_TYPE_ERROR").ctx = Mem(b, q, room, "INVALID_TYPE_ERROR")
  BY MemFields
<1>3. Refused(Failure(d, "INVALID_TYPE_ERROR"))
  BY <1>2, MemFields DEF Refused
<1>4. Gives(Value(d, v), v)
  BY DEF Value, Gives
<1> HIDE DEF o, d, x
<1>5. CASE signed = TRUE
  <2>1. Reader(c, k, signed) = IF ~x.ok THEN x ELSE IF AsSigned(x.val, k) THEN Value(x.ctx, x.val.as)
                               ELSE Failure(x.ctx, "INVALID_TYPE_ERROR")
    BY <1>5 DEF Reader, ReadSigned, Typed, x
  <2>2. Reader(c, k, signed) = IF AsSigned(o, k) THEN Value(d, v)
                               ELSE Failure(d, "INVALID_TYPE_ERROR")
    BY <1>1, <2>1
  <2>3. As(t, v, k, signed) <=> AsSigned(o, k)
    BY <1>5 DEF As, o
  <2> QED
    BY <1>3, <1>4, <2>2, <2>3
<1>6. CASE signed = FALSE
  <2>1. Reader(c, k, signed) = IF ~x.ok THEN x ELSE IF AsUnsigned(x.val, k) THEN Value(x.ctx, x.val.as)
                               ELSE Failure(x.ctx, "INVALID_TYPE_ERROR")
    BY <1>6 DEF Reader, ReadUnsigned, Typed, x
  <2>2. Reader(c, k, signed) = IF AsUnsigned(o, k) THEN Value(d, v)
                               ELSE Failure(d, "INVALID_TYPE_ERROR")
    BY <1>1, <2>1
  <2>3. As(t, v, k, signed) <=> AsUnsigned(o, k)
    BY <1>6 DEF As, o
  <2> QED
    BY <1>3, <1>4, <2>2, <2>3
<1> QED
  BY <1>5, <1>6

LEMMA AsInRange ==
  ASSUME NEW t, NEW v, Legal(t, v), NEW k \in 1 .. 4, NEW signed \in BOOLEAN,
         As(t, v, k, signed)
  PROVE  InRange(v, k, signed)
<1>1. CASE signed = TRUE
  <2>1. v \in Int /\ -Half(k) <= v /\ v < Half(k)
    BY <1>1, AcceptedInRange DEF As
  <2> QED
    BY <1>1, <2>1 DEF InRange, Half, Full, Bytes
<1>2. CASE signed = FALSE
  <2>1. v \in Nat /\ v < Full(k)
    BY <1>2, AcceptedInRange DEF As
  <2> QED
    BY <1>2, <2>1 DEF InRange, Full, Bytes
<1> QED
  BY <1>1, <1>2

LEMMA WireReadersAreSound ==
  ASSUME BackendIsMemory, WireInv
  PROVE  ReadersAreSound
<1> SUFFICES ASSUME IsObject, NEW k \in 1 .. 4, NEW signed \in BOOLEAN
             PROVE  LET r == Reader(Backend(input, 0), k, signed)
                    IN /\ r.ok => InRange(r.val, k, signed) /\ r.val = obj[1].val.as
                       /\ r.ok /\ k < 4 => Reader(Backend(input, 0), k + 1, signed).ok
                       /\ IsSigned(obj[1].val, k) => AsSigned(obj[1].val, k)
                       /\ ~r.ok => r.ctx.error = "INVALID_TYPE_ERROR"
  BY DEF ReadersAreSound
<1>1. FromWire /\ obj # << >> /\ obj[1].ok
  BY DEF IsObject, WireInv
<1>2. PICK t, v : ReadIs(t, v)
  BY <1>1, ObjectRead
<1>3. PICK q \in Nat : q = Len(Header(t, v))
  BY <1>2 DEF ReadIs
<1>4. /\ t \in Fixed \cup Marked /\ Legal(t, v) /\ Begins(input, t, v)
      /\ q <= Len(input) /\ obj[1] = Object(Mem(input, q, Len(input), "ERROR_NONE"), t, v)
  BY <1>2, <1>3 DEF ReadIs, Begins
<1>5. obj[1].val = [type |-> t, as |-> v]
  BY <1>4 DEF Object, Value
<1>6. obj[1].val.as = v
  BY <1>5
<1> DEFINE c == Backend(input, 0)
<1>7. cmp_read_object(c) = Object(Mem(input, q, 0, "ERROR_NONE"), t, v)
  <2>1. input \in Seq(Byte)
    BY <1>1, WireObject
  <2>2. ReadsAs(cmp_read_object(c), input, q, 0, "ERROR_NONE", t, v)
    BY <1>3, <1>4, <2>1, ReadsWire
  <2> QED
    BY <1>4, <2>2 DEF ReadsAs
<1> HIDE DEF c
<1>8. \A j : /\ As(t, v, j, signed) => Gives(Reader(c, j, signed), v)
             /\ ~As(t, v, j, signed) => Refused(Reader(c, j, signed))
  BY <1>7, TypedReads
<1>9. ASSUME Reader(c, k, signed).ok
      PROVE  As(t, v, k, signed) /\ Reader(c, k, signed).val = v
  BY <1>8, <1>9 DEF Gives, Refused
<1>10. Reader(c, k, signed).ok =>
         InRange(Reader(c, k, signed).val, k, signed) /\ Reader(c, k, signed).val = obj[1].val.as
  BY <1>4, <1>6, <1>9, AsInRange
<1>11. Reader(c, k, signed).ok /\ k < 4 => Reader(c, k + 1, signed).ok
  <2>1. SUFFICES ASSUME Reader(c, k, signed).ok, k < 4 PROVE Reader(c, k + 1, signed).ok
    OBVIOUS
  <2>2. k \in 1 .. 3 /\ As(t, v, k, signed)
    BY <1>9, <2>1
  <2>3. As(t, v, k + 1, signed)
    BY <1>4, <2>2, AcceptedByWider DEF As
  <2> QED
    BY <1>8, <2>3 DEF Gives
<1>12. IsSigned(obj[1].val, k) => AsSigned(obj[1].val, k)
  BY DEF AsSigned
<1>13. ~Reader(c, k, signed).ok => Reader(c, k, signed).ctx.error = "INVALID_TYPE_ERROR"
  BY <1>8 DEF Gives, Refused
<1> QED
  BY <1>10, <1>11, <1>12, <1>13 DEF c

-----------------------------------------------------------------------------
(* NumbersAreCanonical.                                                    *)

\* t is the first type, in the order of their length, that can hold v.
Canonical(t, v) ==
  \/ t = "POSITIVE_FIXNUM" /\ v \in Nat /\ v < Half(1)
  \/ t = "NEGATIVE_FIXNUM" /\ v \in Int /\ MinNfix <= v /\ v < 0
  \/ \E i \in 1 .. 4 : /\ t = SIGNED[i] /\ v \in Int /\ v < MinNfix /\ -Half(i) <= v
                       /\ \A j \in 1 .. 4 : j < i => v < -Half(j)
  \/ \E i \in 1 .. 4 : /\ t = UNSIGNED[i] /\ v \in Nat /\ Half(1) <= v /\ v < Full(i)
                       /\ \A j \in 1 .. 4 : j < i => Full(j) <= v

LEMMA CanonicalIsLegal ==
  ASSUME NEW t, NEW v, Canonical(t, v)
  PROVE  IsNumber(t, v) /\ t \in Fixed \cup Marked /\ Legal(t, v)
<1>1. IsNumber(t, v)
  <2>1. ASSUME NEW i \in 1 .. 4, t = SIGNED[i], v \in Int, v < MinNfix, -Half(i) <= v
        PROVE  IsNumber(t, v)
    <3>1. v < Half(i)
      BY <2>1, FamiliesGrow
    <3> QED
      BY <2>1, <3>1 DEF IsNumber
  <2> QED
    BY <2>1 DEF Canonical, IsNumber
<1> QED
  BY <1>1, NumbersAreLegal

\* Of the first type every reader takes the numbers in its range.
LEMMA CanonicalIsTaken ==
  ASSUME NEW t, NEW v, Canonical(t, v), NEW k \in 1 .. 4, NEW signed \in BOOLEAN,
         InRange(v, k, signed)
  PROVE  As(t, v, k, signed)
<1>1. CASE signed = TRUE
  <2>1. -Half(k) <= v /\ v < Half(k)
    BY <1>1 DEF InRange, Half, Full, Bytes
  <2>2. SUFFICES \/ t \in {"NEGATIVE_FIXNUM", "POSITIVE_FIXNUM"}
                 \/ \E i \in 1 .. k : t = SIGNED[i]
                 \/ \E i \in 1 .. k - 1 : t = UNSIGNED[i]
                 \/ t = UNSIGNED[k] /\ v < Half(k)
    BY <1>1, Accepts DEF As
  <2>3. ASSUME NEW i \in 1 .. 4, t = SIGNED[i], v \in Int,
               \A j \in 1 .. 4 : j < i => v < -Half(j)
        PROVE  i \in 1 .. k
    <3>1. Half(k) \in Nat
      BY FamiliesGrow
    <3>2. ~(k < i)
      BY <2>1, <2>3, <3>1
    <3> QED
      BY <3>2
  <2>4. ASSUME NEW i \in 1 .. 4, t = UNSIGNED[i], v \in Nat,
               \A j \in 1 .. 4 : j < i => Full(j) <= v
        PROVE  i \in 1 .. k - 1 \/ i = k
    <3>1. Half(k) \in Nat /\ Full(k) \in Nat /\ Full(k) = 2 * Half(k)
      BY FamiliesGrow
    <3>2. ~(k < i)
      BY <2>1, <2>4, <3>1
    <3> QED
      BY <3>2
  <2> QED
    BY <2>1, <2>3, <2>4 DEF Canonical
<1>2. CASE signed = FALSE
  <2>1. 0 <= v /\ v < Full(k)
    BY <1>2 DEF InRange, Full, Bytes
  <2>2. SUFFICES t = "POSITIVE_FIXNUM" \/ \E i \in 1 .. k : t = UNSIGNED[i]
    BY <1>2, Accepts DEF As
  <2>3. MinNfix \in Int /\ MinNfix < 0 /\ Full(k) \in Nat
    BY FamiliesGrow
  <2>4. ~(v \in Int /\ v < 0) /\ ~(v \in Int /\ v < MinNfix)
    BY <2>1, <2>3
  <2>5. ASSUME NEW i \in 1 .. 4, t = UNSIGNED[i], v \in Nat,
               \A j \in 1 .. 4 : j < i => Full(j) <= v
        PROVE  i \in 1 .. k
    <3>1. ~(k < i)
      BY <2>1, <2>3, <2>5
    <3> QED
      BY <3>1
  <2> QED
    BY <2>4, <2>5 DEF Canonical
<1> QED
  BY <1>1, <1>2

\* Every other type that holds the number is as long.
LEMMA CanonicalIsShort ==
  ASSUME NEW s, NEW t, NEW v, Canonical(s, v), IsNumber(t, v)
  PROVE  Len(Header(s, v)) <= Len(Header(t, v))
<1>1. s \in Fixed \cup Marked /\ Legal(s, v) /\ t \in Fixed \cup Marked /\ Legal(t, v)
  BY CanonicalIsLegal, NumbersAreLegal
<1>2. ASSUME NEW i \in 1 .. 4, NEW x, x = SIGNED[i] \/ x = UNSIGNED[i], Legal(x, v)
      PROVE  Len(Header(x, v)) = 1 + Bytes(i)
  <2>1. x \in Marked \ EXT /\ Size(x) = Bytes(i)
    BY <1>2, FamiliesDiffer
  <2> QED
    BY <1>2, <2>1, HeaderLength
<1>3. ASSUME NEW x \in Fixed, Legal(x, v) PROVE Len(Header(x, v)) = 1
  BY <1>3, HeaderLength
<1>4. ASSUME NEW i \in 1 .. 4, NEW j \in 1 .. 4, ~(j < i)
      PROVE  1 + Bytes(i) <= 1 + Bytes(j)
  <2>1. i < j \/ i = j
    BY <1>4
  <2>2. i < j => Bytes(i) < Bytes(j)
    BY FamiliesGrow
  <2>3. Bytes(i) \in Nat /\ Bytes(j) \in Nat
    BY FamiliesGrow
  <2> QED
    BY <2>1, <2>2, <2>3
<1>5. "POSITIVE_FIXNUM" \in Fixed /\ "NEGATIVE_FIXNUM" \in Fixed
  BY DEF Fixed
<1>6. Len(Header(t, v)) \in Nat /\ 1 <= Len(Header(t, v))
  <2>1. ASSUME NEW i \in 1 .. 4, t = SIGNED[i] \/ t = UNSIGNED[i]
        PROVE  Len(Header(t, v)) \in Nat /\ 1 <= Len(Header(t, v))
    <3>1. Len(Header(t, v)) = 1 + Bytes(i) /\ Bytes(i) \in Nat
      BY <1>1, <1>2, <2>1, FamiliesGrow
    <3> QED
      BY <3>1
  <2> QED
    BY <1>1, <1>3, <1>5, <2>1 DEF IsNumber
<1>7. CASE s \in {"POSITIVE_FIXNUM", "NEGATIVE_FIXNUM"}
  BY <1>1, <1>3, <1>5, <1>6, <1>7
<1>8. ASSUME NEW i \in 1 .. 4, s = SIGNED[i], v \in Int, v < MinNfix, -Half(i) <= v,
             \A j \in 1 .. 4 : j < i => v < -Half(j)
      PROVE  Len(Header(s, v)) <= Len(Header(t, v))
  <2>1. PICK j \in 1 .. 4 : t = SIGNED[j] /\ -Half(j) <= v
    <3>1. MinNfix \in Int /\ MinNfix < 0
      BY FamiliesGrow
    <3>2. v \notin Nat /\ ~(MinNfix <= v)
      BY <1>8, <3>1
    <3> QED
      BY <3>2 DEF IsNumber
  <2>2. ~(j < i)
    <3>1. Half(j) \in Nat
      BY FamiliesGrow
    <3> QED
      BY <1>8, <2>1, <3>1
  <2>3. Len(Header(s, v)) = 1 + Bytes(i) /\ Len(Header(t, v)) = 1 + Bytes(j)
    BY <1>1, <1>2, <1>8, <2>1
  <2> QED
    BY <1>4, <2>2, <2>3
<1>9. ASSUME NEW i \in 1 .. 4, s = UNSIGNED[i], v \in Nat, Half(1) <= v, v < Full(i),
             \A j \in 1 .. 4 : j < i => Full(j) <= v
      PROVE  Len(Header(s, v)) <= Len(Header(t, v))
  <2>1. PICK j \in 1 .. 4 : (t = SIGNED[j] \/ t = UNSIGNED[j]) /\ v < Full(j)
    <3>1. Half(1) \in Nat
      BY FamiliesGrow
    <3>2. ~(v < 0) /\ ~(v < Half(1))
      BY <1>9, <3>1
    <3>3. ASSUME NEW j \in 1 .. 4, v < Half(j) PROVE v < Full(j)
      <4>1. Half(j) \in Nat /\ Full(j) = 2 * Half(j)
        BY FamiliesGrow
      <4> QED
        BY <1>9, <3>3, <4>1
    <3> QED
      BY <3>2, <3>3 DEF IsNumber
  <2>2. ~(j < i)
    <3>1. Full(j) \in Nat
      BY FamiliesGrow
    <3> QED
      BY <1>9, <2>1, <3>1
  <2>3. Len(Header(s, v)) = 1 + Bytes(i) /\ Len(Header(t, v)) = 1 + Bytes(j)
    BY <1>1, <1>2, <1>9, <2>1
  <2> QED
    BY <1>4, <2>2, <2>3
<1> QED
  BY <1>7, <1>8, <1>9 DEF Canonical

\* The type in which a number is written.
IntType(v) ==
  IF v >= 0 THEN UintType(v)
  ELSE IF v >= MinNfix THEN "NEGATIVE_FIXNUM"
  ELSE IF v >= -Half(1) THEN SIGNED[1]
  ELSE IF v >= -Half(2) THEN SIGNED[2]
  ELSE IF v >= -Half(3) THEN SIGNED[3]
  ELSE SIGNED[4]

LEMMA IntTypeIs ==
  ASSUME NEW v \in Int, -Half(4) <= v, v < Full(4)
  PROVE  Canonical(IntType(v), v)
<1>1. /\ Half(1) \in Nat /\ Half(2) \in Nat /\ Half(3) \in Nat /\ Half(4) \in Nat
      /\ Full(1) \in Nat /\ Full(2) \in Nat /\ Full(3) \in Nat /\ Full(4) \in Nat
      /\ Full(1) = 2 * Half(1) /\ Full(2) = 2 * Half(2) /\ Full(3) = 2 * Half(3)
      /\ Full(4) = 2 * Half(4) /\ MinNfix \in Int /\ -Half(1) < MinNfix /\ MinNfix < 0
      /\ FIXMAP_MARKER = Half(1)
  BY FamiliesGrow
<1>2. Full(1) <= Half(2) /\ Full(2) <= Half(3) /\ Full(3) <= Half(4)
  BY FamiliesGrow
<1>3. Full(1) = BYTE /\ Full(2) = Values[W16] /\ Full(3) = Values[W32] /\ Full(4) = Values[W64]
  BY Families, ValuesType DEF Full
<1>4. \A j \in 1 .. 4 : j = 1 \/ j = 2 \/ j = 3 \/ j = 4
  OBVIOUS
<1> DEFINE t == IntType(v)
<1>5. CASE v >= 0
  <2>1. v \in Nat
    BY <1>5
  <2>2. t = UintType(v)
    BY <1>5 DEF IntType
  <2>3. \/ t = "POSITIVE_FIXNUM" /\ v < Half(1)
        \/ t = UNSIGNED[1] /\ Half(1) <= v /\ v < Full(1)
        \/ t = UNSIGNED[2] /\ Full(1) <= v /\ v < Full(2)
        \/ t = UNSIGNED[3] /\ Full(2) <= v /\ v < Full(3)
        \/ t = UNSIGNED[4] /\ Full(3) <= v
    BY <1>1, <1>2, <1>3, <2>1, <2>2, Families DEF UintType
  <2> HIDE DEF t
  <2>4. CASE t = "POSITIVE_FIXNUM" /\ v < Half(1)
    BY <2>1, <2>4 DEF Canonical, t
  <2>5. CASE t = UNSIGNED[1] /\ Half(1) <= v /\ v < Full(1)
    <3>1. \A j \in 1 .. 4 : j < 1 => Full(j) <= v
      BY <1>4
    <3> QED
      BY <2>1, <2>5, <3>1 DEF Canonical, t
  <2>6. CASE t = UNSIGNED[2] /\ Full(1) <= v /\ v < Full(2)
    <3>1. \A j \in 1 .. 4 : j < 2 => Full(j) <= v
      BY <1>4, <2>6
    <3>2. Half(1) <= v
      BY <1>1, <2>6
    <3> QED
      BY <2>1, <2>6, <3>1, <3>2 DEF Canonical, t
  <2>7. CASE t = UNSIGNED[3] /\ Full(2) <= v /\ v < Full(3)
    <3>1. \A j \in 1 .. 4 : j < 3 => Full(j) <= v
      BY <1>1, <1>2, <1>4, <2>7
    <3>2. Half(1) <= v
      BY <1>1, <1>2, <2>7
    <3> QED
      BY <2>1, <2>7, <3>1, <3>2 DEF Canonical, t
  <2>8. CASE t = UNSIGNED[4] /\ Full(3) <= v
    <3>1. \A j \in 1 .. 4 : j < 4 => Full(j) <= v
      BY <1>1, <1>2, <1>4, <2>8
    <3>2. Half(1) <= v
      BY <1>1, <1>2, <2>8
    <3> QED
      BY <2>1, <2>8, <3>1, <3>2 DEF Canonical, t
  <2> QED
    BY <2>3, <2>4, <2>5, <2>6, <2>7, <2>8
<1>6. CASE ~(v >= 0)
  <2>1. v < 0
    BY <1>6
  <2>2. \/ t = "NEGATIVE_FIXNUM" /\ MinNfix <= v
        \/ t = SIGNED[1] /\ v < MinNfix /\ -Half(1) <= v
        \/ t = SIGNED[2] /\ v < -Half(1) /\ -Half(2) <= v
        \/ t = SIGNED[3] /\ v < -Half(2) /\ -Half(3) <= v
        \/ t = SIGNED[4] /\ v < -Half(3)
    <3>1. /\ ~(v >= MinNfix) => v < MinNfix
          /\ ~(v >= -Half(1)) => v < -Half(1)
          /\ ~(v >= -Half(2)) => v < -Half(2)
          /\ ~(v >= -Half(3)) => v < -Half(3)
      BY <1>1
    <3>2. \/ t = "NEGATIVE_FIXNUM" /\ v >= MinNfix
          \/ t = SIGNED[1] /\ ~(v >= MinNfix) /\ v >= -Half(1)
          \/ t = SIGNED[2] /\ ~(v >= -Half(1)) /\ v >= -Half(2)
          \/ t = SIGNED[3] /\ ~(v >= -Half(2)) /\ v >= -Half(3)
          \/ t = SIGNED[4] /\ ~(v >= -Half(3))
      BY <1>6 DEF IntType
    <3> QED
      BY <1>1, <3>1, <3>2
  <2> HIDE DEF t
  <2>3. CASE t = "NEGATIVE_FIXNUM" /\ MinNfix <= v
    BY <2>1, <2>3 DEF Canonical, t
  <2>4. CASE t = SIGNED[1] /\ v < MinNfix /\ -Half(1) <= v
    <3>1. \A j \in 1 .. 4 : j < 1 => v < -Half(j)
      BY <1>4
    <3> QED
      BY <2>1, <2>4, <3>1 DEF Canonical, t
  <2>5. CASE t = SIGNED[2] /\ v < -Half(1) /\ -Half(2) <= v
    <3>1. \A j \in 1 .. 4 : j < 2 => v < -Half(j)
      BY <1>4, <2>5
    <3>2. v < MinNfix
      BY <1>1, <2>5
    <3> QED
      BY <2>1, <2>5, <3>1, <3>2 DEF Canonical, t
  <2>6. CASE t = SIGNED[3] /\ v < -Half(2) /\ -Half(3) <= v
    <3>1. \A j \in 1 .. 4 : j < 3 => v < -Half(j)
      BY <1>1, <1>2, <1>4, <2>6
    <3>2. v < MinNfix
      BY <1>1, <1>2, <2>6
    <3> QED
      BY <2>1, <2>6, <3>1, <3>2 DEF Canonical, t
  <2>7. CASE t = SIGNED[4] /\ v < -Half(3)
    <3>1. \A j \in 1 .. 4 : j < 4 => v < -Half(j)
      BY <1>1, <1>2, <1>4, <2>7
    <3>2. v < MinNfix
      BY <1>1, <1>2, <2>7
    <3> QED
      BY <2>1, <2>7, <3>1, <3>2 DEF Canonical, t
  <2> QED
    BY <2>2, <2>3, <2>4, <2>5, <2>6, <2>7
<1> QED
  BY <1>5, <1>6

-----------------------------------------------------------------------------
(* The integer writers are cmp_write_object of the type they choose.       *)

LEMMA NumberObjects ==
  ASSUME NEW c, NEW v
  PROVE  /\ cmp_write_object(c, [type |-> "POSITIVE_FIXNUM", as |-> v]) = cmp_write_pfix(c, v)
         /\ cmp_write_object(c, [type |-> "NEGATIVE_FIXNUM", as |-> v]) = cmp_write_nfix(c, v)
         /\ \A t \in ToSet(UNSIGNED) :
              cmp_write_object(c, [type |-> t, as |-> v]) = WriteUnsigned(c, t, v)
         /\ \A t \in ToSet(SIGNED) :
              cmp_write_object(c, [type |-> t, as |-> v]) = WriteSigned(c, t, v)
<1>1. ASSUME NEW t, NEW o, o = [type |-> t, as |-> v]
      PROVE  /\ t = "POSITIVE_FIXNUM" => cmp_write_object(c, o) = cmp_write_pfix(c, v)
             /\ t = "NEGATIVE_FIXNUM" => cmp_write_object(c, o) = cmp_write_nfix(c, v)
             /\ t \in ToSet(UNSIGNED) => cmp_write_object(c, o) = WriteUnsigned(c, t, v)
             /\ t \in ToSet(SIGNED) => cmp_write_object(c, o) = WriteSigned(c, t, v)
  <2>1. o.type = t /\ o.as = v
    BY <1>1
  <2> HIDE <1>1
  <2>2. t = "POSITIVE_FIXNUM" => cmp_write_object(c, o) = cmp_write_pfix(c, v)
    <3>1. "POSITIVE_FIXNUM" \in Fixed
      BY DEF Fixed
    <3> QED
      BY <2>1, <3>1, Alternatives DEF cmp_write_object
  <2>3. t = "NEGATIVE_FIXNUM" => cmp_write_object(c, o) = cmp_write_nfix(c, v)
    <3>1. "NEGATIVE_FIXNUM" \in Fixed
      BY DEF Fixed
    <3> QED
      BY <2>1, <3>1, Alternatives DEF cmp_write_object
  <2>4. t \in ToSet(UNSIGNED) => cmp_write_object(c, o) = WriteUnsigned(c, t, v)
    BY <2>1, Alternatives DEF cmp_write_object, Fixed
  <2>5. t \in ToSet(SIGNED) => cmp_write_object(c, o) = WriteSigned(c, t, v)
    BY <2>1, Alternatives DEF cmp_write_object, Fixed
  <2> QED
    BY <2>2, <2>3, <2>4, <2>5
<1> QED
  BY <1>1

LEMMA UintegerIsObject ==
  ASSUME NEW c, NEW v
  PROVE  cmp_write_uinteger(c, v) = cmp_write_object(c, [type |-> UintType(v), as |-> v])
<1>1. /\ "UINT8" \in ToSet(UNSIGNED) /\ "UINT16" \in ToSet(UNSIGNED)
      /\ "UINT32" \in ToSet(UNSIGNED) /\ "UINT64" \in ToSet(UNSIGNED)
  BY Types
<1>3. CASE v < FIXMAP_MARKER
  BY <1>3, NumberObjects DEF cmp_write_uinteger, UintType
<1>4. CASE ~(v < FIXMAP_MARKER) /\ v < BYTE
  BY <1>1, <1>4, NumberObjects DEF cmp_write_uinteger, UintType
<1>5. CASE ~(v < FIXMAP_MARKER) /\ ~(v < BYTE) /\ v < Values[W16]
  BY <1>1, <1>5, NumberObjects DEF cmp_write_uinteger, UintType
<1>6. CASE ~(v < FIXMAP_MARKER) /\ ~(v < BYTE) /\ ~(v < Values[W16]) /\ v < Values[W32]
  BY <1>1, <1>6, NumberObjects DEF cmp_write_uinteger, UintType
<1>7. CASE ~(v < FIXMAP_MARKER) /\ ~(v < BYTE) /\ ~(v < Values[W16]) /\ ~(v < Values[W32])
  BY <1>1, <1>7, NumberObjects DEF cmp_write_uinteger, UintType
<1> QED
  BY <1>3, <1>4, <1>5, <1>6, <1>7

LEMMA IntegerIsObject ==
  ASSUME NEW c, NEW v
  PROVE  cmp_write_integer(c, v) = cmp_write_object(c, [type |-> IntType(v), as |-> v])
<1>1. /\ SIGNED[1] = "SINT8" /\ SIGNED[2] = "SINT16" /\ SIGNED[3] = "SINT32"
      /\ SIGNED[4] = "SINT64"
      /\ "SINT8" \in ToSet(SIGNED) /\ "SINT16" \in ToSet(SIGNED)
      /\ "SINT32" \in ToSet(SIGNED) /\ "SINT64" \in ToSet(SIGNED)
  BY Types, Families DEF Signed
<1>2. /\ Half(1) = BYTE \div 2 /\ Half(2) = Values[W16] \div 2
      /\ Half(3) = Values[W32] \div 2
  BY Families, ValuesType DEF Half, Full
<1>3. CASE v >= 0
  BY <1>3, UintegerIsObject DEF cmp_write_integer, IntType
<1>4. CASE ~(v >= 0) /\ v >= MinNfix
  BY <1>4, NumberObjects DEF cmp_write_integer, IntType
<1>5. CASE ~(v >= 0) /\ ~(v >= MinNfix) /\ v >= -Half(1)
  BY <1>1, <1>2, <1>5, NumberObjects DEF cmp_write_integer, IntType
<1>6. CASE ~(v >= 0) /\ ~(v >= MinNfix) /\ ~(v >= -Half(1)) /\ v >= -Half(2)
  BY <1>1, <1>2, <1>6, NumberObjects DEF cmp_write_integer, IntType
<1>7. CASE ~(v >= 0) /\ ~(v >= MinNfix) /\ ~(v >= -Half(1)) /\ ~(v >= -Half(2)) /\ v >= -Half(3)
  BY <1>1, <1>2, <1>7, NumberObjects DEF cmp_write_integer, IntType
<1>8. CASE ~(v >= 0) /\ ~(v >= MinNfix) /\ ~(v >= -Half(1)) /\ ~(v >= -Half(2)) /\ ~(v >= -Half(3))
  BY <1>1, <1>2, <1>8, NumberObjects DEF cmp_write_integer, IntType
<1> QED
  BY <1>3, <1>4, <1>5, <1>6, <1>7, <1>8

LEMMA NumberRange ==
  ASSUME NEW t, NEW v, IsNumber(t, v)
  PROVE  v \in Int /\ -Half(4) <= v /\ v < Full(4)
<1>1. \A i \in 1 .. 4 : /\ Half(i) \in Nat \ {0} /\ Full(i) = 2 * Half(i) /\ Full(i) \in Nat
                        /\ Half(i) <= Half(4)
  <2>1. ASSUME NEW i \in 1 .. 4
        PROVE  /\ Half(i) \in Nat \ {0} /\ Full(i) = 2 * Half(i) /\ Full(i) \in Nat
               /\ Half(i) <= Half(4)
    <3>1. i < 4 \/ i = 4
      OBVIOUS
    <3>2. Half(i) \in Nat \ {0} /\ Full(i) = 2 * Half(i) /\ Full(i) \in Nat /\ Half(4) \in Nat
      BY FamiliesGrow
    <3>3. i < 4 => Full(i) <= Half(4)
      BY FamiliesGrow
    <3> QED
      BY <3>1, <3>2, <3>3
  <2> QED
    BY <2>1
<1>2. MinNfix \in Int /\ -Half(1) < MinNfix /\ MinNfix < 0
  BY FamiliesGrow
<1>3. /\ Half(1) \in Nat \ {0} /\ Half(1) <= Half(4) /\ Half(4) \in Nat \ {0}
      /\ Full(4) = 2 * Half(4)
  BY <1>1
<1>4. CASE t = "POSITIVE_FIXNUM" /\ v \in Nat /\ v < Half(1)
  BY <1>3, <1>4
<1>5. CASE t = "NEGATIVE_FIXNUM" /\ v \in Int /\ MinNfix <= v /\ v < 0
  BY <1>2, <1>3, <1>5
<1>6. ASSUME NEW i \in 1 .. 4, t = SIGNED[i] /\ v \in Int /\ -Half(i) <= v /\ v < Half(i)
      PROVE  v \in Int /\ -Half(4) <= v /\ v < Full(4)
  <2>1. Half(i) \in Nat /\ Half(i) <= Half(4)
    BY <1>1
  <2> QED
    BY <1>3, <1>6, <2>1
<1>7. ASSUME NEW i \in 1 .. 4, t = UNSIGNED[i] /\ v \in Nat /\ v < Full(i)
      PROVE  v \in Int /\ -Half(4) <= v /\ v < Full(4)
  <2>1. Half(i) \in Nat /\ Half(i) <= Half(4) /\ Full(i) = 2 * Half(i)
    BY <1>1
  <2> QED
    BY <1>3, <1>7, <2>1
<1> QED
  BY <1>4, <1>5, <1>6, <1>7 DEF IsNumber

LEMMA WireNumbersAreCanonical ==
  ASSUME BackendIsMemory, WireInv
  PROVE  NumbersAreCanonical
<1> DEFINE Short(v) == IF v < 0 THEN cmp_write_integer(Fresh, v) ELSE cmp_write_uinteger(Fresh, v)
           Again(v) == Backend(Short(v).ctx.buf.bytes, 0)
<1> SUFFICES ASSUME IsObject, IsSigned(obj[1].val, 4) \/ IsUnsigned(obj[1].val, 4)
             PROVE  /\ Short(obj[1].val.as).ok
                    /\ Len(Short(obj[1].val.as).ctx.buf.bytes) <= ctx.buf.pos
                    /\ \A k \in 1 .. 4, signed \in BOOLEAN :
                         /\ Reader(Again(obj[1].val.as), k, signed).ok
                              = InRange(obj[1].val.as, k, signed)
                         /\ Reader(Again(obj[1].val.as), k, signed).ok =>
                              Reader(Again(obj[1].val.as), k, signed).val = obj[1].val.as
  BY DEF NumbersAreCanonical
<1>1. FromWire /\ obj # << >> /\ obj[1].ok
  BY DEF IsObject, WireInv
<1>2. PICK t, v : ReadIs(t, v)
  BY <1>1, ObjectRead
<1>3. PICK q \in Nat : q = Len(Header(t, v))
  BY <1>2 DEF ReadIs
<1>4. /\ t \in Fixed \cup Marked /\ Legal(t, v) /\ Begins(input, t, v)
      /\ q <= Len(input) /\ obj[1] = Object(Mem(input, q, Len(input), "ERROR_NONE"), t, v)
  BY <1>2, <1>3 DEF ReadIs, Begins
<1>5. obj[1].val = [type |-> t, as |-> v] /\ obj[1].ctx = Mem(input, q, Len(input), "ERROR_NONE")
  <2>1. PICK c : c = Mem(input, q, Len(input), "ERROR_NONE")
    OBVIOUS
  <2>2. obj[1] = Object(c, t, v)
    BY <1>4, <2>1
  <2>3. Object(c, t, v).ctx = c /\ Object(c, t, v).val = [type |-> t, as |-> v]
    BY DEF Object, Value
  <2> QED
    BY <2>1, <2>2, <2>3, Zenon
<1>6. obj[1].val.as = v /\ obj[1].val.type = t
  BY <1>5
<1>7. ctx.buf.pos = q
  BY <1>1, <1>5, WireObject, MemFields
<1>8. IsNumber(t, v)
  <2>1. \/ t \in {"POSITIVE_FIXNUM", "NEGATIVE_FIXNUM"}
        \/ \E i \in 1 .. 4 : t = SIGNED[i] \/ t = UNSIGNED[i]
    BY <1>6 DEF IsSigned, IsUnsigned
  <2> QED
    BY <1>4, <2>1, NumbersAreLegal
<1>9. PICK s : s = IntType(v)
  OBVIOUS
<1>10. v \in Int /\ Canonical(s, v)
  BY <1>8, <1>9, NumberRange, IntTypeIs
<1>11. Short(v) = cmp_write_object(Fresh, [type |-> s, as |-> v])
  <2>1. CASE v < 0
    BY <1>9, <2>1, IntegerIsObject
  <2>2. CASE ~(v < 0)
    <3>1. s = UintType(v)
      BY <1>9, <1>10, <2>2 DEF IntType
    <3> QED
      BY <2>2, <3>1, UintegerIsObject
  <2> QED
    BY <2>1, <2>2
<1>12. s \in Fixed \cup Marked /\ Legal(s, v)
  BY <1>10, CanonicalIsLegal
<1>13. Short(v).ok = TRUE /\ Short(v).ctx.buf.bytes = Header(s, v)
  <2>1. cmp_write_object(Fresh, [type |-> s, as |-> v]).ok = TRUE
    BY <1>12, FreshWrites
  <2>2. cmp_write_object(Fresh, [type |-> s, as |-> v]).ctx.buf.bytes = Header(s, v)
    BY <1>12, FreshWrites
  <2> QED
    BY <1>11, <2>1, <2>2
<1> HIDE DEF Short
<1>14. Len(Short(v).ctx.buf.bytes) <= ctx.buf.pos
  BY <1>3, <1>7, <1>8, <1>10, <1>13, CanonicalIsShort
<1>15. PICK h \in Seq(Byte) : h = Header(s, v)
  BY <1>12, HeaderIs
<1>16. Begins(h, s, v)
  <2>1. Agrees(h, h, 0)
    <3>1. \A i \in 1 .. Len(h) : 0 + i = i
      OBVIOUS
    <3> QED
      BY <3>1 DEF Agrees
  <2> QED
    BY <1>12, <1>15, <2>1 DEF Begins
<1>17. PICK n \in Nat : n = Len(h)
  OBVIOUS
<1>18. cmp_read_object(Again(v)) = Object(Mem(h, n, 0, "ERROR_NONE"), s, v)
  <2>1. ReadsAs(cmp_read_object(Backend(h, 0)), h, n, 0, "ERROR_NONE", s, v)
    BY <1>15, <1>16, <1>17, ReadsWire
  <2> QED
    BY <1>13, <1>15, <1>17, <2>1 DEF ReadsAs
<1> HIDE DEF Again
<1>19. ASSUME NEW k \in 1 .. 4, NEW signed \in BOOLEAN
       PROVE  /\ Reader(Again(v), k, signed).ok = InRange(v, k, signed)
              /\ Reader(Again(v), k, signed).ok => Reader(Again(v), k, signed).val = v
  <2>1. As(s, v, k, signed) <=> InRange(v, k, signed)
    BY <1>10, <1>12, AsInRange, CanonicalIsTaken
  <2>2. As(s, v, k, signed) => Gives(Reader(Again(v), k, signed), v)
    BY <1>18, TypedReads
  <2>3. ~As(s, v, k, signed) => Refused(Reader(Again(v), k, signed))
    BY <1>18, TypedReads
  <2>4. InRange(v, k, signed) \in BOOLEAN
    BY DEF InRange
  <2> QED
    BY <2>1, <2>2, <2>3, <2>4 DEF Gives, Refused
<1> QED
  BY <1>6, <1>13, <1>14, <1>19

-----------------------------------------------------------------------------
(* The values that are written to the backend.                             *)

LEMMA DataIs ==
  ASSUME NEW n \in Nat
  PROVE  Data(n) \in Seq(Byte) /\ Len(Data(n)) = n
<1>1. ASSUME NEW j \in 1 .. n PROVE (7 * j) % BYTE \in Byte
  BY LayoutFacts DEF Byte
<1> QED
  BY <1>1 DEF Data

LEMMA ItemIs ==
  ASSUME NEW kind, NEW values, NEW i \in Item(kind, values)
  PROVE  i.kind = kind /\ i.v \in values
BY DEF Item

LEMMA FixextSizes ==
  /\ FixextSize["FIXEXT1"] = 1 /\ FixextSize["FIXEXT2"] = 2 /\ FixextSize["FIXEXT4"] = 4
  /\ FixextSize["FIXEXT8"] = 8 /\ FixextSize["FIXEXT16"] = 16
  /\ \A t \in FIXEXT : FixextSize[t] \in 1 .. 16
<1>1. /\ FixextSize["FIXEXT1"] = 1 /\ FixextSize["FIXEXT2"] = 2 /\ FixextSize["FIXEXT4"] = 4
      /\ FixextSize["FIXEXT8"] = 8 /\ FixextSize["FIXEXT16"] = 16
  BY DEF FixextSize
<1>2. FIXEXT = {"FIXEXT1", "FIXEXT2", "FIXEXT4", "FIXEXT8", "FIXEXT16"}
  BY Types
<1>3. ASSUME NEW t \in FIXEXT PROVE FixextSize[t] \in 1 .. 16
  BY <1>1, <1>2
<1> QED
  BY <1>1, <1>3

\* Numbers of a family are far apart from those of the next.
LEMMA FullBelowHalf ==
  ASSUME NEW i \in 1 .. 4, NEW j \in 1 .. 4, i < j
  PROVE  Full(i) < Half(j)
<1>1. /\ Full(i) \in Nat /\ Half(i) \in Nat \ {0} /\ Full(i) = 2 * Half(i)
      /\ Half(j) \in Nat /\ Full(j) = 2 * Half(j) /\ Bytes(i) \in Nat /\ Bytes(j) \in Nat
      /\ Bytes(i) < Bytes(j)
  BY FamiliesGrow
<1>2. Full(i) * BYTE <= Full(j)
  BY <1>1, ValuesGrow DEF Full
<1>3. PICK f \in Nat \ {0} : f = Full(i)
  BY <1>1
<1>4. PICK d \in Nat : BYTE = 4 + d
  <2>1. BYTE - 4 \in Nat /\ BYTE = 4 + (BYTE - 4)
    BY LayoutFacts
  <2> QED
    BY <2>1
<1>5. f * (4 + d) = 4 * f + f * d /\ f * d \in Nat
  OBVIOUS
<1>6. PICK g \in Nat : g = f * BYTE
  BY LayoutFacts
<1>7. 4 * f <= g
  BY <1>4, <1>5, <1>6
<1> QED
  BY <1>1, <1>2, <1>3, <1>6, <1>7

LEMMA Constants ==
  /\ Sizes \subseteq 0 .. BYTE
  /\ LongSizes \subseteq 0 .. Values[W16]
  /\ NonNegative \subseteq 0 .. Half(4) - 1
  /\ Negative \subseteq -Half(4) .. -1
  /\ Power("UINT64") = Full(4) /\ Power("EXT16") = Values[W16]
<1>1. /\ Power("UINT8") = Full(1) /\ Power("UINT16") = Full(2) /\ Power("UINT32") = Full(3)
      /\ Power("UINT64") = Full(4) /\ Power("SINT8") = Full(1) /\ Power("SINT16") = Full(2)
      /\ Power("SINT32") = Full(3) /\ Power("SINT64") = Full(4)
      /\ Power("EXT16") = Values[W16] /\ Power("STR16") = Values[W16]
  BY Families, Widths DEF Power, Full
<1>2. /\ Full(1) \in Nat /\ Full(2) \in Nat /\ Full(3) \in Nat /\ Full(4) \in Nat
      /\ Half(1) \in Nat \ {0} /\ Half(2) \in Nat \ {0} /\ Half(3) \in Nat \ {0}
      /\ Half(4) \in Nat \ {0} /\ Full(1) = 2 * Half(1) /\ Full(2) = 2 * Half(2)
      /\ Full(3) = 2 * Half(3) /\ Full(4) = 2 * Half(4)
      /\ FIXMAP_MARKER = Half(1) /\ MinNfix \in Int /\ -Half(1) < MinNfix /\ MinNfix < 0
  BY FamiliesGrow
<1>3. Full(1) < Half(4) /\ Full(2) < Half(4) /\ Full(3) < Half(4)
  BY FullBelowHalf
<1>4. Sizes \subseteq 0 .. BYTE
  BY LayoutFacts DEF Sizes
<1>5. LongSizes \subseteq 0 .. Values[W16]
  <2>1. PICK w \in Nat : w = Values[W16] /\ BYTE < w
    BY ValuesOfFields
  <2>2. PICK b \in Nat : b = BYTE
    BY LayoutFacts
  <2>3. LongSizes = Sizes \cup {w - 1, w} /\ Sizes \subseteq 0 .. b
    BY <1>1, <1>4, <2>1, <2>2 DEF LongSizes
  <2>4. w - 1 \in 0 .. w /\ w \in 0 .. w /\ \A n \in 0 .. b : n \in 0 .. w
    BY <2>1, <2>2
  <2> QED
    BY <2>1, <2>3, <2>4
<1>6. NonNegative \subseteq 0 .. Half(4) - 1
  <2>1. NonNegative = {0, FIXMAP_MARKER - 1, FIXMAP_MARKER,
                       Full(1) - 1, Full(1), Full(2) - 1, Full(2), Full(3) - 1, Full(3),
                       Full(4) \div 2 - 1}
    BY <1>1 DEF NonNegative
  <2>2. Full(4) \div 2 = Half(4)
    BY DEF Half
  <2> QED
    BY <1>2, <1>3, <2>1, <2>2
<1>7. Negative \subseteq -Half(4) .. -1
  <2>1. Negative = {-1, MinNfix, MinNfix - 1,
                    -(Full(1) \div 2), -(Full(1) \div 2) - 1, -(Full(2) \div 2),
                    -(Full(2) \div 2) - 1, -(Full(3) \div 2), -(Full(3) \div 2) - 1,
                    -(Full(4) \div 2)}
    BY <1>1 DEF Negative
  <2>2. /\ Full(1) \div 2 = Half(1) /\ Full(2) \div 2 = Half(2) /\ Full(3) \div 2 = Half(3)
        /\ Full(4) \div 2 = Half(4)
    BY DEF Half
  <2> QED
    BY <1>2, <1>3, <2>1, <2>2
<1> QED
  BY <1>1, <1>4, <1>5, <1>6, <1>7

\* The data of an extended value.
Extended == [type : Twos(1), data : Seq(Byte)]

\* What is known of the values of each kind.
Shape(i) ==
  \/ i.kind = "integer" /\ i.v \in Twos(W64)
  \/ i.kind = "uinteger" /\ i.v \in Unsigned(W64)
  \/ /\ i.kind = "decimal" /\ i.v.double \in Seq(Byte) /\ Len(i.v.double) = W64
     /\ i.v.float # << >> => i.v.float \in Seq(Byte) /\ Len(i.v.float) = W32
  \/ i.kind = "nil" /\ i.v = 0
  \/ i.kind = "bool" /\ i.v \in BOOLEAN
  \/ i.kind = "u8_as_bool" /\ i.v \in Nat
  \/ i.kind \in {"str", "str_v4", "bin"} /\ i.v \in Seq(Byte) /\ Len(i.v) <= BYTE
  \/ /\ i.kind \in {"str_marker", "str_marker_v4", "bin_marker", "array", "map"}
     /\ i.v \in 0 .. Values[W16]
  \/ i.kind = "sfix" /\ i.v \in MinNfix .. FIXMAP_MARKER - 1
  \/ i.kind = "ext" /\ i.v \in Extended /\ Len(i.v.data) <= BYTE
  \/ i.kind = "ext_marker" /\ i.v \in [type : Twos(1), size : 0 .. Values[W16]]
  \/ \E k \in 1 .. 4 : \/ i.kind = SIGNED[k] /\ i.v \in {-1, 1}
                       \/ i.kind = UNSIGNED[k] /\ i.v = 1
  \/ i.kind \in STR \cup BIN /\ i.v \in Seq(Byte) /\ Len(i.v) = 3
  \/ i.kind \in EXT /\ i.v \in Extended /\ Len(i.v.data) = 3
  \/ i.kind \in FIXEXT /\ i.v \in Extended /\ Len(i.v.data) = FixextSize[i.kind]

LEMMA ItemsHaveShape ==
  ASSUME NEW i \in Items
  PROVE  Shape(i)
<1>1. /\ BYTE \in Nat /\ BYTE > 64 /\ W32 \in Nat /\ W64 \in Nat /\ FIXMAP_MARKER \in Nat
      /\ FIXMAP_MARKER # 0 /\ MinNfix \in Int /\ MinNfix < 0
  BY LayoutFacts, FamiliesGrow
<1>2. Values[W16] \in Nat /\ BYTE < Values[W16] /\ Full(4) \in Nat /\ Half(4) \in Nat
      /\ Full(4) = 2 * Half(4) /\ Half(4) # 0
  BY ValuesOfFields, FamiliesGrow
<1>3. Twos(W64) = -Half(4) .. Half(4) - 1 /\ Unsigned(W64) = 0 .. Full(4) - 1
  BY Families DEF Twos, Unsigned, Full, Half
<1>4. -2 \in Twos(1) /\ -1 \in Twos(1) /\ 3 \in Twos(1) /\ 5 \in Twos(1)
  <2>1. Values[1] \div 2 \in Nat /\ Values[1] = 2 * (Values[1] \div 2) /\ Values[1] = BYTE
    BY ValuesEven, ValuesType
  <2> QED
    BY <1>1, <2>1 DEF Twos
<1>5. ASSUME NEW n \in Nat, NEW ty \in Twos(1)
      PROVE  [type |-> ty, data |-> Data(n)] \in Extended /\ [type |-> ty, data |-> Data(n)].data = Data(n)
  BY DataIs DEF Extended
<1>6. CASE i \in Item("integer", NonNegative \cup Negative)
  <2>1. i.kind = "integer" /\ i.v \in NonNegative \cup Negative
    BY <1>6, ItemIs
  <2>2. i.v \in 0 .. Half(4) - 1 \/ i.v \in -Half(4) .. -1
    BY <2>1, Constants
  <2>3. i.v \in Twos(W64)
    BY <1>2, <1>3, <2>2
  <2> QED
    BY <2>1, <2>3 DEF Shape
<1>7. CASE i \in Item("uinteger", NonNegative \cup {Power("UINT64") - 1})
  <2>1. i.kind = "uinteger" /\ i.v \in NonNegative \cup {Power("UINT64") - 1}
    BY <1>7, ItemIs
  <2>2. i.v \in 0 .. Half(4) - 1 \/ i.v = Full(4) - 1
    BY <2>1, Constants
  <2>3. i.v \in Unsigned(W64)
    BY <1>2, <1>3, <2>2
  <2> QED
    BY <2>1, <2>3 DEF Shape
<1>8. CASE i \in Item("decimal", {[float |-> Data(W32), double |-> Data(W64)],
                                  [float |-> << >>, double |-> Data(W64)]})
  <2>1. /\ i.kind = "decimal"
        /\ i.v \in {[float |-> Data(W32), double |-> Data(W64)],
                    [float |-> << >>, double |-> Data(W64)]}
    BY <1>8, ItemIs
  <2>2. i.v.double = Data(W64) /\ (i.v.float # << >> => i.v.float = Data(W32))
    BY <2>1
  <2> QED
    BY <1>1, <2>1, <2>2, DataIs DEF Shape
<1>9. CASE i \in Item("nil", {0}) \cup Item("bool", BOOLEAN) \cup Item("u8_as_bool", {0, 2})
  <2>1. \/ i.kind = "nil" /\ i.v = 0
        \/ i.kind = "bool" /\ i.v \in BOOLEAN
        \/ i.kind = "u8_as_bool" /\ i.v \in Nat
    BY <1>9, ItemIs
  <2> QED
    BY <2>1 DEF Shape
<1>10. ASSUME NEW kind \in {"str", "str_v4", "bin"}, i \in Item(kind, {Data(n) : n \in Sizes})
       PROVE  Shape(i)
  <2>1. i.kind = kind /\ i.v \in {Data(n) : n \in Sizes}
    BY <1>10, ItemIs
  <2>2. PICK n \in 0 .. BYTE : i.v = Data(n)
    BY <2>1, Constants
  <2>3. i.v \in Seq(Byte) /\ Len(i.v) = n
    BY <1>1, <2>2, DataIs
  <2> QED
    BY <2>1, <2>3 DEF Shape
<1>11. ASSUME NEW kind \in {"str_marker", "str_marker_v4", "bin_marker", "array", "map"},
              i \in Item(kind, LongSizes)
       PROVE  Shape(i)
  <2>1. i.kind = kind /\ i.v \in 0 .. Values[W16]
    BY <1>11, ItemIs, Constants
  <2> QED
    BY <2>1 DEF Shape
<1>12. CASE i \in Item("sfix", {MinNfix, -1, 0, FIXMAP_MARKER - 1})
  <2>1. i.kind = "sfix" /\ i.v \in {MinNfix, -1, 0, FIXMAP_MARKER - 1}
    BY <1>12, ItemIs
  <2>2. i.v \in MinNfix .. FIXMAP_MARKER - 1
    BY <1>1, <2>1
  <2> QED
    BY <2>1, <2>2 DEF Shape
<1>13. CASE i \in Item("ext", {[type |-> ty, data |-> Data(n)] : ty \in {-1, 5},
                               n \in {0, 1, 2, 3, 4, 8, 16, 17, BYTE}})
  <2>1. /\ i.kind = "ext"
        /\ i.v \in {[type |-> ty, data |-> Data(n)] : ty \in {-1, 5},
                      n \in {0, 1, 2, 3, 4, 8, 16, 17, BYTE}}
    BY <1>13, ItemIs
  <2>2. PICK ty \in {-1, 5}, n \in {0, 1, 2, 3, 4, 8, 16, 17, BYTE} :
          i.v = [type |-> ty, data |-> Data(n)]
    BY <2>1
  <2>3. n \in 0 .. BYTE /\ ty \in Twos(1)
    BY <1>1, <1>4
  <2>4. i.v \in Extended /\ i.v.data = Data(n)
    BY <1>5, <2>2, <2>3
  <2>5. Len(i.v.data) = n /\ n <= BYTE
    BY <2>3, <2>4, DataIs
  <2> QED
    BY <2>1, <2>4, <2>5 DEF Shape
<1>14. CASE i \in Item("ext_marker", {[type |-> -1, size |-> n] :
                                      n \in {0, 1, 2, 3, 4, 8, 16, 17, BYTE, Power("EXT16")}})
  <2>1. /\ i.kind = "ext_marker"
        /\ i.v \in {[type |-> -1, size |-> n] :
                      n \in {0, 1, 2, 3, 4, 8, 16, 17, BYTE, Power("EXT16")}}
    BY <1>14, ItemIs
  <2>2. PICK n \in {0, 1, 2, 3, 4, 8, 16, 17, BYTE, Power("EXT16")} :
          i.v = [type |-> -1, size |-> n]
    BY <2>1
  <2>3. n \in 0 .. Values[W16]
    BY <1>1, <1>2, Constants
  <2>4. i.v \in [type : Twos(1), size : 0 .. Values[W16]]
    BY <1>4, <2>2, <2>3
  <2> QED
    BY <2>1, <2>4 DEF Shape
<1>15. ASSUME NEW k \in 1 .. 4, i \in Item(SIGNED[k], {-1, 1}) \cup Item(UNSIGNED[k], {1})
       PROVE  Shape(i)
  <2>1. \/ i.kind = SIGNED[k] /\ i.v \in {-1, 1}
        \/ i.kind = UNSIGNED[k] /\ i.v = 1
    BY <1>15, ItemIs
  <2> QED
    BY <2>1 DEF Shape
<1>16. ASSUME NEW t \in STR \cup BIN, i \in Item(t, {Data(3)}) PROVE Shape(i)
  <2>1. i.kind = t /\ i.v = Data(3)
    BY <1>16, ItemIs
  <2>2. i.v \in Seq(Byte) /\ Len(i.v) = 3
    BY <2>1, DataIs
  <2> QED
    BY <2>1, <2>2 DEF Shape
<1>17. ASSUME NEW t \in EXT, i \in Item(t, {[type |-> -2, data |-> Data(3)]}) PROVE Shape(i)
  <2>1. i.kind = t /\ i.v = [type |-> -2, data |-> Data(3)]
    BY <1>17, ItemIs
  <2>2. i.v \in Extended /\ i.v.data = Data(3)
    BY <1>4, <1>5, <2>1
  <2>3. Len(i.v.data) = 3
    BY <2>2, DataIs
  <2> QED
    BY <2>1, <2>2, <2>3 DEF Shape
<1>18. ASSUME NEW t \in FIXEXT, i \in Item(t, {[type |-> 3, data |-> Data(FixextSize[t])]})
       PROVE  Shape(i)
  <2>1. PICK n \in Nat : n = FixextSize[t]
    BY FixextSizes
  <2>2. i.kind = t /\ i.v = [type |-> 3, data |-> Data(n)]
    BY <1>18, <2>1, ItemIs
  <2>3. i.v \in Extended /\ i.v.data = Data(n)
    BY <1>4, <1>5, <2>2
  <2>4. Len(i.v.data) = n
    BY <2>3, DataIs
  <2> QED
    BY <2>1, <2>2, <2>3, <2>4 DEF Shape
<1>19. CASE \/ \E kind \in {"str", "str_v4", "bin"} : i \in Item(kind, {Data(n) : n \in Sizes})
            \/ \E kind \in {"str_marker", "str_marker_v4", "bin_marker", "array", "map"} :
                 i \in Item(kind, LongSizes)
  BY <1>10, <1>11, <1>19
<1>20. CASE \/ i \in UNION {Item(SIGNED[k], {-1, 1}) \cup Item(UNSIGNED[k], {1}) : k \in 1 .. 4}
            \/ i \in UNION {Item(t, {Data(3)}) : t \in STR \cup BIN}
            \/ i \in UNION {Item(t, {[type |-> -2, data |-> Data(3)]}) : t \in EXT}
            \/ i \in UNION {Item(t, {[type |-> 3, data |-> Data(FixextSize[t])]}) : t \in FIXEXT}
  BY <1>15, <1>16, <1>17, <1>18, <1>20
<1> DEFINE
  numbers == Item("integer", NonNegative \cup Negative)
  unsigned == Item("uinteger", NonNegative \cup {Power("UINT64") - 1})
  decimals == Item("decimal", {[float |-> Data(W32), double |-> Data(W64)],
                               [float |-> << >>, double |-> Data(W64)]})
  simple == Item("nil", {0}) \cup Item("bool", BOOLEAN) \cup Item("u8_as_bool", {0, 2})
  texts(kind) == Item(kind, {Data(n) : n \in Sizes})
  counts(kind) == Item(kind, LongSizes)
  fixnums == Item("sfix", {MinNfix, -1, 0, FIXMAP_MARKER - 1})
  exts == Item("ext", {[type |-> ty, data |-> Data(n)] : ty \in {-1, 5},
                 n \in {0, 1, 2, 3, 4, 8, 16, 17, BYTE}})
  markers == Item("ext_marker", {[type |-> -1, size |-> n] :
                    n \in {0, 1, 2, 3, 4, 8, 16, 17, BYTE, Power("EXT16")}})
  exact == UNION {Item(SIGNED[k], {-1, 1}) \cup Item(UNSIGNED[k], {1}) : k \in 1 .. 4}
  exactTexts == UNION {Item(t, {Data(3)}) : t \in STR \cup BIN}
  exactExts == UNION {Item(t, {[type |-> -2, data |-> Data(3)]}) : t \in EXT}
  exactFixexts == UNION {Item(t, {[type |-> 3, data |-> Data(FixextSize[t])]}) : t \in FIXEXT}
<1>21. Items =
         numbers \cup unsigned \cup decimals \cup Item("nil", {0}) \cup Item("bool", BOOLEAN)
         \cup Item("u8_as_bool", {0, 2}) \cup texts("str") \cup texts("str_v4")
         \cup counts("str_marker") \cup counts("str_marker_v4") \cup texts("bin")
         \cup counts("bin_marker") \cup counts("array") \cup counts("map") \cup fixnums
         \cup exts \cup markers \cup exact \cup exactTexts \cup exactExts \cup exactFixexts
  BY DEF Items
<1>22. /\ i \in numbers => Shape(i)
       /\ i \in unsigned => Shape(i)
       /\ i \in decimals => Shape(i)
       /\ i \in simple => Shape(i)
       /\ i \in fixnums => Shape(i)
       /\ i \in exts => Shape(i)
       /\ i \in markers => Shape(i)
  <2>1. i \in numbers => Shape(i)
    BY <1>6
  <2>2. i \in unsigned => Shape(i)
    BY <1>7
  <2>3. i \in decimals => Shape(i)
    BY <1>8
  <2>4. i \in simple => Shape(i)
    BY <1>9
  <2>5. i \in fixnums => Shape(i)
    BY <1>12
  <2>6. i \in exts => Shape(i)
    BY <1>13
  <2>7. i \in markers => Shape(i)
    BY <1>14
  <2> HIDE DEF numbers, unsigned, decimals, simple, fixnums, exts, markers
  <2> QED
    BY <2>1, <2>2, <2>3, <2>4, <2>5, <2>6, <2>7
<1>23. /\ i \in exact => Shape(i)
       /\ i \in exactTexts => Shape(i)
       /\ i \in exactExts => Shape(i)
       /\ i \in exactFixexts => Shape(i)
  BY <1>20
<1>24. /\ \A kind \in {"str", "str_v4", "bin"} : i \in texts(kind) => Shape(i)
       /\ \A kind \in {"str_marker", "str_marker_v4", "bin_marker", "array", "map"} :
            i \in counts(kind) => Shape(i)
  BY <1>19
<1> HIDE DEF numbers, unsigned, decimals, texts, counts, fixnums, exts, markers, exact, exactTexts,
             exactExts, exactFixexts
<1> QED
  BY <1>21, <1>22, <1>23, <1>24 DEF simple

-----------------------------------------------------------------------------
(* The writer and the reader of every kind of value.                       *)

LEMMA KindsDiffer ==
  /\ \A k \in {"integer", "uinteger", "decimal", "nil", "bool", "u8_as_bool", "str", "str_v4",
             "str_marker", "str_marker_v4", "bin", "bin_marker", "array", "map", "sfix", "ext",
             "ext_marker"} :
       /\ k \notin ToSet(SIGNED) /\ k \notin ToSet(UNSIGNED) /\ k \notin STR /\ k \notin BIN
       /\ k \notin EXT /\ k \notin FIXEXT
  /\ \A k \in ToSet(SIGNED) : k \notin ToSet(UNSIGNED) /\ k \notin STR /\ k \notin BIN
                             /\ k \notin EXT /\ k \notin FIXEXT
  /\ \A k \in ToSet(UNSIGNED) : k \notin STR /\ k \notin BIN /\ k \notin EXT /\ k \notin FIXEXT
  /\ \A k \in STR : k \notin BIN /\ k \notin EXT /\ k \notin FIXEXT
  /\ \A k \in BIN : k \notin EXT /\ k \notin FIXEXT
  /\ \A k \in EXT : k \notin FIXEXT
BY Types DEF Signed

LEMMA WriterOf ==
  ASSUME NEW c, NEW i
  PROVE  /\ i.kind = "integer" => WriteItem(c, i) = cmp_write_integer(c, i.v)
         /\ i.kind = "uinteger" => WriteItem(c, i) = cmp_write_uinteger(c, i.v)
         /\ i.kind = "decimal" => WriteItem(c, i) = cmp_write_decimal(c, i.v)
         /\ i.kind = "nil" => WriteItem(c, i) = cmp_write_nil(c)
         /\ i.kind = "bool" => WriteItem(c, i) = cmp_write_bool(c, i.v)
         /\ i.kind = "u8_as_bool" => WriteItem(c, i) = cmp_write_u8_as_bool(c, i.v)
         /\ i.kind \in {"str", "str_v4"} => WriteItem(c, i) = cmp_write_str(c, i.v, i.kind = "str_v4")
         /\ i.kind \in {"str_marker", "str_marker_v4"} => WriteItem(c, i) = cmp_write_str_marker(c, i.v, i.kind = "str_marker_v4")
         /\ i.kind = "bin" => WriteItem(c, i) = cmp_write_bin(c, i.v)
         /\ i.kind = "bin_marker" => WriteItem(c, i) = cmp_write_bin_marker(c, i.v)
         /\ i.kind = "array" => WriteItem(c, i) = cmp_write_array(c, i.v)
         /\ i.kind = "map" => WriteItem(c, i) = cmp_write_map(c, i.v)
         /\ i.kind = "sfix" => WriteItem(c, i) = cmp_write_sfix(c, i.v)
         /\ i.kind = "ext" => WriteItem(c, i) = cmp_write_ext(c, i.v.type, i.v.data)
         /\ i.kind = "ext_marker" => WriteItem(c, i) = cmp_write_ext_marker(c, i.v.type, i.v.size)
         /\ i.kind \in ToSet(SIGNED) => WriteItem(c, i) = WriteSigned(c, i.kind, i.v)
         /\ i.kind \in ToSet(UNSIGNED) => WriteItem(c, i) = WriteUnsigned(c, i.kind, i.v)
         /\ i.kind \in STR => WriteItem(c, i) = WriteStr(c, i.kind, i.v)
         /\ i.kind \in BIN => WriteItem(c, i) = WriteBin(c, i.kind, i.v)
         /\ i.kind \in EXT => WriteItem(c, i) = WriteExt(WriteExtMarker(c, i.kind, i.v.type, Len(i.v.data)), i.v.data)
         /\ i.kind \in FIXEXT => WriteItem(c, i) = WriteExt(WriteFixextMarker(c, i.kind, i.v.type), i.v.data)
<1> DEFINE w == WriteItem(c, i)
<1>1. i.kind = "integer" => w = cmp_write_integer(c, i.v)
  BY KindsDiffer DEF WriteItem
<1>2. i.kind = "uinteger" => w = cmp_write_uinteger(c, i.v)
  BY KindsDiffer DEF WriteItem
<1>3. i.kind = "decimal" => w = cmp_write_decimal(c, i.v)
  BY KindsDiffer DEF WriteItem
<1>4. i.kind = "nil" => w = cmp_write_nil(c)
  BY KindsDiffer DEF WriteItem
<1>5. i.kind = "bool" => w = cmp_write_bool(c, i.v)
  BY KindsDiffer DEF WriteItem
<1>6. i.kind = "u8_as_bool" => w = cmp_write_u8_as_bool(c, i.v)
  BY KindsDiffer DEF WriteItem
<1>7. i.kind \in {"str", "str_v4"} => w = cmp_write_str(c, i.v, i.kind = "str_v4")
  BY KindsDiffer DEF WriteItem
<1>8. i.kind \in {"str_marker", "str_marker_v4"} => w = cmp_write_str_marker(c, i.v, i.kind = "str_marker_v4")
  BY KindsDiffer DEF WriteItem
<1>9. i.kind = "bin" => w = cmp_write_bin(c, i.v)
  BY KindsDiffer DEF WriteItem
<1>10. i.kind = "bin_marker" => w = cmp_write_bin_marker(c, i.v)
  BY KindsDiffer DEF WriteItem
<1>11. i.kind = "array" => w = cmp_write_array(c, i.v)
  BY KindsDiffer DEF WriteItem
<1>12. i.kind = "map" => w = cmp_write_map(c, i.v)
  BY KindsDiffer DEF WriteItem
<1>13. i.kind = "sfix" => w = cmp_write_sfix(c, i.v)
  BY KindsDiffer DEF WriteItem
<1>14. i.kind = "ext" => w = cmp_write_ext(c, i.v.type, i.v.data)
  BY KindsDiffer DEF WriteItem
<1>15. i.kind = "ext_marker" => w = cmp_write_ext_marker(c, i.v.type, i.v.size)
  BY KindsDiffer DEF WriteItem
<1>16. i.kind \in ToSet(SIGNED) => w = WriteSigned(c, i.kind, i.v)
  BY KindsDiffer DEF WriteItem
<1>17. i.kind \in ToSet(UNSIGNED) => w = WriteUnsigned(c, i.kind, i.v)
  BY KindsDiffer DEF WriteItem
<1>18. i.kind \in STR => w = WriteStr(c, i.kind, i.v)
  BY KindsDiffer DEF WriteItem
<1>19. i.kind \in BIN => w = WriteBin(c, i.kind, i.v)
  BY KindsDiffer DEF WriteItem
<1>20. i.kind \in EXT => w = WriteExt(WriteExtMarker(c, i.kind, i.v.type, Len(i.v.data)), i.v.data)
  BY KindsDiffer DEF WriteItem
<1>21. i.kind \in FIXEXT => w = WriteExt(WriteFixextMarker(c, i.kind, i.v.type), i.v.data)
  BY KindsDiffer DEF WriteItem
<1> HIDE DEF w
<1> QED
  BY <1>1, <1>2, <1>3, <1>4, <1>5, <1>6, <1>7, <1>8, <1>9, <1>10, <1>11, <1>12, <1>13, <1>14, <1>15, <1>16, <1>17, <1>18, <1>19, <1>20, <1>21 DEF w

LEMMA ReaderOf ==
  ASSUME NEW c, NEW i
  PROVE  /\ i.kind = "integer" => ReadItem(c, i) = ReadSigned(c, 4)
         /\ i.kind = "uinteger" => ReadItem(c, i) = ReadUnsigned(c, 4)
         /\ i.kind = "decimal" => ReadItem(c, i) = cmp_read_decimal(c)
         /\ i.kind = "nil" => ReadItem(c, i) = ReadSimple(c, "NIL")
         /\ i.kind \in {"bool", "u8_as_bool"} => ReadItem(c, i) = ReadSimple(c, "BOOLEAN")
         /\ i.kind \in {"str", "str_v4"} => ReadItem(c, i) = cmp_read_str(c, Len(i.v) + 1)
         /\ i.kind \in {"str_marker", "str_marker_v4"} => ReadItem(c, i) = cmp_read_str_size(c)
         /\ i.kind = "bin" => ReadItem(c, i) = cmp_read_bin(c, Len(i.v))
         /\ i.kind = "bin_marker" => ReadItem(c, i) = cmp_read_bin_size(c)
         /\ i.kind = "array" => ReadItem(c, i) = cmp_read_array(c)
         /\ i.kind = "map" => ReadItem(c, i) = cmp_read_map(c)
         /\ i.kind = "sfix" => ReadItem(c, i) = cmp_read_sfix(c)
         /\ i.kind = "ext" => ReadItem(c, i) = cmp_read_ext(c)
         /\ i.kind = "ext_marker" => ReadItem(c, i) = cmp_read_ext_marker(c)
         /\ i.kind \in ToSet(SIGNED) => ReadItem(c, i) = ReadExactly(c, i.kind)
         /\ i.kind \in ToSet(UNSIGNED) => ReadItem(c, i) = ReadExactUnsigned(c, i.kind)
         /\ i.kind \in STR => ReadItem(c, i) = ViaObject(c, cmp_object_to_str, Len(i.v) + 1)
         /\ i.kind \in BIN => ReadItem(c, i) = ViaObject(c, cmp_object_to_bin, Len(i.v))
         /\ i.kind \in EXT => ReadItem(c, i) = ReadExt(c, i.kind)
         /\ i.kind \in FIXEXT => ReadItem(c, i) = ReadFixext(c, i.kind)
<1> DEFINE w == ReadItem(c, i)
<1>1. i.kind = "integer" => w = ReadSigned(c, 4)
  BY KindsDiffer DEF ReadItem
<1>2. i.kind = "uinteger" => w = ReadUnsigned(c, 4)
  BY KindsDiffer DEF ReadItem
<1>3. i.kind = "decimal" => w = cmp_read_decimal(c)
  BY KindsDiffer DEF ReadItem
<1>4. i.kind = "nil" => w = ReadSimple(c, "NIL")
  BY KindsDiffer DEF ReadItem
<1>5. i.kind \in {"bool", "u8_as_bool"} => w = ReadSimple(c, "BOOLEAN")
  BY KindsDiffer DEF ReadItem
<1>6. i.kind \in {"str", "str_v4"} => w = cmp_read_str(c, Len(i.v) + 1)
  BY KindsDiffer DEF ReadItem
<1>7. i.kind \in {"str_marker", "str_marker_v4"} => w = cmp_read_str_size(c)
  BY KindsDiffer DEF ReadItem
<1>8. i.kind = "bin" => w = cmp_read_bin(c, Len(i.v))
  BY KindsDiffer DEF ReadItem
<1>9. i.kind = "bin_marker" => w = cmp_read_bin_size(c)
  BY KindsDiffer DEF ReadItem
<1>10. i.kind = "array" => w = cmp_read_array(c)
  BY KindsDiffer DEF ReadItem
<1>11. i.kind = "map" => w = cmp_read_map(c)
  BY KindsDiffer DEF ReadItem
<1>12. i.kind = "sfix" => w = cmp_read_sfix(c)
  BY KindsDiffer DEF ReadItem
<1>13. i.kind = "ext" => w = cmp_read_ext(c)
  BY KindsDiffer DEF ReadItem
<1>14. i.kind = "ext_marker" => w = cmp_read_ext_marker(c)
  BY KindsDiffer DEF ReadItem
<1>15. i.kind \in ToSet(SIGNED) => w = ReadExactly(c, i.kind)
  BY KindsDiffer DEF ReadItem
<1>16. i.kind \in ToSet(UNSIGNED) => w = ReadExactUnsigned(c, i.kind)
  BY KindsDiffer DEF ReadItem
<1>17. i.kind \in STR => w = ViaObject(c, cmp_object_to_str, Len(i.v) + 1)
  BY KindsDiffer DEF ReadItem
<1>18. i.kind \in BIN => w = ViaObject(c, cmp_object_to_bin, Len(i.v))
  BY KindsDiffer DEF ReadItem
<1>19. i.kind \in EXT => w = ReadExt(c, i.kind)
  BY KindsDiffer DEF ReadItem
<1>20. i.kind \in FIXEXT => w = ReadFixext(c, i.kind)
  BY KindsDiffer DEF ReadItem
<1> HIDE DEF w
<1> QED
  BY <1>1, <1>2, <1>3, <1>4, <1>5, <1>6, <1>7, <1>8, <1>9, <1>10, <1>11, <1>12, <1>13, <1>14, <1>15, <1>16, <1>17, <1>18, <1>19, <1>20 DEF w

-----------------------------------------------------------------------------
(* The header that each writer of a length or a number writes.             *)

LEMMA LengthObjects ==
  ASSUME NEW c, NEW n \in Nat
  PROVE  /\ \A t \in STR \cup BIN \cup ARRAY \cup MAP :
              cmp_write_object(c, [type |-> t, as |-> n]) = WriteLength(c, t, n)
         /\ n <= FIXSTR_SIZE =>
              cmp_write_object(c, [type |-> "FIXSTR", as |-> n]) = cmp_write_fixstr_marker(c, n)
         /\ n <= FIXARRAY_SIZE =>
              cmp_write_object(c, [type |-> "FIXARRAY", as |-> n]) = cmp_write_fixarray(c, n)
         /\ n <= FIXMAP_SIZE =>
              cmp_write_object(c, [type |-> "FIXMAP", as |-> n]) = cmp_write_fixmap(c, n)
<1>1. /\ FIXMAP_SIZE < BYTE /\ FIXARRAY_SIZE < BYTE /\ FIXSTR_SIZE < BYTE /\ BYTE \in Nat
      /\ FIXMAP_SIZE \in Nat /\ FIXARRAY_SIZE \in Nat /\ FIXSTR_SIZE \in Nat
  BY LayoutFacts
<1>2. "FIXSTR" \in Fixed /\ "FIXARRAY" \in Fixed /\ "FIXMAP" \in Fixed
  BY DEF Fixed
<1>3. n < BYTE => n % BYTE = n
  BY <1>1
<1>4. ASSUME NEW t, NEW o, o = [type |-> t, as |-> n]
      PROVE  /\ t \in STR \cup BIN \cup ARRAY \cup MAP => cmp_write_object(c, o) = WriteLength(c, t, n)
             /\ n <= FIXSTR_SIZE /\ t = "FIXSTR" =>
                  cmp_write_object(c, o) = cmp_write_fixstr_marker(c, n)
             /\ n <= FIXARRAY_SIZE /\ t = "FIXARRAY" =>
                  cmp_write_object(c, o) = cmp_write_fixarray(c, n)
             /\ n <= FIXMAP_SIZE /\ t = "FIXMAP" =>
                  cmp_write_object(c, o) = cmp_write_fixmap(c, n)
  <2>1. o.type = t /\ o.as = n
    BY <1>4
  <2> HIDE <1>4
  <2>2. t \in STR \cup BIN \cup ARRAY \cup MAP => cmp_write_object(c, o) = WriteLength(c, t, n)
    BY <2>1, Alternatives DEF cmp_write_object, Fixed
  <2>3. ASSUME n <= FIXSTR_SIZE, t = "FIXSTR"
        PROVE  cmp_write_object(c, o) = cmp_write_fixstr_marker(c, n)
    <3>1. n % BYTE = n
      BY <1>1, <1>3, <2>3
    <3>2. cmp_write_object(c, o) = cmp_write_fixstr_marker(c, o.as % BYTE)
      BY <1>2, <2>1, <2>3, Alternatives DEF cmp_write_object
    <3> QED
      BY <2>1, <3>1, <3>2
  <2>4. ASSUME n <= FIXARRAY_SIZE, t = "FIXARRAY"
        PROVE  cmp_write_object(c, o) = cmp_write_fixarray(c, n)
    <3>1. n % BYTE = n
      BY <1>1, <1>3, <2>4
    <3>2. cmp_write_object(c, o) = cmp_write_fixarray(c, o.as % BYTE)
      BY <1>2, <2>1, <2>4, Alternatives DEF cmp_write_object
    <3> QED
      BY <2>1, <3>1, <3>2
  <2>5. ASSUME n <= FIXMAP_SIZE, t = "FIXMAP"
        PROVE  cmp_write_object(c, o) = cmp_write_fixmap(c, n)
    <3>1. n % BYTE = n
      BY <1>1, <1>3, <2>5
    <3>2. cmp_write_object(c, o) = cmp_write_fixmap(c, o.as % BYTE)
      BY <1>2, <2>1, <2>5, Alternatives DEF cmp_write_object
    <3> QED
      BY <2>1, <3>1, <3>2
  <2> QED
    BY <2>2, <2>3, <2>4, <2>5
<1> QED
  BY <1>4

\* h writes the header of the object of type t with the value v.
Heads(h, c, t, v) ==
  t \in Fixed \cup Marked /\ Legal(t, v) /\ h = cmp_write_object(c, [type |-> t, as |-> v])

\* A length of a type, for every type of strings, data, arrays and maps.
LEMMA LengthIsLegal ==
  ASSUME NEW n \in Nat
  PROVE  /\ \A t \in STR \cup BIN \cup ARRAY \cup MAP :
              t \in Marked /\ (n < Values[Width[t]] => Legal(t, n))
         /\ n <= FIXSTR_SIZE => Legal("FIXSTR", n)
         /\ n <= FIXARRAY_SIZE => Legal("FIXARRAY", n)
         /\ n <= FIXMAP_SIZE => Legal("FIXMAP", n)
<1>1. FIXMAP_SIZE \in Nat /\ FIXARRAY_SIZE \in Nat /\ FIXSTR_SIZE \in Nat
  BY LayoutFacts
<1>2. ASSUME NEW t \in STR \cup BIN \cup ARRAY \cup MAP, n < Values[Width[t]]
      PROVE  Legal(t, n)
  <2>1. t \notin Fixed /\ t \in Counted
    BY Alternatives DEF Counted
  <2>2. Width[t] \in Nat
    BY <2>1, Widths, Sorts DEF Marked
  <2>3. Values[Width[t]] \in Nat
    BY <2>2, ValuesType
  <2>4. n \in Unsigned(Width[t])
    BY <1>2, <2>3 DEF Unsigned
  <2> QED
    BY <2>1, <2>4 DEF Legal, Fixed
<1>3. \A t \in STR \cup BIN \cup ARRAY \cup MAP : t \in Marked
  BY DEF Marked, Counted
<1>4. n <= FIXSTR_SIZE => Legal("FIXSTR", n)
  BY <1>1 DEF Legal
<1>5. n <= FIXARRAY_SIZE => Legal("FIXARRAY", n)
  BY <1>1 DEF Legal
<1>6. n <= FIXMAP_SIZE => Legal("FIXMAP", n)
  BY <1>1 DEF Legal
<1> QED
  BY <1>2, <1>3, <1>4, <1>5, <1>6

LEMMA StrHeads ==
  ASSUME NEW c, NEW n \in Nat, n < Values[W32]
  PROVE  /\ \A v4 \in BOOLEAN : /\ StrType(n, v4) \in {"FIXSTR"} \cup STR
                                /\ Heads(cmp_write_str_marker(c, n, v4), c, StrType(n, v4), n)
         /\ BinType(n) \in BIN /\ Heads(cmp_write_bin_marker(c, n), c, BinType(n), n)
<1>1. Width["STR8"] = 1 /\ Width["STR16"] = W16 /\ Width["STR32"] = W32
      /\ Width["BIN8"] = 1 /\ Width["BIN16"] = W16 /\ Width["BIN32"] = W32 /\ Values[1] = BYTE
  BY Widths, ValuesType
<1>2. "FIXSTR" \in Fixed
  BY DEF Fixed
<1>3. ASSUME NEW v4 \in BOOLEAN, NEW t, t = StrType(n, v4)
      PROVE  t \in {"FIXSTR"} \cup STR /\ Heads(cmp_write_str_marker(c, n, v4), c, t, n)
  <2>1. \/ t = "FIXSTR" /\ n <= FIXSTR_SIZE
        \/ t \in STR /\ t # "FIXSTR" /\ n < Values[Width[t]]
    BY <1>1, <1>3 DEF StrType, STR
  <2>2. cmp_write_str_marker(c, n, v4) =
          IF t = "FIXSTR" THEN cmp_write_fixstr_marker(c, n) ELSE WriteLength(c, t, n)
    BY <1>3 DEF cmp_write_str_marker
  <2>3. CASE t = "FIXSTR" /\ n <= FIXSTR_SIZE
    BY <1>2, <2>2, <2>3, LengthObjects, LengthIsLegal DEF Heads
  <2>4. CASE t \in STR /\ t # "FIXSTR" /\ n < Values[Width[t]]
    BY <2>2, <2>4, LengthObjects, LengthIsLegal DEF Heads
  <2> QED
    BY <2>1, <2>3, <2>4
<1>4. ASSUME NEW t, t = BinType(n)
      PROVE  t \in BIN /\ Heads(cmp_write_bin_marker(c, n), c, t, n)
  <2>1. t \in BIN /\ n < Values[Width[t]]
    BY <1>1, <1>4 DEF BinType, BIN
  <2>2. cmp_write_bin_marker(c, n) = WriteLength(c, t, n)
    BY <1>4 DEF cmp_write_bin_marker
  <2> QED
    BY <2>1, <2>2, LengthObjects, LengthIsLegal DEF Heads
<1> QED
  BY <1>3, <1>4

MapType(n) ==
  IF n <= FIXMAP_SIZE THEN "FIXMAP" ELSE IF n < Values[W16] THEN "MAP16" ELSE "MAP32"

LEMMA ArrayHeads ==
  ASSUME NEW c, NEW n \in Nat, n < Values[W32]
  PROVE  /\ ArrayType(n) \in {"FIXARRAY"} \cup ARRAY
         /\ Heads(cmp_write_array(c, n), c, ArrayType(n), n)
         /\ MapType(n) \in {"FIXMAP"} \cup MAP
         /\ Heads(cmp_write_map(c, n), c, MapType(n), n)
<1>1. Width["ARRAY16"] = W16 /\ Width["ARRAY32"] = W32 /\ Width["MAP16"] = W16
      /\ Width["MAP32"] = W32
  BY Widths
<1>2. "FIXARRAY" \in Fixed /\ "FIXMAP" \in Fixed
  BY DEF Fixed
<1>3. ASSUME NEW t, t = ArrayType(n)
      PROVE  t \in {"FIXARRAY"} \cup ARRAY /\ Heads(cmp_write_array(c, n), c, t, n)
  <2>1. CASE n <= FIXARRAY_SIZE
    <3>1. t = "FIXARRAY" /\ cmp_write_array(c, n) = cmp_write_fixarray(c, n)
      BY <1>3, <2>1 DEF ArrayType, cmp_write_array
    <3> QED
      BY <1>2, <2>1, <3>1, LengthObjects, LengthIsLegal DEF Heads
  <2>2. CASE ~(n <= FIXARRAY_SIZE)
    <3>1. t \in ARRAY /\ n < Values[Width[t]] /\ cmp_write_array(c, n) = WriteLength(c, t, n)
      BY <1>1, <1>3, <2>2 DEF ArrayType, cmp_write_array, ARRAY
    <3> QED
      BY <3>1, LengthObjects, LengthIsLegal DEF Heads
  <2> QED
    BY <2>1, <2>2
<1>4. ASSUME NEW t, t = MapType(n)
      PROVE  t \in {"FIXMAP"} \cup MAP /\ Heads(cmp_write_map(c, n), c, t, n)
  <2>1. CASE n <= FIXMAP_SIZE
    <3>1. t = "FIXMAP" /\ cmp_write_map(c, n) = cmp_write_fixmap(c, n)
      BY <1>4, <2>1 DEF MapType, cmp_write_map
    <3> QED
      BY <1>2, <2>1, <3>1, LengthObjects, LengthIsLegal DEF Heads
  <2>2. CASE ~(n <= FIXMAP_SIZE)
    <3>1. t \in MAP /\ n < Values[Width[t]] /\ cmp_write_map(c, n) = WriteLength(c, t, n)
      BY <1>1, <1>4, <2>2 DEF MapType, cmp_write_map, MAP
    <3> QED
      BY <3>1, LengthObjects, LengthIsLegal DEF Heads
  <2> QED
    BY <2>1, <2>2
<1> QED
  BY <1>3, <1>4

LEMMA ExtHeads ==
  ASSUME NEW c, NEW ty \in Twos(1), NEW n \in Nat, n < Values[W32]
  PROVE  /\ \A t \in FIXEXT : n = FixextSize[t] =>
              Heads(WriteFixextMarker(c, t, ty), c, t, [type |-> ty, size |-> n])
         /\ \A t \in EXT : n < Values[Width[t]] =>
              Heads(WriteExtMarker(c, t, ty, n), c, t, [type |-> ty, size |-> n])
         /\ ExtType(n) \in EXT \cup FIXEXT
         /\ Heads(cmp_write_ext_marker(c, ty, n), c, ExtType(n), [type |-> ty, size |-> n])
<1> DEFINE v == [type |-> ty, size |-> n]
<1>1. v.type = ty /\ v.size = n
  OBVIOUS
<1>2. ASSUME NEW t \in FIXEXT, n = FixextSize[t]
      PROVE  Heads(WriteFixextMarker(c, t, ty), c, t, v)
  <2>1. t \in Marked /\ t \notin Fixed /\ t \notin Counted /\ t \notin Signed /\ t \notin Real
    BY Sorts DEF Marked
  <2>2. Legal(t, v)
    BY <1>2, <2>1 DEF Legal, Fixed
  <2> HIDE DEF v
  <2>3. cmp_write_object(c, [type |-> t, as |-> v]) = WriteFixextMarker(c, t, v.type)
    <3>1. PICK o : o = [type |-> t, as |-> v]
      OBVIOUS
    <3>2. o.type = t /\ o.as = v
      BY <3>1
    <3>3. cmp_write_object(c, o) = WriteFixextMarker(c, t, v.type)
      BY <3>2, Alternatives DEF cmp_write_object, Fixed
    <3> QED
      BY <3>1, <3>3
  <2> QED
    BY <1>1, <2>1, <2>2, <2>3 DEF Heads
<1>3. ASSUME NEW t \in EXT, n < Values[Width[t]]
      PROVE  Heads(WriteExtMarker(c, t, ty, n), c, t, v)
  <2>1. /\ t \in Marked /\ t \notin Fixed /\ t \notin Counted /\ t \notin Signed /\ t \notin Real
        /\ t \notin FIXEXT
    BY Sorts DEF Marked
  <2>2. Width[t] \in Nat
    BY <2>1, Widths
  <2>3. n \in Unsigned(Width[t])
    BY <1>3, <2>2, ValuesType DEF Unsigned
  <2>4. Legal(t, v)
    BY <2>1, <2>3 DEF Legal, Fixed
  <2> HIDE DEF v
  <2>5. cmp_write_object(c, [type |-> t, as |-> v]) = WriteExtMarker(c, t, v.type, v.size)
    <3>1. PICK o : o = [type |-> t, as |-> v]
      OBVIOUS
    <3>2. o.type = t /\ o.as = v
      BY <3>1
    <3>3. cmp_write_object(c, o) = WriteExtMarker(c, t, v.type, v.size)
      BY <3>2, Alternatives DEF cmp_write_object, Fixed
    <3> QED
      BY <3>1, <3>3
  <2> QED
    BY <1>1, <2>1, <2>4, <2>5 DEF Heads
<1> HIDE DEF v
<1>4. PICK t : t = ExtType(n)
  OBVIOUS
<1>5. \/ t \in FIXEXT /\ n = FixextSize[t]
      \/ t \in EXT /\ n < Values[Width[t]]
  <2>1. CASE \E x \in FIXEXT : FixextSize[x] = n
    <3>1. t = CHOOSE x \in FIXEXT : FixextSize[x] = n
      BY <1>4, <2>1 DEF ExtType, FIXEXT
    <3>2. t \in FIXEXT /\ FixextSize[t] = n
      BY <2>1, <3>1
    <3> QED
      BY <3>2
  <2>2. CASE ~\E x \in FIXEXT : FixextSize[x] = n
    <3>1. t = IF n < BYTE THEN "EXT8" ELSE IF n < Values[W16] THEN "EXT16" ELSE "EXT32"
      BY <1>4, <2>2 DEF ExtType, FIXEXT
    <3>2. Width["EXT8"] = 1 /\ Width["EXT16"] = W16 /\ Width["EXT32"] = W32 /\ Values[1] = BYTE
      BY Widths, ValuesType
    <3> QED
      BY <3>1, <3>2 DEF EXT
  <2> QED
    BY <2>1, <2>2
<1>6. cmp_write_ext_marker(c, ty, n) =
        IF t \in FIXEXT THEN WriteFixextMarker(c, t, ty) ELSE WriteExtMarker(c, t, ty, n)
  BY <1>4 DEF cmp_write_ext_marker, FIXEXT
<1>7. Heads(cmp_write_ext_marker(c, ty, n), c, t, v)
  <2>1. CASE t \in FIXEXT /\ n = FixextSize[t]
    BY <1>2, <1>6, <2>1
  <2>2. CASE t \in EXT /\ n < Values[Width[t]]
    <3>1. t \notin FIXEXT
      BY <2>2, Sorts
    <3> QED
      BY <1>3, <1>6, <2>2, <3>1
  <2> QED
    BY <1>5, <2>1, <2>2
<1> QED
  BY <1>2, <1>3, <1>4, <1>5, <1>7 DEF v

-----------------------------------------------------------------------------
(* Every value is an object's header and the data behind it.               *)

\* x is the write of the data s after the write h, if there are data.
Adds(x, h, s) == IF s = << >> THEN x = h ELSE Follows(x, h, s)

Writes(i, t, v, s) ==
  \A c : Adds(WriteItem(c, i), cmp_write_object(c, [type |-> t, as |-> v]), s)

\* The reader's result x is m, or is m if the data s can be read in the context d.
Returned(x, d, m) == x.ok = TRUE /\ x.ctx = d /\ x.val = m
Took(x, d, s, m) ==
  /\ read(d, Len(s)).ok /\ read(d, Len(s)).data = s => Returned(x, read(d, Len(s)).ctx, m)
  /\ ~read(d, Len(s)).ok => x = Failure(read(d, Len(s)).ctx, "DATA_READING_ERROR")

Reads(i, t, v, s) ==
  \A c, d :
    /\ ~cmp_read_object(c).ok => ReadItem(c, i) = cmp_read_object(c)
    /\ cmp_read_object(c) = Object(d, t, v) =>
         \/ s = << >> /\ Returned(ReadItem(c, i), d, Meaning(i))
         \/ Took(ReadItem(c, i), d, s, Meaning(i))

Encodes(i, t, v, s) ==
  /\ t \in Fixed \cup Marked /\ Legal(t, v) /\ s \in Seq(Byte) /\ Len(s) <= BYTE
  /\ Writes(i, t, v, s) /\ Reads(i, t, v, s)

LEMMA ValueFields ==
  ASSUME NEW x, NEW d, NEW m, x = Value(d, m)
  PROVE  Returned(x, d, m)
BY DEF Value, Returned

\* A value that is a header alone.
LEMMA PlainItem ==
  ASSUME NEW i, NEW t, NEW v, \A c : Heads(WriteItem(c, i), c, t, v), Meaning(i) = v,
         \A c : ~cmp_read_object(c).ok => ReadItem(c, i) = cmp_read_object(c),
         \A c, d : cmp_read_object(c) = Object(d, t, v) => ReadItem(c, i) = Value(d, v)
  PROVE  Encodes(i, t, v, << >>)
<1>1. t \in Fixed \cup Marked /\ Legal(t, v)
  BY DEF Heads
<1>2. Writes(i, t, v, << >>)
  BY DEF Heads, Writes, Adds
<1>3. Reads(i, t, v, << >>)
  <2>1. ASSUME NEW c, NEW d, cmp_read_object(c) = Object(d, t, v)
        PROVE  Returned(ReadItem(c, i), d, Meaning(i))
    <3>1. ReadItem(c, i) = Value(d, v)
      BY <2>1
    <3> QED
      BY <3>1, ValueFields
  <2> QED
    BY <2>1 DEF Reads
<1>4. << >> \in Seq(Byte) /\ Len(<< >>) <= BYTE
  BY LayoutFacts
<1> QED
  BY <1>1, <1>2, <1>3, <1>4 DEF Encodes

\* A value that is a header and data.
LEMMA DataItem ==
  ASSUME NEW i, NEW t, NEW v, NEW s \in Seq(Byte), Len(s) <= BYTE,
         t \in Fixed \cup Marked, Legal(t, v), Writes(i, t, v, s),
         \A c : ~cmp_read_object(c).ok => ReadItem(c, i) = cmp_read_object(c),
         \A c, d : cmp_read_object(c) = Object(d, t, v) => Took(ReadItem(c, i), d, s, Meaning(i))
  PROVE  Encodes(i, t, v, s)
<1>1. Reads(i, t, v, s)
  BY DEF Reads
<1> QED
  BY <1>1 DEF Encodes

LEMMA IntegerEncodes ==
  ASSUME NEW i, i.kind = "integer", i.v \in Twos(W64)
  PROVE  Encodes(i, IntType(i.v), i.v, << >>)
<1>1. PICK v \in Int : v = i.v /\ -Half(4) <= v /\ v < Half(4)
  <2>1. Twos(W64) = -Half(4) .. Half(4) - 1
    BY Families DEF Twos, Full, Half
  <2>2. Half(4) \in Nat
    BY FamiliesGrow
  <2> QED
    BY <2>1, <2>2
<1>2. v < Full(4) /\ Half(4) \in Nat
  BY <1>1, FamiliesGrow
<1>3. PICK t : t = IntType(v)
  OBVIOUS
<1>4. Canonical(t, v)
  BY <1>1, <1>2, <1>3, IntTypeIs
<1>5. ASSUME NEW c PROVE Heads(WriteItem(c, i), c, t, v)
  BY <1>1, <1>3, <1>4, WriterOf, IntegerIsObject, CanonicalIsLegal DEF Heads
<1>6. AsSigned([type |-> t, as |-> v], 4)
  <2>1. PICK k \in 1 .. 4 : k = 4
    OBVIOUS
  <2> PICK signed \in BOOLEAN : signed = TRUE
    OBVIOUS
  <2>2. InRange(v, k, signed)
    BY <1>1, <2>1 DEF InRange, Half, Full, Bytes
  <2>3. As(t, v, k, signed)
    BY <1>4, <2>2, CanonicalIsTaken
  <2> QED
    BY <2>1, <2>3 DEF As
<1>7. ASSUME NEW c
      PROVE  ReadItem(c, i) =
               IF ~cmp_read_object(c).ok THEN cmp_read_object(c)
               ELSE IF AsSigned(cmp_read_object(c).val, 4)
               THEN Value(cmp_read_object(c).ctx, cmp_read_object(c).val.as)
               ELSE Failure(cmp_read_object(c).ctx, "INVALID_TYPE_ERROR")
  BY ReaderOf DEF ReadSigned, Typed
<1>8. ASSUME NEW c, NEW d, cmp_read_object(c) = Object(d, t, v)
      PROVE  ReadItem(c, i) = Value(d, v)
  <2>1. cmp_read_object(c).val = [type |-> t, as |-> v]
    BY <1>8 DEF Object, Value
  <2>2. AsSigned(cmp_read_object(c).val, 4)
    BY <1>6, <2>1
  <2>3. /\ cmp_read_object(c).ok = TRUE /\ cmp_read_object(c).ctx = d
        /\ cmp_read_object(c).val.as = v
    BY <1>8 DEF Object, Value
  <2> QED
    BY <1>7, <2>2, <2>3
<1>9. Meaning(i) = v
  BY <1>1 DEF Meaning
<1> QED
  BY <1>1, <1>3, <1>5, <1>7, <1>8, <1>9, PlainItem

LEMMA UintegerEncodes ==
  ASSUME NEW i, i.kind = "uinteger", i.v \in Unsigned(W64)
  PROVE  Encodes(i, UintType(i.v), i.v, << >>)
<1>1. PICK v \in Unsigned(W64) : v = i.v
  OBVIOUS
<1>2. PICK t : t = UintType(v)
  OBVIOUS
<1>3. t \in Fixed \cup Marked /\ Legal(t, v) /\ AsUnsigned([type |-> t, as |-> v], 4) = TRUE
  <2>1. Legal(t, v) /\ t \in {"POSITIVE_FIXNUM"} \cup ToSet(UNSIGNED)
    BY <1>2, UintTypeIs
  <2>2. AsUnsigned([type |-> t, as |-> v], 4) = TRUE
    BY <1>2, UintTypeIs
  <2> QED
    BY <2>1, <2>2 DEF Fixed, Marked, Counted
<1>4. ASSUME NEW c PROVE Heads(WriteItem(c, i), c, t, v)
  BY <1>1, <1>2, <1>3, WriterOf, UintegerIsObject DEF Heads
<1>5. ASSUME NEW c
      PROVE  ReadItem(c, i) =
               IF ~cmp_read_object(c).ok THEN cmp_read_object(c)
               ELSE IF AsUnsigned(cmp_read_object(c).val, 4)
               THEN Value(cmp_read_object(c).ctx, cmp_read_object(c).val.as)
               ELSE Failure(cmp_read_object(c).ctx, "INVALID_TYPE_ERROR")
  BY ReaderOf DEF ReadUnsigned, Typed
<1>6. ASSUME NEW c, NEW d, cmp_read_object(c) = Object(d, t, v)
      PROVE  ReadItem(c, i) = Value(d, v)
  <2>1. cmp_read_object(c).val = [type |-> t, as |-> v]
    BY <1>6 DEF Object, Value
  <2>2. AsUnsigned(cmp_read_object(c).val, 4)
    BY <1>3, <2>1
  <2>3. /\ cmp_read_object(c).ok = TRUE /\ cmp_read_object(c).ctx = d
        /\ cmp_read_object(c).val.as = v
    BY <1>6 DEF Object, Value
  <2> QED
    BY <1>5, <2>2, <2>3
<1>7. Meaning(i) = v
  BY <1>1 DEF Meaning
<1> QED
  BY <1>1, <1>2, <1>4, <1>5, <1>6, <1>7, PlainItem

\* cmp_write_object of the remaining types.
LEMMA SimpleObjects ==
  ASSUME NEW c, NEW v
  PROVE  /\ cmp_write_object(c, [type |-> "NIL", as |-> v]) = cmp_write_nil(c)
         /\ cmp_write_object(c, [type |-> "BOOLEAN", as |-> v]) = cmp_write_bool(c, v)
         /\ \A t \in Real : cmp_write_object(c, [type |-> t, as |-> v]) = WriteNumber(c, t, v)
<1>1. ASSUME NEW t, NEW o, o = [type |-> t, as |-> v]
      PROVE  /\ t = "NIL" => cmp_write_object(c, o) = cmp_write_nil(c)
             /\ t = "BOOLEAN" => cmp_write_object(c, o) = cmp_write_bool(c, v)
             /\ t \in Real => cmp_write_object(c, o) = WriteNumber(c, t, v)
  <2>1. o.type = t /\ o.as = v
    BY <1>1
  <2> HIDE <1>1
  <2>2. "NIL" \in Fixed /\ "BOOLEAN" \in Fixed
    BY DEF Fixed
  <2>3. t = "NIL" => cmp_write_object(c, o) = cmp_write_nil(c)
    BY <2>1, <2>2, Alternatives DEF cmp_write_object
  <2>4. t = "BOOLEAN" => cmp_write_object(c, o) = cmp_write_bool(c, v)
    BY <2>1, <2>2, Alternatives DEF cmp_write_object
  <2>5. t \in Real => cmp_write_object(c, o) = WriteNumber(c, t, v)
    BY <2>1, Alternatives DEF cmp_write_object, Fixed, Real
  <2> QED
    BY <2>3, <2>4, <2>5
<1> QED
  BY <1>1

\* Readers that take the objects of given types.
LEMMA ExactReader ==
  ASSUME NEW c, NEW k
  PROVE  /\ ReadExactly(c, k) =
              IF ~cmp_read_object(c).ok THEN cmp_read_object(c)
              ELSE IF cmp_read_object(c).val.type = k
              THEN Value(cmp_read_object(c).ctx, cmp_read_object(c).val.as)
              ELSE Failure(cmp_read_object(c).ctx, "INVALID_TYPE_ERROR")
         /\ ReadSimple(c, k) = ReadExactly(c, k) /\ ReadExactUnsigned(c, k) = ReadExactly(c, k)
<1>1. ReadExactly(c, k) =
        IF ~cmp_read_object(c).ok THEN cmp_read_object(c)
        ELSE IF cmp_read_object(c).val.type = k
        THEN Value(cmp_read_object(c).ctx, cmp_read_object(c).val.as)
        ELSE Failure(cmp_read_object(c).ctx, "INVALID_TYPE_ERROR")
  BY DEF ReadExactly, Typed, IsExactly
<1>2. ReadSimple(c, k) = ReadExactly(c, k) /\ ReadExactUnsigned(c, k) = ReadExactly(c, k)
  BY DEF ReadSimple, ReadExactUnsigned
<1> QED
  BY <1>1, <1>2

LEMMA ExactItem ==
  ASSUME NEW i, NEW k, NEW v, \A c : Heads(WriteItem(c, i), c, k, v), Meaning(i) = v,
         \A c : ReadItem(c, i) = ReadExactly(c, k)
  PROVE  Encodes(i, k, v, << >>)
<1>1. ASSUME NEW c, ~cmp_read_object(c).ok PROVE ReadItem(c, i) = cmp_read_object(c)
  BY <1>1, ExactReader
<1>2. ASSUME NEW c, NEW d, cmp_read_object(c) = Object(d, k, v)
      PROVE  ReadItem(c, i) = Value(d, v)
  <2>1. /\ cmp_read_object(c).ok = TRUE /\ cmp_read_object(c).ctx = d
        /\ cmp_read_object(c).val.type = k /\ cmp_read_object(c).val.as = v
    BY <1>2 DEF Object, Value
  <2> QED
    BY <2>1, ExactReader
<1> QED
  BY <1>1, <1>2, PlainItem

LEMMA SimpleEncodes ==
  ASSUME NEW i
  PROVE  /\ i.kind = "nil" /\ i.v = 0 => Encodes(i, "NIL", 0, << >>)
         /\ i.kind = "bool" /\ i.v \in BOOLEAN => Encodes(i, "BOOLEAN", i.v, << >>)
         /\ i.kind = "u8_as_bool" => Encodes(i, "BOOLEAN", i.v # 0, << >>)
<1>1. ASSUME i.kind = "nil", i.v = 0 PROVE Encodes(i, "NIL", 0, << >>)
  <2>1. "NIL" \in Fixed /\ Legal("NIL", 0) /\ Meaning(i) = 0
    BY <1>1 DEF Fixed, Legal, Meaning
  <2>2. \A c : Heads(WriteItem(c, i), c, "NIL", 0)
    <3>1. ASSUME NEW c PROVE Heads(WriteItem(c, i), c, "NIL", 0)
      <4>1. WriteItem(c, i) = cmp_write_nil(c)
        BY <1>1, WriterOf
      <4>2. cmp_write_object(c, [type |-> "NIL", as |-> 0]) = cmp_write_nil(c)
        BY SimpleObjects
      <4> QED
        BY <2>1, <4>1, <4>2 DEF Heads
    <3> QED
      BY <3>1
  <2>3. \A c : ReadItem(c, i) = ReadExactly(c, "NIL")
    BY <1>1, ReaderOf, ExactReader
  <2> QED
    BY <2>1, <2>2, <2>3, ExactItem
<1>2. ASSUME i.kind = "bool", i.v \in BOOLEAN PROVE Encodes(i, "BOOLEAN", i.v, << >>)
  <2>1. "BOOLEAN" \in Fixed /\ Legal("BOOLEAN", i.v) /\ Meaning(i) = i.v
    BY <1>2 DEF Fixed, Legal, Meaning
  <2>2. \A c : Heads(WriteItem(c, i), c, "BOOLEAN", i.v)
    <3>1. ASSUME NEW c PROVE Heads(WriteItem(c, i), c, "BOOLEAN", i.v)
      <4>1. WriteItem(c, i) = cmp_write_bool(c, i.v)
        BY <1>2, WriterOf
      <4>2. cmp_write_object(c, [type |-> "BOOLEAN", as |-> i.v]) = cmp_write_bool(c, i.v)
        BY SimpleObjects
      <4> QED
        BY <2>1, <4>1, <4>2 DEF Heads
    <3> QED
      BY <3>1
  <2>3. \A c : ReadItem(c, i) = ReadExactly(c, "BOOLEAN")
    BY <1>2, ReaderOf, ExactReader
  <2> QED
    BY <2>1, <2>2, <2>3, ExactItem
<1>3. ASSUME i.kind = "u8_as_bool" PROVE Encodes(i, "BOOLEAN", i.v # 0, << >>)
  <2>1. PICK b \in BOOLEAN : b = (i.v # 0)
    OBVIOUS
  <2>2. "BOOLEAN" \in Fixed /\ Legal("BOOLEAN", b) /\ Meaning(i) = b
    BY <1>3, <2>1 DEF Fixed, Legal, Meaning
  <2>3. \A c : Heads(WriteItem(c, i), c, "BOOLEAN", b)
    <3>1. ASSUME NEW c PROVE Heads(WriteItem(c, i), c, "BOOLEAN", b)
      <4>1. WriteItem(c, i) = cmp_write_bool(c, b)
        BY <1>3, <2>1, WriterOf DEF cmp_write_u8_as_bool
      <4>2. cmp_write_object(c, [type |-> "BOOLEAN", as |-> b]) = cmp_write_bool(c, b)
        BY SimpleObjects
      <4> QED
        BY <2>2, <4>1, <4>2 DEF Heads
    <3> QED
      BY <3>1
  <2>4. \A c : ReadItem(c, i) = ReadExactly(c, "BOOLEAN")
    BY <1>3, ReaderOf, ExactReader
  <2> QED
    BY <2>1, <2>2, <2>3, <2>4, ExactItem
<1> QED
  BY <1>1, <1>2, <1>3

LEMMA DecimalEncodes ==
  ASSUME NEW i, i.kind = "decimal", i.v.double \in Seq(Byte), Len(i.v.double) = W64,
         i.v.float # << >> => i.v.float \in Seq(Byte) /\ Len(i.v.float) = W32
  PROVE  \E t, v : Encodes(i, t, v, << >>)
<1>1. PICK v : v = IF i.v.float # << >> THEN i.v.float ELSE i.v.double
  OBVIOUS
<1>2. PICK t : t = IF i.v.float # << >> THEN "FLOAT" ELSE "DOUBLE"
  OBVIOUS
<1>3. t \in Real /\ Meaning(i) = v
  BY <1>1, <1>2 DEF Real, Meaning
<1>4. t \in Marked /\ Legal(t, v)
  <2>1. t \in Marked /\ t \notin Fixed /\ t \notin Counted /\ t \notin Signed
    BY <1>3, Sorts DEF Marked
  <2>2. v \in Seq(Byte) /\ Len(v) = Width[t]
    BY <1>1, <1>2, Widths
  <2> QED
    BY <1>3, <2>1, <2>2 DEF Legal, Fixed
<1>5. ASSUME NEW c PROVE WriteItem(c, i) = WriteNumber(c, t, v)
  BY <1>1, <1>2, WriterOf DEF cmp_write_decimal
<1>6. \A c : Heads(WriteItem(c, i), c, t, v)
  BY <1>3, <1>4, <1>5, SimpleObjects DEF Heads
<1>7. ASSUME NEW c
      PROVE  ReadItem(c, i) =
               IF ~cmp_read_object(c).ok THEN cmp_read_object(c)
               ELSE IF cmp_read_object(c).val.type \in {"FLOAT", "DOUBLE"}
               THEN Value(cmp_read_object(c).ctx, cmp_read_object(c).val.as)
               ELSE Failure(cmp_read_object(c).ctx, "INVALID_TYPE_ERROR")
  BY ReaderOf DEF cmp_read_decimal, Typed
<1>8. ASSUME NEW c, NEW d, cmp_read_object(c) = Object(d, t, v)
      PROVE  ReadItem(c, i) = Value(d, v)
  <2>1. /\ cmp_read_object(c).ok = TRUE /\ cmp_read_object(c).ctx = d
        /\ cmp_read_object(c).val.type = t /\ cmp_read_object(c).val.as = v
    BY <1>8 DEF Object, Value
  <2> QED
    BY <1>3, <1>7, <2>1 DEF Real
<1>9. Encodes(i, t, v, << >>)
  BY <1>3, <1>6, <1>7, <1>8, PlainItem
<1> QED
  BY <1>9

-----------------------------------------------------------------------------
(* Lengths and exact numbers.                                              *)

\* A reader of the sizes of given types.
LEMMA SizeReaders ==
  ASSUME NEW c
  PROVE  /\ ~cmp_read_object(c).ok =>
              /\ cmp_read_str_size(c) = cmp_read_object(c)
              /\ cmp_read_bin_size(c) = cmp_read_object(c)
              /\ cmp_read_array(c) = cmp_read_object(c) /\ cmp_read_map(c) = cmp_read_object(c)
              /\ cmp_read_ext_marker(c) = cmp_read_object(c)
              /\ cmp_read_sfix(c) = cmp_read_object(c)
         /\ \A d, t, v :
              cmp_read_object(c) = Object(d, t, v) =>
                /\ t \in STR \cup {"FIXSTR"} => cmp_read_str_size(c) = Value(d, v)
                /\ t \in BIN => cmp_read_bin_size(c) = Value(d, v)
                /\ t \in ARRAY \cup {"FIXARRAY"} => cmp_read_array(c) = Value(d, v)
                /\ t \in MAP \cup {"FIXMAP"} => cmp_read_map(c) = Value(d, v)
                /\ t \in EXT \cup FIXEXT => cmp_read_ext_marker(c) = Value(d, v)
                /\ t \in {"POSITIVE_FIXNUM", "NEGATIVE_FIXNUM"} => cmp_read_sfix(c) = Value(d, v)
<1> DEFINE r == cmp_read_object(c)
<1>1. ~r.ok => /\ cmp_read_str_size(c) = r /\ cmp_read_bin_size(c) = r /\ cmp_read_array(c) = r
               /\ cmp_read_map(c) = r /\ cmp_read_ext_marker(c) = r /\ cmp_read_sfix(c) = r
  BY DEF cmp_read_str_size, cmp_read_bin_size, cmp_read_array, cmp_read_map,
         cmp_read_ext_marker, cmp_read_sfix, Typed
<1>2. ASSUME NEW d, NEW t, NEW v, r = Object(d, t, v)
      PROVE  /\ t \in STR \cup {"FIXSTR"} => cmp_read_str_size(c) = Value(d, v)
             /\ t \in BIN => cmp_read_bin_size(c) = Value(d, v)
             /\ t \in ARRAY \cup {"FIXARRAY"} => cmp_read_array(c) = Value(d, v)
             /\ t \in MAP \cup {"FIXMAP"} => cmp_read_map(c) = Value(d, v)
             /\ t \in EXT \cup FIXEXT => cmp_read_ext_marker(c) = Value(d, v)
             /\ t \in {"POSITIVE_FIXNUM", "NEGATIVE_FIXNUM"} => cmp_read_sfix(c) = Value(d, v)
  <2>1. r.ok = TRUE /\ r.ctx = d /\ r.val.type = t /\ r.val.as = v
    BY <1>2 DEF Object, Value
  <2> HIDE <1>2
  <2>2. t \in STR \cup {"FIXSTR"} => cmp_read_str_size(c) = Value(d, v)
    BY <2>1 DEF cmp_read_str_size, Typed, cmp_object_is_str
  <2>3. t \in BIN => cmp_read_bin_size(c) = Value(d, v)
    BY <2>1 DEF cmp_read_bin_size, Typed, cmp_object_is_bin
  <2>4. t \in ARRAY \cup {"FIXARRAY"} => cmp_read_array(c) = Value(d, v)
    BY <2>1 DEF cmp_read_array, Typed, cmp_object_is_array
  <2>5. t \in MAP \cup {"FIXMAP"} => cmp_read_map(c) = Value(d, v)
    BY <2>1 DEF cmp_read_map, Typed, cmp_object_is_map
  <2>6. t \in EXT \cup FIXEXT => cmp_read_ext_marker(c) = Value(d, v)
    BY <2>1 DEF cmp_read_ext_marker, Typed, cmp_object_is_ext
  <2>7. t \in {"POSITIVE_FIXNUM", "NEGATIVE_FIXNUM"} => cmp_read_sfix(c) = Value(d, v)
    BY <2>1 DEF cmp_read_sfix, Typed
  <2> QED
    BY <2>2, <2>3, <2>4, <2>5, <2>6, <2>7
<1> QED
  BY <1>1, <1>2

\* Sizes and lengths that are written are less than a 32 bit field has values.
LEMMA SizesFit ==
  /\ Values[W16] \in Nat /\ Values[W32] \in Nat /\ Values[W16] < Values[W32]
  /\ BYTE \in Nat /\ BYTE < Values[W16] /\ BYTE > 64
  /\ \A n \in 0 .. Values[W16] : n \in Nat /\ n < Values[W32]
  /\ \A n \in 0 .. BYTE : n + 1 < Values[W32] /\ n < Values[W32]
BY ValuesOfFields, LayoutFacts

LEMMA SizeEncodes ==
  ASSUME NEW i, i.v \in 0 .. Values[W16],
         i.kind \in {"str_marker", "str_marker_v4", "bin_marker", "array", "map"}
  PROVE  \E t : Encodes(i, t, i.v, << >>)
<1>1. PICK n \in Nat : n = i.v /\ n < Values[W32]
  BY SizesFit
<1>2. Meaning(i) = n
  BY <1>1 DEF Meaning
<1>3. CASE i.kind \in {"str_marker", "str_marker_v4"}
  <2>1. PICK v4 \in BOOLEAN : v4 = (i.kind = "str_marker_v4")
    OBVIOUS
  <2>2. PICK t : t = StrType(n, v4)
    OBVIOUS
  <2>3. \A c : WriteItem(c, i) = cmp_write_str_marker(c, n, v4)
    BY <1>1, <1>3, <2>1, WriterOf
  <2>4. t \in {"FIXSTR"} \cup STR /\ \A c : Heads(WriteItem(c, i), c, t, n)
    BY <1>1, <2>2, <2>3, StrHeads
  <2>5. \A c : ReadItem(c, i) = cmp_read_str_size(c)
    BY <1>3, ReaderOf
  <2>6. Encodes(i, t, n, << >>)
    <3>1. ASSUME NEW c PROVE ~cmp_read_object(c).ok => ReadItem(c, i) = cmp_read_object(c)
      BY <2>5, SizeReaders
    <3>2. ASSUME NEW c, NEW d, cmp_read_object(c) = Object(d, t, n)
          PROVE  ReadItem(c, i) = Value(d, n)
      BY <2>4, <2>5, <3>2, SizeReaders
    <3> QED
      BY <1>2, <2>4, <3>1, <3>2, PlainItem
  <2> QED
    BY <1>1, <2>6
<1>4. CASE i.kind = "bin_marker"
  <2>1. PICK t : t = BinType(n)
    OBVIOUS
  <2>2. \A c : WriteItem(c, i) = cmp_write_bin_marker(c, n)
    BY <1>1, <1>4, WriterOf
  <2>3. t \in BIN /\ \A c : Heads(WriteItem(c, i), c, t, n)
    BY <1>1, <2>1, <2>2, StrHeads
  <2>4. \A c : ReadItem(c, i) = cmp_read_bin_size(c)
    BY <1>4, ReaderOf
  <2>5. Encodes(i, t, n, << >>)
    <3>1. ASSUME NEW c PROVE ~cmp_read_object(c).ok => ReadItem(c, i) = cmp_read_object(c)
      BY <2>4, SizeReaders
    <3>2. ASSUME NEW c, NEW d, cmp_read_object(c) = Object(d, t, n)
          PROVE  ReadItem(c, i) = Value(d, n)
      BY <2>3, <2>4, <3>2, SizeReaders
    <3> QED
      BY <1>2, <2>3, <3>1, <3>2, PlainItem
  <2> QED
    BY <1>1, <2>5
<1>5. CASE i.kind = "array"
  <2>1. PICK t : t = ArrayType(n)
    OBVIOUS
  <2>2. \A c : WriteItem(c, i) = cmp_write_array(c, n)
    BY <1>1, <1>5, WriterOf
  <2>3. t \in ARRAY \cup {"FIXARRAY"} /\ \A c : Heads(WriteItem(c, i), c, t, n)
    BY <1>1, <2>1, <2>2, ArrayHeads
  <2>4. \A c : ReadItem(c, i) = cmp_read_array(c)
    BY <1>5, ReaderOf
  <2>5. Encodes(i, t, n, << >>)
    <3>1. ASSUME NEW c PROVE ~cmp_read_object(c).ok => ReadItem(c, i) = cmp_read_object(c)
      BY <2>4, SizeReaders
    <3>2. ASSUME NEW c, NEW d, cmp_read_object(c) = Object(d, t, n)
          PROVE  ReadItem(c, i) = Value(d, n)
      BY <2>3, <2>4, <3>2, SizeReaders
    <3> QED
      BY <1>2, <2>3, <3>1, <3>2, PlainItem
  <2> QED
    BY <1>1, <2>5
<1>6. CASE i.kind = "map"
  <2>1. PICK t : t = MapType(n)
    OBVIOUS
  <2>2. \A c : WriteItem(c, i) = cmp_write_map(c, n)
    BY <1>1, <1>6, WriterOf
  <2>3. t \in MAP \cup {"FIXMAP"} /\ \A c : Heads(WriteItem(c, i), c, t, n)
    BY <1>1, <2>1, <2>2, ArrayHeads
  <2>4. \A c : ReadItem(c, i) = cmp_read_map(c)
    BY <1>6, ReaderOf
  <2>5. Encodes(i, t, n, << >>)
    <3>1. ASSUME NEW c PROVE ~cmp_read_object(c).ok => ReadItem(c, i) = cmp_read_object(c)
      BY <2>4, SizeReaders
    <3>2. ASSUME NEW c, NEW d, cmp_read_object(c) = Object(d, t, n)
          PROVE  ReadItem(c, i) = Value(d, n)
      BY <2>3, <2>4, <3>2, SizeReaders
    <3> QED
      BY <1>2, <2>3, <3>1, <3>2, PlainItem
  <2> QED
    BY <1>1, <2>5
<1> QED
  BY <1>3, <1>4, <1>5, <1>6

LEMMA FixnumEncodes ==
  ASSUME NEW i, i.kind = "sfix", i.v \in MinNfix .. FIXMAP_MARKER - 1
  PROVE  \E t : Encodes(i, t, i.v, << >>)
<1>1. MinNfix \in Int /\ FIXMAP_MARKER \in Nat
  BY FamiliesGrow, LayoutFacts
<1>2. PICK v \in Int : v = i.v /\ MinNfix <= v /\ v < FIXMAP_MARKER
  BY <1>1
<1>3. PICK t : t = IF v >= 0 THEN "POSITIVE_FIXNUM" ELSE "NEGATIVE_FIXNUM"
  OBVIOUS
<1>4. t \in Fixed /\ t \in {"POSITIVE_FIXNUM", "NEGATIVE_FIXNUM"} /\ Legal(t, v)
  <2>1. IsNumber(t, v)
    <3>1. FIXMAP_MARKER = Half(1)
      BY FamiliesGrow
    <3> QED
      BY <1>2, <1>3, <3>1 DEF IsNumber
  <2>2. Legal(t, v)
    BY <2>1, NumbersAreLegal
  <2> QED
    BY <1>3, <2>2 DEF Fixed
<1>5. ASSUME NEW c PROVE Heads(WriteItem(c, i), c, t, v)
  <2>1. WriteItem(c, i) = IF v >= 0 THEN cmp_write_pfix(c, v) ELSE cmp_write_nfix(c, v)
    BY <1>2, WriterOf DEF cmp_write_sfix
  <2>2. WriteItem(c, i) = cmp_write_object(c, [type |-> t, as |-> v])
    BY <1>3, <2>1, NumberObjects
  <2> QED
    BY <1>4, <2>2 DEF Heads
<1>6. \A c : ReadItem(c, i) = cmp_read_sfix(c)
  BY ReaderOf
<1>7. ASSUME NEW c PROVE ~cmp_read_object(c).ok => ReadItem(c, i) = cmp_read_object(c)
  BY <1>6, SizeReaders
<1>8. ASSUME NEW c, NEW d, cmp_read_object(c) = Object(d, t, v)
      PROVE  ReadItem(c, i) = Value(d, v)
  BY <1>4, <1>6, <1>8, SizeReaders
<1>9. Meaning(i) = v
  BY <1>2 DEF Meaning
<1>10. Encodes(i, t, v, << >>)
  BY <1>5, <1>7, <1>8, <1>9, PlainItem
<1> QED
  BY <1>2, <1>10

LEMMA ExactEncodes ==
  ASSUME NEW i, NEW k \in 1 .. 4,
         \/ i.kind = SIGNED[k] /\ i.v \in {-1, 1}
         \/ i.kind = UNSIGNED[k] /\ i.v = 1
  PROVE  Encodes(i, i.kind, i.v, << >>)
<1>1. Half(k) \in Nat /\ 1 < Half(k) /\ 1 < Full(k)
  <2>1. FIXMAP_MARKER = Half(1) /\ 32 < FIXMAP_MARKER
    BY FamiliesGrow, LayoutFacts
  <2>2. /\ Half(1) \in Nat /\ Full(1) = 2 * Half(1) /\ Half(k) \in Nat /\ Full(k) = 2 * Half(k)
    BY FamiliesGrow
  <2>3. 1 < k \/ k = 1
    OBVIOUS
  <2>4. 1 < k => Full(1) <= Half(k)
    BY FamiliesGrow
  <2> QED
    BY <2>1, <2>2, <2>3, <2>4
<1>2. IsNumber(i.kind, i.v)
  <2>1. -Half(k) <= -1 /\ -Half(k) <= 1
    BY <1>1
  <2> QED
    BY <1>1, <2>1 DEF IsNumber
<1>3. i.kind \in Fixed \cup Marked /\ Legal(i.kind, i.v)
  BY <1>2, NumbersAreLegal
<1>4. k = 1 \/ k = 2 \/ k = 3 \/ k = 4
  OBVIOUS
<1>5. i.kind \in ToSet(SIGNED) \/ i.kind \in ToSet(UNSIGNED)
  <2>1. SIGNED[k] \in ToSet(SIGNED) /\ UNSIGNED[k] \in ToSet(UNSIGNED)
    BY <1>4, Families, Types DEF Signed
  <2> QED
    BY <2>1
<1>6. ASSUME NEW c PROVE Heads(WriteItem(c, i), c, i.kind, i.v) /\ ReadItem(c, i) = ReadExactly(c, i.kind)
  <2>1. CASE i.kind \in ToSet(SIGNED)
    <3>1. WriteItem(c, i) = WriteSigned(c, i.kind, i.v)
      BY <2>1, WriterOf
    <3>2. cmp_write_object(c, [type |-> i.kind, as |-> i.v]) = WriteSigned(c, i.kind, i.v)
      BY <2>1, NumberObjects
    <3>3. ReadItem(c, i) = ReadExactly(c, i.kind)
      BY <2>1, ReaderOf
    <3> QED
      BY <1>3, <3>1, <3>2, <3>3 DEF Heads
  <2>2. CASE i.kind \in ToSet(UNSIGNED)
    <3>1. WriteItem(c, i) = WriteUnsigned(c, i.kind, i.v)
      BY <2>2, WriterOf
    <3>2. cmp_write_object(c, [type |-> i.kind, as |-> i.v]) = WriteUnsigned(c, i.kind, i.v)
      BY <2>2, NumberObjects
    <3>3. ReadItem(c, i) = ReadExactly(c, i.kind)
      BY <2>2, ReaderOf DEF ReadExactUnsigned
    <3> QED
      BY <1>3, <3>1, <3>2, <3>3 DEF Heads
  <2> QED
    BY <1>5, <2>1, <2>2
<1>7. Meaning(i) = i.v
  <2>1. i.kind # "decimal" /\ i.kind # "u8_as_bool"
    BY <1>5, KindsDiffer
  <2> QED
    BY <2>1 DEF Meaning
<1> QED
  BY <1>6, <1>7, ExactItem

-----------------------------------------------------------------------------
(* Values with data behind their header.                                   *)

LEMMA PayloadAdds ==
  ASSUME NEW h, NEW s
  PROVE  Adds(PutPayload(h, s), h, s) /\ (s # << >> => Adds(WriteExt(h, s), h, s))
<1>1. s = << >> => PutPayload(h, s) = h
  BY DEF PutPayload
<1>2. s # << >> => /\ PutPayload(h, s) = IF h.ok THEN Put(h.ctx, s, "DATA_WRITING_ERROR") ELSE h
                   /\ WriteExt(h, s) = IF h.ok THEN Put(h.ctx, s, "DATA_WRITING_ERROR") ELSE h
  BY DEF PutPayload, WriteExt, Then
<1> QED
  BY <1>1, <1>2 DEF Adds, Follows

LEMMA TakeTook ==
  ASSUME NEW d, NEW s
  PROVE  Took(Take(d, Len(s), "DATA_READING_ERROR"), d, s, s)
<1> DEFINE r == read(d, Len(s))
<1>1. r.ok => Take(d, Len(s), "DATA_READING_ERROR") = Value(r.ctx, r.data)
  BY DEF Take
<1>2. ~r.ok => Take(d, Len(s), "DATA_READING_ERROR") = Failure(r.ctx, "DATA_READING_ERROR")
  BY DEF Take
<1>3. ASSUME r.ok, r.data = s
      PROVE  Returned(Take(d, Len(s), "DATA_READING_ERROR"), r.ctx, s)
  BY <1>1, <1>3, ValueFields
<1> QED
  BY <1>2, <1>3 DEF Took

LEMMA CapacityTook ==
  ASSUME NEW d, NEW s \in Seq(Byte), Len(s) <= BYTE
  PROVE  /\ Took(TakeStr(d, Len(s), Len(s) + 1), d, s, s)
         /\ Took(TakeBin(d, Len(s), Len(s)), d, s, s)
<1>1. PICK n \in Nat : n = Len(s)
  OBVIOUS
<1>2. n + 1 < Values[W32] /\ Values[W32] \in Nat
  BY <1>1, SizesFit
<1>3. (n + 1) % Values[W32] = n + 1
  <2>1. PICK w \in Nat : w = Values[W32]
    BY <1>2
  <2> QED
    BY <1>2, <2>1
<1>4. TakeStr(d, n, n + 1) = Take(d, n, "DATA_READING_ERROR")
  BY <1>3 DEF TakeStr
<1>5. TakeBin(d, n, n) = Take(d, n, "DATA_READING_ERROR")
  BY DEF TakeBin
<1>6. Took(Take(d, n, "DATA_READING_ERROR"), d, s, s)
  BY <1>1, TakeTook
<1>7. Took(TakeStr(d, n, n + 1), d, s, s) /\ Took(TakeBin(d, n, n), d, s, s)
  BY <1>4, <1>5, <1>6
<1> QED
  BY <1>1, <1>7

\* What the readers of strings and binary data do with the object they read.
LEMMA DataReaders ==
  ASSUME NEW c, NEW n
  PROVE  /\ ~cmp_read_object(c).ok =>
              /\ cmp_read_str(c, n) = cmp_read_object(c) /\ cmp_read_bin(c, n) = cmp_read_object(c)
              /\ ViaObject(c, cmp_object_to_str, n) = cmp_read_object(c)
              /\ ViaObject(c, cmp_object_to_bin, n) = cmp_read_object(c)
         /\ \A d, t, v :
              cmp_read_object(c) = Object(d, t, v) =>
                /\ t \in STR \cup {"FIXSTR"} => cmp_read_str(c, n) = TakeStr(d, v, n)
                /\ t \in STR \cup {"FIXSTR"} =>
                     ViaObject(c, cmp_object_to_str, n) = TakeStr(d, v, n)
                /\ t \in BIN => cmp_read_bin(c, n) = TakeBin(d, v, n)
                /\ t \in BIN => ViaObject(c, cmp_object_to_bin, n) = TakeBin(d, v, n)
<1> DEFINE r == cmp_read_object(c)
<1>1. ASSUME ~r.ok
      PROVE  /\ cmp_read_str(c, n) = r /\ cmp_read_bin(c, n) = r
             /\ ViaObject(c, cmp_object_to_str, n) = r /\ ViaObject(c, cmp_object_to_bin, n) = r
  <2>1. cmp_read_str_size(c) = r /\ cmp_read_bin_size(c) = r
    BY <1>1, SizeReaders
  <2> QED
    BY <1>1, <2>1 DEF cmp_read_str, cmp_read_bin, ViaObject
<1>2. ASSUME NEW d, NEW t, NEW v, r = Object(d, t, v)
      PROVE  /\ t \in STR \cup {"FIXSTR"} => cmp_read_str(c, n) = TakeStr(d, v, n)
             /\ t \in STR \cup {"FIXSTR"} =>
                  ViaObject(c, cmp_object_to_str, n) = TakeStr(d, v, n)
             /\ t \in BIN => cmp_read_bin(c, n) = TakeBin(d, v, n)
             /\ t \in BIN => ViaObject(c, cmp_object_to_bin, n) = TakeBin(d, v, n)
  <2>1. r.ok = TRUE /\ r.ctx = d /\ r.val.type = t /\ r.val.as = v
    BY <1>2 DEF Object, Value
  <2>2. t \in STR \cup {"FIXSTR"} => cmp_read_str_size(c) = Value(d, v)
    BY <1>2, SizeReaders
  <2>3. t \in BIN => cmp_read_bin_size(c) = Value(d, v)
    BY <1>2, SizeReaders
  <2>4. ASSUME NEW x, x = Value(d, v) PROVE x.ok = TRUE /\ x.ctx = d /\ x.val = v
    BY <2>4 DEF Value
  <2>5. t \in STR \cup {"FIXSTR"} => cmp_read_str(c, n) = TakeStr(d, v, n)
    BY <2>2, <2>4 DEF cmp_read_str
  <2>6. t \in BIN => cmp_read_bin(c, n) = TakeBin(d, v, n)
    BY <2>3, <2>4 DEF cmp_read_bin
  <2>7. t \in STR \cup {"FIXSTR"} => ViaObject(c, cmp_object_to_str, n) = TakeStr(d, v, n)
    BY <2>1 DEF ViaObject, cmp_object_to_str, cmp_object_is_str
  <2>8. t \in BIN => ViaObject(c, cmp_object_to_bin, n) = TakeBin(d, v, n)
    BY <2>1 DEF ViaObject, cmp_object_to_bin, cmp_object_is_bin
  <2> QED
    BY <2>5, <2>6, <2>7, <2>8
<1> QED
  BY <1>1, <1>2

LEMMA StrEncodes ==
  ASSUME NEW i, i.v \in Seq(Byte), Len(i.v) <= BYTE,
         \/ i.kind \in {"str", "str_v4"}
         \/ i.kind \in STR /\ Len(i.v) = 3
  PROVE  \E t : Encodes(i, t, Len(i.v), i.v)
<1>1. PICK n \in Nat : n = Len(i.v) /\ n < Values[W32] /\ n <= BYTE
  BY SizesFit
<1>2. PICK s \in Seq(Byte) : s = i.v
  OBVIOUS
<1>3. Meaning(i) = s
  <2>1. i.kind # "decimal" /\ i.kind # "u8_as_bool"
    BY KindsDiffer
  <2> QED
    BY <1>2, <2>1 DEF Meaning
<1>4. CASE i.kind \in {"str", "str_v4"}
  <2>1. PICK v4 \in BOOLEAN : v4 = (i.kind = "str_v4")
    OBVIOUS
  <2>2. PICK t : t = StrType(n, v4)
    OBVIOUS
  <2>3. ASSUME NEW c PROVE WriteItem(c, i) = PutPayload(cmp_write_str_marker(c, n, v4), s)
    <3>1. WriteItem(c, i) = cmp_write_str(c, s, v4)
      BY <1>2, <1>4, <2>1, WriterOf
    <3> QED
      BY <1>1, <1>2, <3>1 DEF cmp_write_str, WriteStr, cmp_write_str_marker
  <2>4. t \in {"FIXSTR"} \cup STR /\ \A c : Heads(cmp_write_str_marker(c, n, v4), c, t, n)
    BY <1>1, <2>2, StrHeads
  <2>5. t \in Fixed \cup Marked /\ Legal(t, n)
    BY <2>4 DEF Heads
  <2>6. Writes(i, t, n, s)
    <3>1. ASSUME NEW c PROVE Adds(WriteItem(c, i), cmp_write_object(c, [type |-> t, as |-> n]), s)
      <4>1. cmp_write_str_marker(c, n, v4) = cmp_write_object(c, [type |-> t, as |-> n])
        BY <2>4 DEF Heads
      <4>2. Adds(WriteItem(c, i), cmp_write_str_marker(c, n, v4), s)
        BY <2>3, PayloadAdds
      <4> QED
        BY <4>1, <4>2
    <3> QED
      BY <3>1 DEF Writes
  <2>7. \A c : ReadItem(c, i) = cmp_read_str(c, n + 1)
    BY <1>1, <1>4, ReaderOf
  <2>8. ASSUME NEW c PROVE ~cmp_read_object(c).ok => ReadItem(c, i) = cmp_read_object(c)
    BY <2>7, DataReaders
  <2>9. ASSUME NEW c, NEW d, cmp_read_object(c) = Object(d, t, n)
        PROVE  Took(ReadItem(c, i), d, s, s)
    <3>1. ReadItem(c, i) = TakeStr(d, n, n + 1)
      BY <2>4, <2>7, <2>9, DataReaders
    <3>2. Took(TakeStr(d, n, n + 1), d, s, s)
      BY <1>1, <1>2, CapacityTook
    <3> QED
      BY <3>1, <3>2
  <2>10. Encodes(i, t, n, s)
    BY <1>1, <1>2, <1>3, <2>5, <2>6, <2>8, <2>9, DataItem
  <2> QED
    BY <1>1, <1>2, <2>10
<1>5. CASE i.kind \in STR /\ n = 3
  <2>1. PICK t \in STR : t = i.kind
    BY <1>5
  <2>2. t \in Fixed \cup Marked /\ Legal(t, n)
    <3>1. n < Values[Width[t]]
      <4>1. Width[t] \in {1, W16, W32}
        BY Widths DEF STR
      <4>2. Values[1] = BYTE /\ Values[W16] \in Nat /\ BYTE < Values[W16] /\ BYTE > 64 /\ BYTE \in Nat
        BY SizesFit, ValuesOfFields
      <4> QED
        BY <1>1, <1>5, <4>1, <4>2
    <3> QED
      BY <3>1, LengthIsLegal
  <2>3. ASSUME NEW c
        PROVE  WriteItem(c, i) = PutPayload(cmp_write_object(c, [type |-> t, as |-> n]), s)
    <3>1. WriteItem(c, i) = WriteStr(c, t, s)
      BY <1>2, <2>1, WriterOf
    <3>2. t # "FIXSTR"
      BY DEF STR
    <3>3. WriteStr(c, t, s) = PutPayload(WriteLength(c, t, n), s)
      BY <1>1, <1>2, <3>2 DEF WriteStr
    <3>4. cmp_write_object(c, [type |-> t, as |-> n]) = WriteLength(c, t, n)
      BY LengthObjects
    <3> QED
      BY <3>1, <3>3, <3>4
  <2>4. Writes(i, t, n, s)
    BY <2>3, PayloadAdds DEF Writes
  <2>5. \A c : ReadItem(c, i) = ViaObject(c, cmp_object_to_str, n + 1)
    BY <1>1, <2>1, ReaderOf
  <2>6. ASSUME NEW c PROVE ~cmp_read_object(c).ok => ReadItem(c, i) = cmp_read_object(c)
    BY <2>5, DataReaders
  <2>7. ASSUME NEW c, NEW d, cmp_read_object(c) = Object(d, t, n)
        PROVE  Took(ReadItem(c, i), d, s, s)
    <3>1. ReadItem(c, i) = TakeStr(d, n, n + 1)
      BY <2>5, <2>7, DataReaders
    <3>2. Took(TakeStr(d, n, n + 1), d, s, s)
      BY <1>1, <1>2, CapacityTook
    <3> QED
      BY <3>1, <3>2
  <2>8. Encodes(i, t, n, s)
    BY <1>1, <1>2, <1>3, <2>2, <2>4, <2>6, <2>7, DataItem
  <2> QED
    BY <1>1, <1>2, <2>8
<1> QED
  BY <1>1, <1>4, <1>5

LEMMA BinEncodes ==
  ASSUME NEW i, i.v \in Seq(Byte), Len(i.v) <= BYTE,
         \/ i.kind = "bin"
         \/ i.kind \in BIN /\ Len(i.v) = 3
  PROVE  \E t : Encodes(i, t, Len(i.v), i.v)
<1>1. PICK n \in Nat : n = Len(i.v) /\ n < Values[W32] /\ n <= BYTE
  BY SizesFit
<1>2. PICK s \in Seq(Byte) : s = i.v
  OBVIOUS
<1>3. Meaning(i) = s
  <2>1. i.kind # "decimal" /\ i.kind # "u8_as_bool"
    BY KindsDiffer
  <2> QED
    BY <1>2, <2>1 DEF Meaning
<1>4. PICK t : t = IF i.kind = "bin" THEN BinType(n) ELSE i.kind
  OBVIOUS
<1>5. t \in BIN /\ t \in Fixed \cup Marked /\ Legal(t, n)
  <2>1. CASE i.kind = "bin"
    BY <1>1, <1>4, <2>1, StrHeads DEF Heads
  <2>2. CASE i.kind \in BIN /\ n = 3
    <3>1. t \in BIN
      <4>1. i.kind # "bin"
        BY <2>2, KindsDiffer
      <4> QED
        BY <1>4, <2>2, <4>1
    <3>2. n < Values[Width[t]]
      <4>1. Width[t] \in {1, W16, W32}
        BY <3>1, Widths DEF BIN
      <4>2. Values[1] = BYTE /\ Values[W16] \in Nat /\ BYTE < Values[W16] /\ BYTE > 64 /\ BYTE \in Nat
        BY SizesFit, ValuesOfFields
      <4> QED
        BY <1>1, <2>2, <4>1, <4>2
    <3> QED
      BY <3>1, <3>2, LengthIsLegal
  <2> QED
    BY <1>1, <2>1, <2>2
<1>6. ASSUME NEW c
      PROVE  WriteItem(c, i) = PutPayload(cmp_write_object(c, [type |-> t, as |-> n]), s)
  <2>1. WriteItem(c, i) = WriteBin(c, t, s)
    <3>1. CASE i.kind = "bin"
      BY <1>1, <1>2, <1>4, <3>1, WriterOf DEF cmp_write_bin
    <3>2. CASE i.kind \in BIN
      <4>1. i.kind # "bin"
        BY <3>2, KindsDiffer
      <4> QED
        BY <1>2, <1>4, <3>2, <4>1, WriterOf
    <3> QED
      BY <3>1, <3>2
  <2>2. WriteBin(c, t, s) = PutPayload(WriteLength(c, t, n), s)
    BY <1>1, <1>2 DEF WriteBin
  <2>3. cmp_write_object(c, [type |-> t, as |-> n]) = WriteLength(c, t, n)
    BY <1>5, LengthObjects
  <2> QED
    BY <2>1, <2>2, <2>3
<1>7. Writes(i, t, n, s)
  BY <1>6, PayloadAdds DEF Writes
<1>8. ASSUME NEW c
      PROVE  ReadItem(c, i) = cmp_read_bin(c, n) \/ ReadItem(c, i) = ViaObject(c, cmp_object_to_bin, n)
  BY <1>1, ReaderOf
<1>9. ASSUME NEW c PROVE ~cmp_read_object(c).ok => ReadItem(c, i) = cmp_read_object(c)
  BY <1>8, DataReaders
<1>10. ASSUME NEW c, NEW d, cmp_read_object(c) = Object(d, t, n)
       PROVE  Took(ReadItem(c, i), d, s, s)
  <2>1. ReadItem(c, i) = TakeBin(d, n, n)
    <3>1. cmp_read_bin(c, n) = TakeBin(d, n, n)
      BY <1>5, <1>10, DataReaders
    <3>2. ViaObject(c, cmp_object_to_bin, n) = TakeBin(d, n, n)
      BY <1>5, <1>10, DataReaders
    <3> QED
      BY <1>8, <3>1, <3>2
  <2>2. Took(TakeBin(d, n, n), d, s, s)
    BY <1>1, <1>2, CapacityTook
  <2> QED
    BY <2>1, <2>2
<1>11. Encodes(i, t, n, s)
  BY <1>1, <1>2, <1>3, <1>5, <1>7, <1>9, <1>10, DataItem
<1> QED
  BY <1>1, <1>2, <1>11

-----------------------------------------------------------------------------
(* Extended values.                                                        *)

LEMMA ExtTook ==
  ASSUME NEW d, NEW ty, NEW s
  PROVE  Took(TakeExt(Value(d, [type |-> ty, size |-> Len(s)])), d, s, [type |-> ty, data |-> s])
<1> DEFINE h == Value(d, [type |-> ty, size |-> Len(s)])
           q == Take(d, Len(s), "DATA_READING_ERROR")
           r == read(d, Len(s))
           x == TakeExt(h)
<1>1. h.ok = TRUE /\ h.ctx = d /\ h.val.type = ty /\ h.val.size = Len(s)
  BY DEF Value
<1> HIDE DEF h
<1>2. x = IF q.ok THEN Value(q.ctx, [type |-> ty, data |-> q.val]) ELSE q
  BY <1>1 DEF TakeExt
<1>3. Took(q, d, s, s)
  BY TakeTook
<1> HIDE DEF q
<1>4. ASSUME r.ok, r.data = s PROVE Returned(x, r.ctx, [type |-> ty, data |-> s])
  <2>1. q.ok = TRUE /\ q.ctx = r.ctx /\ q.val = s
    BY <1>3, <1>4 DEF Took, Returned
  <2>2. x = Value(r.ctx, [type |-> ty, data |-> s])
    BY <1>2, <2>1
  <2> QED
    BY <2>2, ValueFields
<1>5. ASSUME ~r.ok PROVE x = Failure(r.ctx, "DATA_READING_ERROR")
  <2>1. q = Failure(r.ctx, "DATA_READING_ERROR")
    BY <1>3, <1>5 DEF Took
  <2>2. q.ok = FALSE
    BY <2>1 DEF Failure
  <2> QED
    BY <1>2, <2>1, <2>2
<1>6. Took(x, d, s, [type |-> ty, data |-> s])
  BY <1>4, <1>5 DEF Took
<1> QED
  BY <1>6 DEF h

\* What the readers of extended values do with the object they read.
LEMMA ExtReaders ==
  ASSUME NEW c
  PROVE  /\ ~cmp_read_object(c).ok =>
              /\ cmp_read_ext(c) = cmp_read_object(c)
              /\ \A k : ReadExt(c, k) = cmp_read_object(c) /\ ReadFixext(c, k) = cmp_read_object(c)
         /\ \A d, t, v :
              cmp_read_object(c) = Object(d, t, v) =>
                /\ t \in EXT \cup FIXEXT => cmp_read_ext(c) = TakeExt(Value(d, v))
                /\ ReadExt(c, t) = TakeExt(Value(d, v)) /\ ReadFixext(c, t) = TakeExt(Value(d, v))
<1> DEFINE r == cmp_read_object(c)
<1>1. ~r.ok => TakeExt(r) = r
  BY DEF TakeExt
<1>2. ASSUME ~r.ok
      PROVE  cmp_read_ext(c) = r /\ \A k : ReadExt(c, k) = r /\ ReadFixext(c, k) = r
  <2>1. cmp_read_ext_marker(c) = r
    BY <1>2, SizeReaders
  <2>2. \A k : ReadExactly(c, k) = r
    BY <1>2, ExactReader
  <2> QED
    BY <1>1, <1>2, <2>1, <2>2 DEF cmp_read_ext, ReadExt, ReadFixext
<1>3. ASSUME NEW d, NEW t, NEW v, r = Object(d, t, v)
      PROVE  /\ t \in EXT \cup FIXEXT => cmp_read_ext(c) = TakeExt(Value(d, v))
             /\ ReadExt(c, t) = TakeExt(Value(d, v)) /\ ReadFixext(c, t) = TakeExt(Value(d, v))
  <2>1. r.ok = TRUE /\ r.ctx = d /\ r.val.type = t /\ r.val.as = v
    BY <1>3 DEF Object, Value
  <2>2. ReadExactly(c, t) = Value(d, v)
    BY <2>1, ExactReader
  <2>3. t \in EXT \cup FIXEXT => cmp_read_ext_marker(c) = Value(d, v)
    BY <1>3, SizeReaders
  <2> QED
    BY <2>2, <2>3 DEF cmp_read_ext, ReadExt, ReadFixext
<1> QED
  BY <1>2, <1>3

\* An extended value with data, whatever the type of its header.
LEMMA ExtItem ==
  ASSUME NEW i, NEW t \in EXT \cup FIXEXT, i.v \in Extended, Len(i.v.data) <= BYTE,
         i.v.data # << >>, NEW v, v = [type |-> i.v.type, size |-> Len(i.v.data)], Legal(t, v),
         \A c : WriteItem(c, i) = WriteExt(cmp_write_object(c, [type |-> t, as |-> v]), i.v.data),
         \/ i.kind = "ext"
         \/ i.kind = t
  PROVE  Encodes(i, t, v, i.v.data)
<1>1. PICK s \in Seq(Byte) : s = i.v.data
  BY DEF Extended
<1>2. PICK ty : ty = i.v.type
  OBVIOUS
<1>3. Meaning(i) = [type |-> ty, data |-> s]
  <2>1. i.kind # "decimal" /\ i.kind # "u8_as_bool"
    BY KindsDiffer
  <2>2. i.v = [type |-> ty, data |-> s]
    BY <1>1, <1>2 DEF Extended
  <2> QED
    BY <2>1, <2>2 DEF Meaning
<1>4. t \in Fixed \cup Marked
  BY DEF Marked
<1>5. Writes(i, t, v, s)
  BY <1>1, PayloadAdds DEF Writes
<1>6. ASSUME NEW c
      PROVE  \/ ReadItem(c, i) = cmp_read_ext(c)
             \/ ReadItem(c, i) = ReadExt(c, t)
             \/ ReadItem(c, i) = ReadFixext(c, t)
  BY ReaderOf
<1>7. ASSUME NEW c PROVE ~cmp_read_object(c).ok => ReadItem(c, i) = cmp_read_object(c)
  BY <1>6, ExtReaders
<1>8. ASSUME NEW c, NEW d, cmp_read_object(c) = Object(d, t, v)
      PROVE  Took(ReadItem(c, i), d, s, Meaning(i))
  <2>1. ReadItem(c, i) = TakeExt(Value(d, v))
    BY <1>6, <1>8, ExtReaders
  <2>2. v = [type |-> ty, size |-> Len(s)]
    BY <1>1, <1>2
  <2>3. Took(TakeExt(Value(d, v)), d, s, [type |-> ty, data |-> s])
    BY <2>2, ExtTook
  <2> QED
    BY <1>3, <2>1, <2>3
<1> QED
  BY <1>1, <1>4, <1>5, <1>7, <1>8, DataItem

LEMMA ExtEncodes ==
  ASSUME NEW i, i.v \in Extended, Len(i.v.data) <= BYTE, i.v.data # << >>,
         \/ i.kind = "ext"
         \/ i.kind \in EXT /\ Len(i.v.data) = 3
         \/ i.kind \in FIXEXT /\ Len(i.v.data) = FixextSize[i.kind]
  PROVE  \E t, v : Encodes(i, t, v, i.v.data)
<1>1. PICK ty \in Twos(1) : ty = i.v.type
  BY DEF Extended
<1>2. PICK s \in Seq(Byte) : s = i.v.data
  BY DEF Extended
<1>3. PICK n \in Nat : n = Len(s) /\ n < Values[W32]
  BY <1>2, SizesFit
<1>4. PICK v : v = [type |-> ty, size |-> n]
  OBVIOUS
<1>5. CASE i.kind = "ext"
  <2>1. PICK t : t = ExtType(n)
    OBVIOUS
  <2>2. t \in EXT \cup FIXEXT /\ \A c : Heads(cmp_write_ext_marker(c, ty, n), c, t, v)
    BY <1>3, <1>4, <2>1, ExtHeads
  <2>3. ASSUME NEW c
        PROVE  WriteItem(c, i) = WriteExt(cmp_write_object(c, [type |-> t, as |-> v]), s)
    <3>1. WriteItem(c, i) = cmp_write_ext(c, ty, s)
      BY <1>1, <1>2, <1>5, WriterOf
    <3>2. cmp_write_ext(c, ty, s) = WriteExt(cmp_write_ext_marker(c, ty, n), s)
      BY <1>3 DEF cmp_write_ext
    <3> QED
      BY <2>2, <3>1, <3>2 DEF Heads
  <2>4. Legal(t, v)
    BY <2>2 DEF Heads
  <2> QED
    BY <1>1, <1>2, <1>3, <1>4, <1>5, <2>2, <2>3, <2>4, ExtItem
<1>6. CASE i.kind \in EXT /\ n = 3
  <2>1. PICK t \in EXT : t = i.kind
    BY <1>6
  <2>2. n < Values[Width[t]]
    <3>1. Width[t] \in {1, W16, W32}
      BY Widths DEF EXT
    <3>2. Values[1] = BYTE /\ Values[W16] \in Nat /\ BYTE < Values[W16] /\ BYTE > 64 /\ BYTE \in Nat
      BY SizesFit, ValuesOfFields
    <3> QED
      BY <1>3, <1>6, <3>1, <3>2
  <2>3. \A c : Heads(WriteExtMarker(c, t, ty, n), c, t, v)
    BY <1>3, <1>4, <2>2, ExtHeads
  <2>4. ASSUME NEW c
        PROVE  WriteItem(c, i) = WriteExt(cmp_write_object(c, [type |-> t, as |-> v]), s)
    <3>1. WriteItem(c, i) = WriteExt(WriteExtMarker(c, t, ty, n), s)
      BY <1>1, <1>2, <1>3, <2>1, WriterOf
    <3> QED
      BY <2>3, <3>1 DEF Heads
  <2>5. Legal(t, v)
    BY <2>3 DEF Heads
  <2> QED
    BY <1>1, <1>2, <1>3, <1>4, <2>1, <2>4, <2>5, ExtItem
<1>7. CASE i.kind \in FIXEXT /\ n = FixextSize[i.kind]
  <2>1. PICK t \in FIXEXT : t = i.kind
    BY <1>7
  <2>2. \A c : Heads(WriteFixextMarker(c, t, ty), c, t, v)
    BY <1>3, <1>4, <1>7, <2>1, ExtHeads
  <2>3. ASSUME NEW c
        PROVE  WriteItem(c, i) = WriteExt(cmp_write_object(c, [type |-> t, as |-> v]), s)
    <3>1. WriteItem(c, i) = WriteExt(WriteFixextMarker(c, t, ty), s)
      BY <1>1, <1>2, <2>1, WriterOf
    <3> QED
      BY <2>2, <3>1 DEF Heads
  <2>4. Legal(t, v)
    BY <2>2 DEF Heads
  <2> QED
    BY <1>1, <1>2, <1>3, <1>4, <2>1, <2>3, <2>4, ExtItem
<1> QED
  BY <1>2, <1>3, <1>5, <1>6, <1>7

LEMMA MarkerEncodes ==
  ASSUME NEW i, i.kind = "ext_marker", i.v \in [type : Twos(1), size : 0 .. Values[W16]]
  PROVE  \E t : Encodes(i, t, i.v, << >>)
<1>1. PICK ty \in Twos(1) : ty = i.v.type
  OBVIOUS
<1>2. PICK n \in Nat : n = i.v.size /\ n < Values[W32]
  BY SizesFit
<1>3. PICK v : v = [type |-> ty, size |-> n] /\ v = i.v
  BY <1>1, <1>2
<1>4. PICK t : t = ExtType(n)
  OBVIOUS
<1>5. t \in EXT \cup FIXEXT /\ \A c : Heads(cmp_write_ext_marker(c, ty, n), c, t, v)
  BY <1>2, <1>3, <1>4, ExtHeads
<1>6. \A c : Heads(WriteItem(c, i), c, t, v)
  BY <1>1, <1>2, <1>5, WriterOf
<1>7. \A c : ReadItem(c, i) = cmp_read_ext_marker(c)
  BY ReaderOf
<1>8. ASSUME NEW c PROVE ~cmp_read_object(c).ok => ReadItem(c, i) = cmp_read_object(c)
  BY <1>7, SizeReaders
<1>9. ASSUME NEW c, NEW d, cmp_read_object(c) = Object(d, t, v)
      PROVE  ReadItem(c, i) = Value(d, v)
  BY <1>5, <1>7, <1>9, SizeReaders
<1>10. Meaning(i) = v
  BY <1>3 DEF Meaning
<1>11. Encodes(i, t, v, << >>)
  BY <1>6, <1>8, <1>9, <1>10, PlainItem
<1> QED
  BY <1>3, <1>11

\* A value that its writer refuses (c-msgpack.c:910, 939, 968).
Empty(i) == i.kind = "ext" /\ i.v.data = << >>

LEMMA FewBytes ==
  ASSUME NEW s \in Seq(Byte), Len(s) \in 1 .. 16
  PROVE  s # << >> /\ Len(s) <= BYTE
<1>1. PICK n \in 1 .. 16 : n = Len(s)
  OBVIOUS
<1>2. n <= BYTE
  BY LayoutFacts
<1>3. Len(<< >>) = 0
  OBVIOUS
<1>4. s # << >>
  BY <1>1, <1>3
<1> QED
  BY <1>1, <1>2, <1>4

LEMMA ItemsEncode ==
  ASSUME NEW i \in Items, ~Empty(i)
  PROVE  \E t, v, s : Encodes(i, t, v, s)
<1>1. Shape(i)
  BY ItemsHaveShape
<1>2. CASE i.kind = "integer" /\ i.v \in Twos(W64)
  BY <1>2, IntegerEncodes
<1>3. CASE i.kind = "uinteger" /\ i.v \in Unsigned(W64)
  BY <1>3, UintegerEncodes
<1>4. CASE /\ i.kind = "decimal" /\ i.v.double \in Seq(Byte) /\ Len(i.v.double) = W64
           /\ i.v.float # << >> => i.v.float \in Seq(Byte) /\ Len(i.v.float) = W32
  BY <1>4, DecimalEncodes
<1>5. CASE i.kind = "nil" /\ i.v = 0
  BY <1>5, SimpleEncodes
<1>6. CASE i.kind = "bool" /\ i.v \in BOOLEAN
  BY <1>6, SimpleEncodes
<1>7. CASE i.kind = "u8_as_bool" /\ i.v \in Nat
  BY <1>7, SimpleEncodes
<1>8. CASE i.kind \in {"str", "str_v4", "bin"} /\ i.v \in Seq(Byte) /\ Len(i.v) <= BYTE
  BY <1>8, StrEncodes, BinEncodes
<1>9. CASE /\ i.kind \in {"str_marker", "str_marker_v4", "bin_marker", "array", "map"}
           /\ i.v \in 0 .. Values[W16]
  BY <1>9, SizeEncodes
<1>10. CASE i.kind = "sfix" /\ i.v \in MinNfix .. FIXMAP_MARKER - 1
  BY <1>10, FixnumEncodes
<1>11. CASE i.kind = "ext" /\ i.v \in Extended /\ Len(i.v.data) <= BYTE
  BY <1>11, ExtEncodes DEF Empty
<1>12. CASE i.kind = "ext_marker" /\ i.v \in [type : Twos(1), size : 0 .. Values[W16]]
  BY <1>12, MarkerEncodes
<1>13. CASE \E k \in 1 .. 4 : \/ i.kind = SIGNED[k] /\ i.v \in {-1, 1}
                              \/ i.kind = UNSIGNED[k] /\ i.v = 1
  <2>1. PICK k \in 1 .. 4 : \/ i.kind = SIGNED[k] /\ i.v \in {-1, 1}
                            \/ i.kind = UNSIGNED[k] /\ i.v = 1
    BY <1>13
  <2> QED
    BY <2>1, ExactEncodes
<1>14. CASE i.kind \in STR \cup BIN /\ i.v \in Seq(Byte) /\ Len(i.v) = 3
  <2>1. Len(i.v) <= BYTE
    BY <1>14, LayoutFacts
  <2> QED
    BY <1>14, <2>1, StrEncodes, BinEncodes
<1>15. CASE i.kind \in EXT /\ i.v \in Extended /\ Len(i.v.data) = 3
  <2>1. PICK s \in Seq(Byte) : s = i.v.data /\ Len(s) = 3
    BY <1>15 DEF Extended
  <2>2. Len(s) \in 1 .. 16
    BY <2>1
  <2>3. s # << >> /\ Len(s) <= BYTE
    BY <2>2, FewBytes
  <2> QED
    BY <1>15, <2>1, <2>3, ExtEncodes
<1>16. CASE i.kind \in FIXEXT /\ i.v \in Extended /\ Len(i.v.data) = FixextSize[i.kind]
  <2>1. PICK s \in Seq(Byte) : s = i.v.data /\ Len(s) = FixextSize[i.kind]
    BY <1>16 DEF Extended
  <2>2. s # << >> /\ Len(s) <= BYTE
    BY <1>16, <2>1, FewBytes, FixextSizes
  <2> QED
    BY <1>16, <2>1, <2>2, ExtEncodes
<1> QED
  BY <1>1, <1>2, <1>3, <1>4, <1>5, <1>6, <1>7, <1>8, <1>9, <1>10, <1>11, <1>12, <1>13, <1>14,
     <1>15, <1>16 DEF Shape

-----------------------------------------------------------------------------
(* Writing and reading a value.                                            *)

\* x are the bytes of the value i.
Coded(i, x) == \E t, v, s : Encodes(i, t, v, s) /\ x = Header(t, v) \o s

LEMMA CodingExists ==
  ASSUME NEW i \in Items, ~Empty(i)
  PROVE  \E x : Coded(i, x)
<1>1. PICK t, v, s : Encodes(i, t, v, s)
  BY ItemsEncode
<1>2. PICK x : x = Header(t, v) \o s
  OBVIOUS
<1> QED
  BY <1>1, <1>2 DEF Coded

\* A header is not empty.
LEMMA HeaderBytes ==
  ASSUME NEW t \in Fixed \cup Marked, NEW v, Legal(t, v)
  PROVE  Header(t, v) \in Seq(Byte) /\ Len(Header(t, v)) \in 1 .. 1 + W64
<1>1. Header(t, v) \in Seq(Byte)
  BY HeaderIs
<1>2. Len(Header(t, v)) \in Nat /\ Len(Header(t, v)) <= 1 + W64
  BY HeaderLength
<1>3. Len(Header(t, v)) >= 1
  <2>1. CASE t \in Fixed
    BY <2>1, HeaderLength
  <2>2. CASE t \in Marked \ EXT
    BY <2>2, HeaderLength, Widths
  <2>3. CASE t \in EXT
    <3> PICK f \in Byte : f = First(t, v)
      BY HeaderIs
    <3> << f >> \in Seq(Byte) /\ Len(<< f >>) = 1
      OBVIOUS
    <3>1. PICK m \in Seq(Byte) : m = << f >> /\ Len(m) = 1
      OBVIOUS
    <3>2. PICK l \in Seq(Byte) : l = BigEndian(v.size, Width[t])
      BY <2>3, HeaderIs
    <3>3. PICK k \in Seq(Byte) : k = Chunk(t, v)
      BY <2>3, ChunkIs DEF Marked
    <3>4. Header(t, v) = (m \o l) \o k
      BY <2>3, <3>1, <3>2, <3>3, HeaderIs
    <3>5. Len((m \o l) \o k) = (1 + Len(l)) + Len(k) /\ Len(l) \in Nat /\ Len(k) \in Nat
      BY <3>1
    <3> QED
      BY <3>4, <3>5
  <2> QED
    BY <2>1, <2>2, <2>3
<1> QED
  BY <1>1, <1>2, <1>3, LayoutFacts

LEMMA CodedBytes ==
  ASSUME NEW i, NEW x, Coded(i, x)
  PROVE  x \in Seq(Byte) /\ Len(x) \in 1 .. 1 + W64 + BYTE
<1>1. PICK t, v, s : Encodes(i, t, v, s) /\ x = Header(t, v) \o s
  BY DEF Coded
<1>2. t \in Fixed \cup Marked /\ Legal(t, v) /\ s \in Seq(Byte) /\ Len(s) <= BYTE
  BY <1>1 DEF Encodes
<1>3. PICK h \in Seq(Byte) : h = Header(t, v) /\ Len(h) \in 1 .. 1 + W64
  BY <1>2, HeaderBytes
<1>4. x = h \o s
  BY <1>1, <1>3
<1>5. x \in Seq(Byte) /\ Len(x) = Len(h) + Len(s)
  BY <1>2, <1>4, JoinFacts
<1>6. Len(s) \in 0 .. BYTE
  BY <1>2, LayoutFacts
<1> QED
  BY <1>3, <1>5, <1>6, LayoutFacts

LEMMA ItemWrites ==
  ASSUME BackendIsMemory, NEW i, NEW x, Coded(i, x), NEW b \in Seq(Byte), NEW room \in Nat
  PROVE  Wrote(WriteItem(Sink(b, room), i), b, room, x)
<1> DEFINE c == Sink(b, room)
           w == WriteItem(c, i)
<1>1. PICK t, v, s : Encodes(i, t, v, s) /\ x = Header(t, v) \o s
  BY DEF Coded
<1>2. t \in Fixed \cup Marked /\ Legal(t, v) /\ s \in Seq(Byte)
  BY <1>1 DEF Encodes
<1>3. PICK r : r = cmp_write_object(c, [type |-> t, as |-> v])
  OBVIOUS
<1>4. PICK h \in Seq(Byte) : h = Header(t, v)
  BY <1>2, HeaderBytes
<1>5. Wrote(r, b, room, h)
  BY <1>2, <1>3, <1>4, WritesHeader
<1>6. Adds(w, r, s)
  BY <1>1, <1>3 DEF Encodes, Writes
<1> HIDE DEF w
<1>7. CASE s = << >>
  <2>1. w = r
    BY <1>6, <1>7 DEF Adds
  <2>2. x = h
    BY <1>1, <1>4, <1>7, Nothing
  <2>3. Wrote(w, b, room, x)
    BY <1>5, <2>1, <2>2
  <2> QED
    BY <2>3 DEF w
<1>8. CASE s # << >>
  <2>1. Follows(w, r, s)
    BY <1>6, <1>8 DEF Adds
  <2>2. Wrote(w, b, room, h \o s)
    BY <1>2, <1>5, <1>8, <2>1, ThenWrites
  <2>3. Wrote(w, b, room, x)
    BY <1>1, <1>4, <2>2
  <2> QED
    BY <2>3 DEF w
<1> QED
  BY <1>7, <1>8

\* The reader's result r of a value up to q: m, or the bytes end before.
Received(r, b, q, room, e, m) ==
  /\ q <= Len(b) => Returned(r, Mem(b, q, room, e), m)
  /\ ~(q <= Len(b)) => Cut(r, b)

LEMMA ItemReads ==
  ASSUME BackendIsMemory, NEW i, NEW x, Coded(i, x), NEW b \in Seq(Byte), NEW p \in Nat,
         NEW room, NEW e, Agrees(x, b, p)
  PROVE  Received(ReadItem(Mem(b, p, room, e), i), b, p + Len(x), room, e, Meaning(i))
<1> DEFINE c == Mem(b, p, room, e)
           r == cmp_read_object(c)
           w == ReadItem(c, i)
<1>1. PICK t, v, s : Encodes(i, t, v, s) /\ x = Header(t, v) \o s
  BY DEF Coded
<1>2. t \in Fixed \cup Marked /\ Legal(t, v) /\ s \in Seq(Byte)
  BY <1>1 DEF Encodes
<1>3. PICK h \in Seq(Byte) : h = Header(t, v)
  BY <1>2, HeaderBytes
<1>4. PICK k \in Nat : k = Len(h)
  OBVIOUS
<1>5. PICK l \in Nat : l = Len(s)
  BY <1>2
<1>6. x = h \o s /\ Len(x) = k + l
  BY <1>1, <1>2, <1>3, <1>4, <1>5, JoinFacts
<1>7. Agrees(h, b, p) /\ Agrees(s, b, p + k)
  BY <1>2, <1>4, <1>6, AgreesBoth
<1>8. ReadsAs(r, b, p + k, room, e, t, v)
  BY <1>2, <1>3, <1>4, <1>7, ReadsHeader
<1>9. /\ ~r.ok => w = r
      /\ \A d : r = Object(d, t, v) => (s = << >> /\ Returned(w, d, Meaning(i)))
                                       \/ Took(w, d, s, Meaning(i))
  BY <1>1 DEF Encodes, Reads
<1>10. Len(b) \in Nat
  OBVIOUS
<1> HIDE DEF r, w
<1>11. CASE ~(p + k <= Len(b))
  <2>1. Cut(r, b)
    BY <1>8, <1>11 DEF ReadsAs
  <2>2. w = r
    BY <1>9, <2>1 DEF Cut
  <2>3. ~(p + (k + l) <= Len(b))
    BY <1>10, <1>11
  <2>4. Received(w, b, p + (k + l), room, e, Meaning(i))
    BY <2>1, <2>2, <2>3 DEF Received
  <2> QED
    BY <1>6, <2>4 DEF w
<1>12. CASE p + k <= Len(b)
  <2>1. PICK d : d = Mem(b, p + k, room, e)
    OBVIOUS
  <2>2. r = Object(d, t, v)
    BY <1>8, <1>12, <2>1 DEF ReadsAs
  <2>3. CASE s = << >> /\ Returned(w, d, Meaning(i))
    <3>1. p + (k + l) = p + k
      BY <1>5, <2>3
    <3>2. Received(w, b, p + (k + l), room, e, Meaning(i))
      BY <1>12, <2>1, <2>3, <3>1 DEF Received
    <3> QED
      BY <1>6, <3>2 DEF w
  <2>4. CASE Took(w, d, s, Meaning(i))
    <3>1. PICK q \in Nat : q = p + k + l
      OBVIOUS
    <3>2. PICK a : a = read(d, l)
      OBVIOUS
    <3>3. Fetched(a, b, p + k, q, room, e, s)
      BY <1>2, <1>5, <1>7, <2>1, <3>1, <3>2, MemReads
    <3>4. ASSUME q <= Len(b) PROVE Returned(w, Mem(b, q, room, e), Meaning(i))
      <4>1. a = Hit(Mem(b, q, room, e), s)
        BY <3>3, <3>4 DEF Fetched
      <4>2. a.ok = TRUE /\ a.data = s /\ a.ctx = Mem(b, q, room, e)
        BY <4>1 DEF Hit
      <4> QED
        BY <1>5, <2>4, <3>2, <4>2 DEF Took
    <3>5. ASSUME ~(q <= Len(b)) PROVE Cut(w, b)
      <4>1. a = Miss(Mem(b, p + k, room, e))
        BY <3>3, <3>5 DEF Fetched
      <4>2. a.ok = FALSE /\ a.ctx = Mem(b, p + k, room, e)
        BY <4>1 DEF Miss
      <4>3. w = Failure(Mem(b, p + k, room, e), "DATA_READING_ERROR")
        BY <1>5, <2>4, <3>2, <4>2 DEF Took
      <4>4. "DATA_READING_ERROR" \in ReadErrors
        BY DEF ReadErrors
      <4> QED
        BY <4>3, <4>4, FailureCuts
    <3>6. Received(w, b, q, room, e, Meaning(i))
      BY <3>4, <3>5 DEF Received
    <3>7. q = p + (k + l)
      BY <3>1
    <3> QED
      BY <1>6, <3>6, <3>7 DEF w
  <2> QED
    BY <1>9, <2>2, <2>3, <2>4
<1> QED
  BY <1>11, <1>12

\* The bytes in the test of FailsOnlyWhenFull.
LEMMA FreshCodes ==
  ASSUME BackendIsMemory, NEW i, NEW x, Coded(i, x)
  PROVE  WriteItem(Fresh, i).ctx.buf.bytes = x
<1>1. PICK room \in Nat : room = 1 + W64 + BYTE
  BY LayoutFacts
<1>2. Fresh = Sink(<< >>, room)
  BY <1>1, MemFields DEF Fresh, Sink
<1>3. << >> \in Seq(Byte)
  OBVIOUS
<1>4. Wrote(WriteItem(Fresh, i), << >>, room, x)
  BY <1>2, <1>3, ItemWrites
<1>5. x \in Seq(Byte) /\ Len(x) <= room
  BY <1>1, CodedBytes
<1>6. Len(<< >>) + Len(x) <= room
  BY <1>5
<1>7. WriteItem(Fresh, i) = Success(Sink(<< >> \o x, room))
  BY <1>4, <1>6 DEF Wrote
<1>8. << >> \o x = x
  BY <1>5, Nothing
<1>9. WriteItem(Fresh, i).ctx = Sink(x, room)
  BY <1>7, <1>8 DEF Success
<1> QED
  BY <1>9, MemFields DEF Sink

\* The writer failed behind b and may have left a part of the value there.
Failed(w, b, room) ==
  w.ok = FALSE /\ \E x \in Seq(Byte) : \E e : w.ctx = Mem(b \o x, 0, room, e)

LEMMA EmptyFails ==
  ASSUME BackendIsMemory, NEW i \in Items, Empty(i), NEW b \in Seq(Byte), NEW room \in Nat
  PROVE  Failed(WriteItem(Sink(b, room), i), b, room)
<1> DEFINE c == Sink(b, room)
           w == WriteItem(c, i)
<1>1. i.kind = "ext" /\ i.v.data = << >> /\ i.v \in Extended
  <2>1. Shape(i)
    BY ItemsHaveShape
  <2>2. i.kind = "ext" /\ i.v.data = << >>
    BY DEF Empty
  <2>3. \A k \in 1 .. 4 : SIGNED[k] # "ext" /\ UNSIGNED[k] # "ext"
    BY DEF SIGNED, UNSIGNED
  <2>4. "ext" \notin STR /\ "ext" \notin BIN /\ "ext" \notin EXT /\ "ext" \notin FIXEXT
    BY KindsDiffer
  <2>5. i.v \in Extended
    BY <2>1, <2>2, <2>3, <2>4 DEF Shape
  <2> QED
    BY <2>2, <2>5
<1>2. PICK ty \in Twos(1) : ty = i.v.type
  BY <1>1 DEF Extended
<1>3. PICK n \in Nat : n = 0 /\ n < Values[W32]
  BY SizesFit
<1>4. PICK v : v = [type |-> ty, size |-> n]
  OBVIOUS
<1>5. PICK t : t = ExtType(n)
  OBVIOUS
<1>6. PICK h : h = cmp_write_ext_marker(c, ty, n)
  OBVIOUS
<1>7. Heads(h, c, t, v)
  BY <1>3, <1>4, <1>5, <1>6, ExtHeads
<1>8. PICK s \in Seq(Byte) : s = Header(t, v)
  BY <1>7, HeaderBytes DEF Heads
<1>9. Wrote(h, b, room, s)
  BY <1>7, <1>8, WritesHeader DEF Heads
<1>10. w = IF h.ok THEN Put(h.ctx, << >>, "DATA_WRITING_ERROR") ELSE h
  <2>1. w = cmp_write_ext(c, ty, << >>)
    BY <1>1, <1>2, WriterOf
  <2>2. Len(<< >>) = n
    BY <1>3
  <2> QED
    BY <1>6, <2>1, <2>2 DEF cmp_write_ext, WriteExt, Then
<1> HIDE DEF w
<1>11. CASE ~(Len(b) + Len(s) <= room)
  <2>1. h.ok = FALSE /\ \E x \in Seq(Byte) : \E e : h.ctx = Mem(b \o x, 0, room, e)
    BY <1>9, <1>11 DEF Wrote
  <2>2. Failed(w, b, room)
    BY <1>10, <2>1 DEF Failed
  <2> QED
    BY <2>2 DEF w
<1>12. CASE Len(b) + Len(s) <= room
  <2>1. PICK a \in Seq(Byte) : a = b \o s
    BY JoinFacts
  <2>2. h = Success(Sink(a, room))
    BY <1>9, <1>12, <2>1 DEF Wrote
  <2>3. h.ok = TRUE /\ h.ctx = Mem(a, 0, room, "ERROR_NONE")
    BY <2>2 DEF Success, Sink
  <2>4. PICK o : o = write(Mem(a, 0, room, "ERROR_NONE"), << >>)
    OBVIOUS
  <2>5. o.n = 0 /\ o.ctx = Mem(a, 0, room, "ERROR_NONE")
    <3>1. a \o << >> = a /\ Len(<< >>) = 0
      BY Nothing
    <3>2. \/ o = [n |-> Len(<< >>), ctx |-> Mem(a \o << >>, 0, room, "ERROR_NONE")]
          \/ o = [n |-> 0, ctx |-> Mem(a, 0, room, "ERROR_NONE")]
      BY <2>4, MemTakes
    <3> QED
      BY <3>1, <3>2
  <2>6. w = Failure(Mem(a, 0, room, "ERROR_NONE"), "DATA_WRITING_ERROR")
    BY <1>10, <2>3, <2>4, <2>5 DEF Put
  <2>7. w = [ok |-> FALSE, ctx |-> Mem(a, 0, room, "DATA_WRITING_ERROR")]
    BY <2>6, MemFields
  <2>8. w.ok = FALSE /\ w.ctx = Mem(a, 0, room, "DATA_WRITING_ERROR")
    BY <2>7
  <2>9. Failed(w, b, room)
    BY <2>1, <2>8 DEF Failed
  <2> QED
    BY <2>9 DEF w
<1> QED
  BY <1>11, <1>12

-----------------------------------------------------------------------------
(* The stream of values.                                                   *)

\* From p to q the bytes b are those of the value i, as far as they go.
Lies(i, b, p, q) == \E x : Coded(i, x) /\ q = p + Len(x) /\ Agrees(x, b, p)

\* at[k] is the place behind the kth value of the bytes b, or of the longer ones
\* of which only b is left.
Streamed(at, b) ==
  /\ b \in Seq(Byte) /\ at[0] = 0 /\ at[Len(sent)] = whole
  /\ \A k \in 0 .. Len(sent) : at[k] \in 0 .. whole
  /\ \A k \in 1 .. Len(sent) : Lies(sent[k], b, at[k - 1], at[k])

\* The value i is refused, or longer than the room that is left.
Lacks(i, room) == Empty(i) \/ \E x : Coded(i, x) /\ whole + Len(x) > room

Writing(b) == \E room \in Nat : ctx = Sink(b, room)
Ended(b) ==
  \E i \in Items, room \in Nat :
    /\ tried = << i >> /\ Lacks(i, room)
    /\ \E x \in Seq(Byte) : \E e : ctx = Mem(b \o x, 0, room, e)
Reading(at, b) == \E room : ctx = Mem(b, at[Len(got)], room, "ERROR_NONE")
Stuck(b) == ctx.error # "ERROR_NONE" /\ ctx.buf.bytes = b /\ Len(b) < whole

Stream(at, b) ==
  /\ Streamed(at, b)
  /\ phase \in {"write", "full"} => got = << >> /\ Len(b) = whole
  /\ phase = "write" => Writing(b)
  /\ phase = "full" => Ended(b)
  /\ phase = "read" => Reading(at, b)
  /\ phase = "stuck" => Stuck(b)

Answered ==
  /\ sent \in Seq(Items) /\ whole \in Nat /\ got \in Seq({Meaning(i) : i \in Items})
  /\ Len(got) <= Len(sent) /\ \A k \in 1 .. Len(got) : got[k] = Meaning(sent[k])

StreamInv ==
  /\ phase \in {"write", "full", "read", "stuck", "wire"}
  /\ Answered
  /\ phase # "wire" => \E at, b : Stream(at, b)

\* What lies in bytes lies in those that continue them, and in what is left when
\* these are cut.
LEMMA LiesFurther ==
  ASSUME NEW i, NEW b, NEW p \in Nat, NEW q, Lies(i, b, p, q),
         NEW c, Len(b) \in Nat, q <= Len(b), Agrees(b, c, 0)
  PROVE  Lies(i, c, p, q)
<1>1. PICK x : Coded(i, x) /\ q = p + Len(x) /\ Agrees(x, b, p)
  BY DEF Lies
<1>2. Len(x) \in Nat
  BY <1>1, CodedBytes
<1>3. ASSUME NEW j \in 1 .. Len(x), p + j <= Len(c) PROVE c[p + j] = x[j]
  <2>1. p + j \in 1 .. Len(b) /\ 0 + (p + j) = p + j
    BY <1>1, <1>2
  <2>2. PICK n \in 1 .. Len(b) : n = p + j /\ 0 + n = n
    BY <2>1
  <2>3. c[n] = b[n]
    BY <1>3, <2>2 DEF Agrees
  <2>4. b[n] = x[j]
    BY <1>1, <2>2 DEF Agrees
  <2> QED
    BY <2>2, <2>3, <2>4
<1> QED
  BY <1>1, <1>3 DEF Lies, Agrees

LEMMA StartsWith ==
  ASSUME NEW b \in Seq(Byte), NEW x \in Seq(Byte)
  PROVE  /\ Agrees(b, b \o x, 0) /\ Agrees(x, b \o x, Len(b))
         /\ \A n \in 0 .. Len(b \o x) : /\ SubSeq(b \o x, 1, n) \in Seq(Byte)
                                       /\ Agrees(b, SubSeq(b \o x, 1, n), 0)
<1>1. PICK a \in Seq(Byte) : a = b \o x
  BY JoinFacts
<1>2. PICK m \in Nat : m = Len(b)
  OBVIOUS
<1>3. PICK l \in Nat : l = Len(x)
  OBVIOUS
<1>4. /\ Len(a) = m + l /\ \A j \in 1 .. m : a[j] = b[j]
      /\ \A j \in 1 .. l : a[m + j] = x[j]
  BY <1>1, <1>2, <1>3
<1>5. Agrees(b, a, 0)
  BY <1>2, <1>4 DEF Agrees
<1>6. Agrees(x, a, m)
  BY <1>3, <1>4 DEF Agrees
<1>7. ASSUME NEW n \in 0 .. m + l
      PROVE  SubSeq(a, 1, n) \in Seq(Byte) /\ Agrees(b, SubSeq(a, 1, n), 0)
  <2>1. /\ SubSeq(a, 1, n) \in Seq(Byte) /\ Len(SubSeq(a, 1, n)) = n
        /\ \A j \in 1 .. n : SubSeq(a, 1, n)[j] = a[j]
    BY <1>4
  <2>2. PICK c \in Seq(Byte) : c = SubSeq(a, 1, n) /\ Len(c) = n /\ \A j \in 1 .. n : c[j] = a[j]
    BY <2>1, Zenon
  <2>3. ASSUME NEW j \in 1 .. m, 0 + j <= n PROVE c[0 + j] = b[j]
    BY <1>4, <2>2, <2>3
  <2>4. Agrees(b, c, 0)
    BY <1>2, <2>2, <2>3 DEF Agrees
  <2> QED
    BY <2>2, <2>4
<1> QED
  BY <1>1, <1>2, <1>4, <1>5, <1>6, <1>7

LEMMA StreamCut ==
  ASSUME NEW at, NEW b, Streamed(at, b), Len(b) = whole, NEW c \in Seq(Byte), Agrees(b, c, 0)
  PROVE  Streamed(at, c)
<1>1. b \in Seq(Byte) /\ Len(b) \in Nat
  BY DEF Streamed
<1>2. ASSUME NEW k \in 1 .. Len(sent) PROVE Lies(sent[k], c, at[k - 1], at[k])
  <2>1. Lies(sent[k], b, at[k - 1], at[k])
    BY DEF Streamed
  <2>2. k - 1 \in 0 .. Len(sent) /\ k \in 0 .. Len(sent)
    OBVIOUS
  <2>3. at[k - 1] \in Nat /\ at[k] <= Len(b)
    BY <1>1, <2>2 DEF Streamed
  <2> QED
    BY <1>1, <2>1, <2>3, LiesFurther
<1> QED
  BY <1>2 DEF Streamed

LEMMA SendKeepsStream ==
  ASSUME BackendIsMemory, StreamInv, Send
  PROVE  StreamInv'
<1> PICK at, b : Stream(at, b)
  BY DEF StreamInv, Send
<1>1. /\ phase = "write" /\ Streamed(at, b) /\ got = << >> /\ Len(b) = whole /\ Writing(b)
      /\ b \in Seq(Byte) /\ sent \in Seq(Items) /\ whole \in Nat
  BY DEF StreamInv, Stream, Streamed, Answered, Send
<1>2. PICK room \in Nat : ctx = Sink(b, room)
  BY <1>1 DEF Writing
<1>3. PICK i \in Items :
        LET r == WriteItem(ctx, i)
        IN /\ ctx' = r.ctx
           /\ IF r.ok
              THEN /\ sent' = Append(sent, i) /\ whole' = Len(r.ctx.buf.bytes)
                   /\ UNCHANGED << phase, tried >>
              ELSE phase' = "full" /\ tried' = << i >> /\ UNCHANGED << sent, whole >>
  BY DEF Send, Followers
<1>4. PICK r : r = WriteItem(Sink(b, room), i)
  OBVIOUS
<1>5. /\ ctx' = r.ctx /\ got' = got
      /\ r.ok => sent' = Append(sent, i) /\ whole' = Len(r.ctx.buf.bytes) /\ phase' = phase
                 /\ tried' = tried
      /\ ~r.ok => phase' = "full" /\ tried' = << i >> /\ sent' = sent /\ whole' = whole
  BY <1>2, <1>3, <1>4 DEF Send
<1>6. got' = << >>
  BY <1>1, <1>5
<1>7. CASE r.ok
  <2>1. ~Empty(i)
    BY <1>1, <1>4, <1>7, EmptyFails DEF Failed
  <2>2. PICK x : Coded(i, x) /\ x \in Seq(Byte)
    BY <2>1, CodingExists, CodedBytes
  <2>3. Wrote(r, b, room, x)
    BY <1>1, <1>4, <2>2, ItemWrites
  <2>4. r = Success(Sink(b \o x, room))
    BY <1>7, <2>3 DEF Wrote
  <2>5. PICK a \in Seq(Byte) : a = b \o x /\ Len(a) = Len(b) + Len(x)
    BY <1>1, <2>2, JoinFacts
  <2>6. r.ctx = Sink(a, room)
    BY <2>4, <2>5 DEF Success
  <2>7. a = r.ctx.buf.bytes
    BY <2>6, MemFields DEF Sink
  <2>8. PICK n \in Nat : n = Len(sent) + 1
    BY <1>1
  <2>9. PICK s \in Seq(Items) : /\ s = Append(sent, i) /\ Len(s) = n /\ s[n] = i
                               /\ \A k \in 1 .. Len(sent) : s[k] = sent[k]
    <3>1. sent \in Seq(Items)
      BY <1>1
    <3>2. /\ Append(sent, i) \in Seq(Items) /\ Len(Append(sent, i)) = Len(sent) + 1
          /\ Append(sent, i)[Len(sent) + 1] = i
          /\ \A k \in 1 .. Len(sent) : Append(sent, i)[k] = sent[k]
      BY <3>1
    <3> QED
      BY <2>8, <3>2, Zenon
  <2>10. sent' = s /\ whole' = Len(a) /\ phase' = "write"
    BY <1>1, <1>5, <1>7, <2>7, <2>9
  <2>11. /\ Len(s) = n /\ s[n] = i /\ \A k \in 1 .. n - 1 : s[k] = sent[k]
    BY <1>1, <2>8, <2>9
  <2>12. PICK f : f = [k \in 0 .. n |-> IF k = n THEN Len(a) ELSE at[k]]
    OBVIOUS
  <2>13. f[n] = Len(a) /\ \A k \in 0 .. n - 1 : f[k] = at[k]
    BY <2>12
  <2>14. Len(sent) = n - 1 /\ n - 1 \in 0 .. n - 1 /\ 0 \in 0 .. n - 1
    BY <1>1, <2>8
  <2>15. at[n - 1] = Len(b) /\ at[0] = 0 /\ \A k \in 0 .. n - 1 : at[k] \in 0 .. Len(b)
    BY <1>1, <2>14 DEF Streamed
  <2>16. Agrees(b, a, 0) /\ Agrees(x, a, Len(b))
    BY <1>1, <2>2, <2>5, StartsWith
  <2>17. Len(a) \in Nat /\ Len(b) \in Nat /\ Len(x) \in Nat
    BY <1>1, <2>2
  <2>18. \A k \in 0 .. n : f[k] \in 0 .. Len(a)
    <3>1. ASSUME NEW k \in 0 .. n - 1 PROVE f[k] \in 0 .. Len(a)
      <4>1. PICK h \in 0 .. Len(b) : h = f[k]
        BY <2>13, <2>15
      <4>2. Len(b) <= Len(a)
        BY <2>5, <2>17
      <4>3. h \in 0 .. Len(a)
        BY <2>17, <4>2
      <4> QED
        BY <4>1, <4>3
    <3>2. f[n] \in 0 .. Len(a)
      BY <2>13, <2>17
    <3> QED
      BY <3>1, <3>2
  <2>19. ASSUME NEW k \in 1 .. n PROVE Lies(s[k], a, f[k - 1], f[k])
    <3>1. CASE k = n
      <4>1. f[k - 1] = Len(b) /\ f[k] = Len(a)
        BY <2>13, <2>14, <2>15, <3>1
      <4>2. Lies(i, a, Len(b), Len(a))
        BY <2>2, <2>5, <2>16 DEF Lies
      <4> QED
        BY <2>11, <3>1, <4>1, <4>2
    <3>2. CASE k # n
      <4>1. k \in 1 .. Len(sent) /\ k \in 1 .. n - 1 /\ k - 1 \in 0 .. n - 1 /\ k \in 0 .. n - 1
        BY <2>14, <3>2
      <4>2. Lies(sent[k], b, at[k - 1], at[k])
        BY <1>1, <4>1 DEF Streamed
      <4>3. at[k - 1] \in Nat /\ at[k] <= Len(b)
        BY <2>15, <2>17, <4>1
      <4>4. Lies(sent[k], a, at[k - 1], at[k])
        BY <2>16, <2>17, <4>2, <4>3, LiesFurther
      <4> QED
        BY <2>11, <2>13, <4>1, <4>4
    <3> QED
      BY <3>1, <3>2
  <2>20. f[0] = 0
    BY <2>13, <2>14, <2>15
  <2>21. Streamed(f, a)'
    BY <2>10, <2>11, <2>13, <2>18, <2>19, <2>20 DEF Streamed
  <2>22. Writing(a)'
    BY <1>5, <2>6 DEF Writing
  <2>23. Stream(f, a)'
    BY <1>6, <2>10, <2>21, <2>22 DEF Stream
  <2>24. Answered'
    BY <1>6, <2>10, <2>17 DEF Answered
  <2> QED
    BY <2>10, <2>23, <2>24 DEF StreamInv
<1>8. CASE ~r.ok
  <2>1. /\ ctx' = r.ctx /\ got' = << >> /\ phase' = "full" /\ tried' = << i >> /\ sent' = sent
        /\ whole' = whole
    BY <1>1, <1>5, <1>8
  <2>2. Lacks(i, room) /\ \E x \in Seq(Byte) : \E e : r.ctx = Mem(b \o x, 0, room, e)
    <3>1. CASE Empty(i)
      <4>1. Failed(r, b, room)
        BY <1>1, <1>4, <3>1, EmptyFails
      <4> QED
        BY <3>1, <4>1 DEF Failed, Lacks
    <3>2. CASE ~Empty(i)
      <4>1. PICK x : Coded(i, x)
        BY <3>2, CodingExists
      <4>2. Wrote(r, b, room, x)
        BY <1>1, <1>4, <4>1, ItemWrites
      <4>3. ~(Len(b) + Len(x) <= room)
        <5>1. Success(Sink(b \o x, room)).ok = TRUE
          BY DEF Success
        <5> QED
          BY <1>8, <4>2, <5>1 DEF Wrote
      <4>4. Len(x) \in Nat
        BY <4>1, CodedBytes
      <4>5. whole + Len(x) > room
        BY <1>1, <4>3, <4>4
      <4> QED
        BY <4>1, <4>2, <4>3, <4>5 DEF Wrote, Lacks
    <3> QED
      BY <3>1, <3>2
  <2>3. Lacks(i, room)'
    BY <2>1, <2>2 DEF Lacks
  <2>4. Ended(b)'
    BY <2>1, <2>2, <2>3 DEF Ended
  <2>5. Streamed(at, b)'
    BY <1>1, <2>1 DEF Streamed
  <2>6. Stream(at, b)'
    BY <1>1, <2>1, <2>4, <2>5 DEF Stream
  <2>7. Answered'
    BY <1>1, <2>1 DEF Answered
  <2> QED
    BY <2>1, <2>6, <2>7 DEF StreamInv
<1> QED
  BY <1>7, <1>8

LEMMA DeliverKeepsStream ==
  ASSUME BackendIsMemory, StreamInv, Deliver
  PROVE  StreamInv'
<1> PICK at, b : Stream(at, b)
  BY DEF StreamInv, Deliver
<1>1. /\ phase \in {"write", "full"} /\ Streamed(at, b) /\ got = << >> /\ Len(b) = whole
      /\ phase = "write" => Writing(b)
      /\ phase = "full" => Ended(b)
      /\ b \in Seq(Byte)
  BY DEF Stream, Streamed, Deliver
<1>2. PICK x \in Seq(Byte) : ctx.buf.bytes = b \o x
  <2>1. CASE phase = "write"
    <3>1. PICK room \in Nat : ctx = Sink(b, room)
      BY <1>1, <2>1 DEF Writing
    <3>2. ctx.buf.bytes = b
      BY <3>1, MemFields DEF Sink
    <3>3. << >> \in Seq(Byte) /\ b \o << >> = b
      BY <1>1, Nothing
    <3> QED
      BY <3>2, <3>3
  <2>2. CASE phase = "full"
    <3>1. PICK i, room : \E x \in Seq(Byte) : \E e : ctx = Mem(b \o x, 0, room, e)
      BY <1>1, <2>2 DEF Ended
    <3>2. PICK x \in Seq(Byte) : \E e : ctx = Mem(b \o x, 0, room, e)
      BY <3>1
    <3>3. PICK e : ctx = Mem(b \o x, 0, room, e)
      BY <3>2
    <3>4. PICK a : a = b \o x
      OBVIOUS
    <3>5. ctx = Mem(a, 0, room, e)
      BY <3>3, <3>4, Zenon
    <3>6. ctx.buf.bytes = a
      BY <3>5, MemFields
    <3> QED
      BY <3>4, <3>6
  <2> QED
    BY <1>1, <2>1, <2>2
<1>3. PICK a \in Seq(Byte) : a = b \o x
  BY <1>1, JoinFacts
<1>4. PICK n \in 0 .. Len(a) : ctx' = Backend(SubSeq(a, 1, n), n)
  BY <1>2, <1>3 DEF Deliver
<1>5. SubSeq(a, 1, n) \in Seq(Byte) /\ Agrees(b, SubSeq(a, 1, n), 0)
  BY <1>1, <1>3, StartsWith
<1>6. PICK c \in Seq(Byte) : c = SubSeq(a, 1, n) /\ Agrees(b, c, 0)
  BY <1>5, Zenon
<1>7. Streamed(at, c)
  BY <1>1, <1>6, StreamCut
<1>8. phase' = "read" /\ sent' = sent /\ whole' = whole /\ got' = got /\ tried' = tried
  BY DEF Deliver, stream
<1>9. ctx' = Mem(c, at[Len(got)], n, "ERROR_NONE")
  <2>1. ctx' = Mem(c, 0, n, "ERROR_NONE")
    BY <1>4, <1>6, MemFields
  <2>2. at[Len(got)] = 0
    BY <1>1 DEF Streamed
  <2> QED
    BY <2>1, <2>2
<1>10. Streamed(at, c)'
  BY <1>7, <1>8 DEF Streamed
<1>11. Reading(at, c)'
  BY <1>8, <1>9 DEF Reading
<1>12. Stream(at, c)'
  BY <1>8, <1>10, <1>11 DEF Stream
<1>13. Answered'
  BY <1>8 DEF StreamInv, Answered
<1> QED
  BY <1>8, <1>12, <1>13 DEF StreamInv

LEMMA ReceiveKeepsStream ==
  ASSUME BackendIsMemory, StreamInv, Receive
  PROVE  StreamInv'
<1> PICK at, b : Stream(at, b)
  BY DEF StreamInv, Receive
<1>1. /\ phase = "read" /\ Streamed(at, b) /\ Reading(at, b) /\ Answered
      /\ sent \in Seq(Items) /\ whole \in Nat /\ Len(got) < Len(sent) /\ b \in Seq(Byte)
      /\ got \in Seq({Meaning(i) : i \in Items})
  BY DEF StreamInv, Stream, Streamed, Answered, Receive
<1>2. PICK room : ctx = Mem(b, at[Len(got)], room, "ERROR_NONE")
  BY <1>1 DEF Reading
<1>3. PICK k \in 1 .. Len(sent) : k = Len(got) + 1 /\ k - 1 = Len(got)
  BY <1>1
<1>4. PICK i \in Items : i = sent[k]
  BY <1>1
<1>5. PICK r : r = ReadItem(ctx, i)
  OBVIOUS
<1>6. /\ ctx' = r.ctx /\ sent' = sent /\ tried' = tried /\ whole' = whole
      /\ r.ok => got' = Append(got, r.val) /\ phase' = phase
      /\ ~r.ok => phase' = "stuck" /\ got' = got
  BY <1>3, <1>4, <1>5 DEF Receive
<1>7. PICK p \in Nat : p = at[Len(got)]
  <2>1. k - 1 \in 0 .. Len(sent)
    OBVIOUS
  <2> QED
    BY <1>1, <1>3, <2>1 DEF Streamed
<1>8. PICK q \in 0 .. whole : q = at[k]
  <2>1. k \in 0 .. Len(sent)
    OBVIOUS
  <2> QED
    BY <1>1, <2>1 DEF Streamed
<1>9. Lies(i, b, p, q)
  BY <1>1, <1>3, <1>4, <1>7, <1>8 DEF Streamed
<1>10. PICK x : Coded(i, x) /\ q = p + Len(x) /\ Agrees(x, b, p)
  BY <1>9 DEF Lies
<1>11. Received(r, b, q, room, "ERROR_NONE", Meaning(i))
  BY <1>1, <1>2, <1>5, <1>7, <1>10, ItemReads
<1>12. Streamed(at, b)'
  BY <1>1, <1>6 DEF Streamed
<1>13. CASE q <= Len(b)
  <2>1. r.ok = TRUE /\ r.ctx = Mem(b, q, room, "ERROR_NONE") /\ r.val = Meaning(i)
    BY <1>11, <1>13 DEF Received, Returned
  <2>2. PICK g \in Seq({Meaning(j) : j \in Items}) :
          /\ g = Append(got, Meaning(i)) /\ Len(g) = k /\ g[k] = Meaning(i)
          /\ \A j \in 1 .. Len(got) : g[j] = got[j]
    <3>1. Meaning(i) \in {Meaning(j) : j \in Items}
      OBVIOUS
    <3>2. got \in Seq({Meaning(j) : j \in Items})
      BY <1>1
    <3>3. /\ Append(got, Meaning(i)) \in Seq({Meaning(j) : j \in Items})
          /\ Len(Append(got, Meaning(i))) = Len(got) + 1
          /\ Append(got, Meaning(i))[Len(got) + 1] = Meaning(i)
          /\ \A j \in 1 .. Len(got) : Append(got, Meaning(i))[j] = got[j]
      BY <3>1, <3>2
    <3> QED
      BY <1>3, <3>3, Zenon
  <2>3. got' = g /\ phase' = "read" /\ ctx' = Mem(b, q, room, "ERROR_NONE")
    BY <1>1, <1>6, <2>1, <2>2
  <2>4. Len(g) = k /\ g[k] = Meaning(i) /\ \A j \in 1 .. k - 1 : g[j] = got[j]
    BY <1>3, <2>2
  <2>5. Answered'
    <3>1. ASSUME NEW j \in 1 .. k PROVE g[j] = Meaning(sent[j])
      <4>1. CASE j = k
        BY <1>4, <2>4, <4>1
      <4>2. CASE j # k
        <5>1. j \in 1 .. k - 1 /\ j \in 1 .. Len(got)
          BY <1>3, <4>2
        <5> QED
          BY <1>1, <2>4, <5>1 DEF Answered
      <4> QED
        BY <4>1, <4>2
    <3>2. k <= Len(sent)
      OBVIOUS
    <3> QED
      BY <1>1, <1>6, <2>3, <2>4, <3>1, <3>2 DEF Answered
  <2>6. Reading(at, b)'
    BY <1>8, <2>3, <2>4 DEF Reading
  <2>7. Stream(at, b)'
    BY <1>12, <2>3, <2>6 DEF Stream
  <2> QED
    BY <2>3, <2>5, <2>7 DEF StreamInv
<1>14. CASE ~(q <= Len(b))
  <2>1. r.ok = FALSE /\ r.ctx.error \in ReadErrors /\ r.ctx.buf.bytes = b
    BY <1>11, <1>14 DEF Received, Cut
  <2>2. phase' = "stuck" /\ got' = got /\ ctx' = r.ctx
    BY <1>6, <2>1
  <2>3. Len(b) < whole
    <3>1. Len(b) \in Nat
      BY <1>1
    <3> QED
      BY <1>1, <1>8, <1>14, <3>1
  <2>4. "ERROR_NONE" \notin ReadErrors
    BY DEF ReadErrors
  <2>5. Stuck(b)'
    BY <1>6, <2>1, <2>2, <2>3, <2>4 DEF Stuck
  <2>6. Stream(at, b)'
    BY <1>12, <2>2, <2>5 DEF Stream
  <2>7. Answered'
    BY <1>1, <1>6, <2>2 DEF Answered
  <2> QED
    BY <2>2, <2>6, <2>7 DEF StreamInv
<1> QED
  BY <1>13, <1>14

\* The stream of values that is written, cut anywhere and read lies in the bytes
\* of the backend value behind value: what the readers have returned and where
\* they stand agree with it.
THEOREM StreamInvariant ==
  ASSUME BackendIsMemory
  PROVE  Spec => []StreamInv
<1>1. ASSUME Init PROVE StreamInv
  <2>1. sent = << >> /\ whole = 0 /\ got = << >> /\ tried = << >>
    BY <1>1 DEF Init
  <2>2. Answered
    BY <2>1 DEF Answered
  <2>3. CASE phase = "wire"
    BY <2>2, <2>3 DEF StreamInv
  <2>4. CASE phase = "write"
    <3>1. PICK room \in Nat : ctx = Backend(<< >>, room)
      BY <1>1, <2>4, BackendAssumption DEF Init
    <3> << >> \in Seq(Byte) /\ Len(<< >>) = 0
      OBVIOUS
    <3>2. PICK b \in Seq(Byte) : b = << >> /\ Len(b) = 0
      OBVIOUS
    <3>3. ctx = Sink(b, room)
      BY <3>1, <3>2, MemFields DEF Sink
    <3>4. PICK at : at = [k \in {0} |-> 0]
      OBVIOUS
    <3>5. Len(sent) = 0 /\ at[0] = 0
      BY <2>1, <3>4
    <3>6. Streamed(at, b)
      BY <2>1, <3>5 DEF Streamed
    <3>7. Writing(b)
      BY <3>3 DEF Writing
    <3>8. Stream(at, b)
      BY <2>1, <2>4, <3>2, <3>6, <3>7 DEF Stream
    <3> QED
      BY <2>2, <2>4, <3>8 DEF StreamInv
  <2> QED
    BY <1>1, <2>3, <2>4 DEF Init
<1>2. ASSUME StreamInv, WireInv, [Next]_vars PROVE StreamInv'
  <2>1. CASE Send
    BY <1>2, <2>1, SendKeepsStream
  <2>2. CASE Deliver
    BY <1>2, <2>2, DeliverKeepsStream
  <2>3. CASE Receive
    BY <1>2, <2>3, ReceiveKeepsStream
  <2>4. CASE ReadObject
    <3>1. /\ phase = "wire" /\ phase' = phase /\ tried' = tried /\ sent' = sent /\ whole' = whole
          /\ got' = got
      BY <2>4 DEF ReadObject, stream
    <3>2. Answered'
      BY <1>2, <3>1 DEF StreamInv, Answered
    <3> QED
      BY <3>1, <3>2 DEF StreamInv
  <2>5. CASE WriteObject \/ UNCHANGED vars
    <3>1. /\ ctx' = ctx /\ phase' = phase /\ tried' = tried /\ sent' = sent /\ whole' = whole
          /\ got' = got
      BY <2>5 DEF WriteObject, vars, stream
    <3>2. Answered'
      BY <1>2, <3>1 DEF StreamInv, Answered
    <3>3. ASSUME phase' # "wire" PROVE \E at, b : Stream(at, b)'
      <4>1. PICK at, b : Stream(at, b)
        BY <1>2, <3>1, <3>3 DEF StreamInv
      <4>2. Streamed(at, b)'
        BY <3>1, <4>1 DEF Stream, Streamed
      <4>3. phase = "full" => Ended(b)'
        BY <3>1, <4>1 DEF Stream, Ended, Lacks
      <4>4. Stream(at, b)'
        BY <3>1, <4>1, <4>2, <4>3 DEF Stream, Writing, Reading, Stuck
      <4> QED
        BY <4>4
    <3> QED
      BY <1>2, <3>1, <3>2, <3>3 DEF StreamInv
  <2> QED
    BY <1>2, <2>1, <2>2, <2>3, <2>4, <2>5 DEF Next
<1> QED
  BY <1>1, <1>2, WireInvariant, PTL DEF Spec

\* Every value that a reader returns is the value that was written at that place
\* of the stream, whatever was written before it and wherever the bytes end: the
\* readers of lib/c-msgpack.c consume exactly what the writers wrote.
THEOREM EveryValueArrives ==
  ASSUME BackendIsMemory
  PROVE  Spec => []ValuesArrive
<1>1. StreamInv => ValuesArrive
  BY DEF StreamInv, Answered, ValuesArrive
<1> QED
  BY <1>1, StreamInvariant, PTL

\* A reader fails only on bytes that were cut, and leaves an error behind; the
\* readers of all values have consumed the bytes of the values and no more, although
\* a failed write may have left a part of another value behind them.
THEOREM EveryCutIsNoticed ==
  ASSUME BackendIsMemory
  PROVE  Spec => []CutsAreNoticed
<1>1. ASSUME StreamInv PROVE CutsAreNoticed
  <2>1. ASSUME phase = "stuck" PROVE ctx.error # "ERROR_NONE" /\ Len(ctx.buf.bytes) < whole
    BY <1>1, <2>1 DEF StreamInv, Stream, Stuck
  <2>2. ASSUME phase = "read", Len(got) = Len(sent) PROVE ctx.buf.pos = whole
    <3>1. PICK at, b : Stream(at, b)
      BY <1>1, <2>2 DEF StreamInv
    <3>2. PICK room : ctx = Mem(b, at[Len(got)], room, "ERROR_NONE")
      BY <2>2, <3>1 DEF Stream, Reading
    <3>3. at[Len(sent)] = whole
      BY <3>1 DEF Stream, Streamed
    <3>4. PICK p : p = at[Len(got)]
      OBVIOUS
    <3>5. ctx.buf.pos = p
      BY <3>2, <3>4, MemFields
    <3> QED
      BY <2>2, <3>3, <3>4, <3>5
  <2> QED
    BY <2>1, <2>2 DEF CutsAreNoticed
<1> QED
  BY <1>1, StreamInvariant, PTL

\* A writer reports failure only if its value does not fit the room that is left,
\* or is an extended value without data, which c-msgpack.c refuses.
THEOREM FailuresAreForRoom ==
  ASSUME BackendIsMemory
  PROVE  Spec => []FailsOnlyWhenFull
<1>1. ASSUME StreamInv PROVE FailsOnlyWhenFull
  <2>1. SUFFICES ASSUME phase = "full"
                 PROVE  \/ whole + Len(WriteItem(Fresh, tried[1]).ctx.buf.bytes) > ctx.buf.room
                        \/ tried[1].kind = "ext" /\ tried[1].v.data = << >>
    BY DEF FailsOnlyWhenFull
  <2>2. PICK at, b : Stream(at, b)
    BY <1>1, <2>1 DEF StreamInv
  <2>3. PICK i \in Items : \E room \in Nat :
          /\ tried = << i >> /\ Lacks(i, room)
          /\ \E x \in Seq(Byte) : \E e : ctx = Mem(b \o x, 0, room, e)
    BY <2>1, <2>2 DEF Stream, Ended
  <2>4. PICK room \in Nat :
          /\ tried = << i >> /\ Lacks(i, room)
          /\ \E x \in Seq(Byte) : \E e : ctx = Mem(b \o x, 0, room, e)
    BY <2>3
  <2>5. tried[1] = i /\ ctx.buf.room = room
    BY <2>4, MemFields
  <2>6. CASE Empty(i)
    BY <2>5, <2>6 DEF Empty
  <2>7. CASE ~Empty(i)
    <3>1. PICK x : Coded(i, x) /\ whole + Len(x) > room
      BY <2>4, <2>7 DEF Lacks
    <3>2. WriteItem(Fresh, i).ctx.buf.bytes = x
      BY <3>1, FreshCodes
    <3> QED
      BY <2>5, <3>1, <3>2
  <2> QED
    BY <2>6, <2>7
<1> QED
  BY <1>1, StreamInvariant, PTL

\* An object that cmp_read_object read from any bytes is written again by
\* cmp_write_object as the bytes that were consumed; only the unused marker and
\* headers that are cut are refused.
THEOREM EveryObjectIsRewritten ==
  ASSUME BackendIsMemory
  PROVE  Spec => []ObjectsAreRewritten
<1>1. WireInv => ObjectsAreRewritten
  BY WireObjectsAreRewritten
<1> QED
  BY <1>1, WireInvariant, PTL

\* Whatever bytes encode a number, cmp_write_integer and cmp_write_uinteger find
\* no longer ones for it, and every typed reader takes these if and only if the
\* number is in the range of its C type.
THEOREM EveryNumberIsCanonical ==
  ASSUME BackendIsMemory
  PROVE  Spec => []NumbersAreCanonical
<1>1. WireInv => NumbersAreCanonical
  BY WireNumbersAreCanonical
<1> QED
  BY <1>1, WireInvariant, PTL

\* Whatever bytes come from the wire, a typed reader returns the number they
\* encode and only if its C type has it; a wider reader takes what a narrower
\* one does.
THEOREM EveryReaderIsSound ==
  ASSUME BackendIsMemory
  PROVE  Spec => []ReadersAreSound
<1>1. WireInv => ReadersAreSound
  BY WireReadersAreSound
<1> QED
  BY <1>1, WireInvariant, PTL
=============================================================================
