------------------------ MODULE MCMuxMessagesProofs ------------------------
(***************************************************************************)
(* Proofs about the way from the regions that are reported, over the bytes *)
(* that are sent, to what the server decodes, and about the messages the   *)
(* library receives; for surfaces, alignments, numbers, widths and blocks  *)
(* of any size.                                                            *)
(*                                                                         *)
(* The dirty box: the least one before mux_display_refresh aligns it, and  *)
(* what MCMuxRect asks of it then.  The inductive invariant names the box  *)
(* that was accumulated, which aligning overwrites: it is tight, every     *)
(* pixel lies in it and each of its edges touches a pixel, and the least   *)
(* box is the only tight one.                                              *)
(*                                                                         *)
(* The message: it lies in its block and has no byte that nobody wrote,    *)
(* because no single write of the MessagePack library is longer than the   *)
(* least block.  Its numbers lie one behind the other in the bytes (Laid), *)
(* and a reader that stands before one of them returns it and stands       *)
(* behind it (ReadsUint); so the server's loop takes all of them and the   *)
(* library's handlers take those they ask for.                             *)
(*                                                                         *)
(* The invariants: what the server has understood and what is under way to *)
(* it are, in order, what was sent; the callbacks, the rate and the        *)
(* buffers are those of the answers taken so far, and what is under way to *)
(* the library are the bytes of the others.                                *)
(***************************************************************************)
EXTENDS MCMuxMessages, MuxRectProofs, SequenceTheorems

\* What CmpProofs says of the library that MuxMessages calls Pack.
P == INSTANCE CmpProofs WITH write <- mux_msg_writer, read <- mux_msg_reader

Tight(u, S) ==
  /\ S \subseteq Cells(u)
  /\ \E c \in S : c[1] = u.x1
  /\ \E c \in S : c[1] = u.x2 - 1
  /\ \E c \in S : c[2] = u.y1
  /\ \E c \in S : c[2] = u.y2 - 1

RectInv ==
  /\ size \in Surface /\ aligned \in BOOLEAN
  /\ \E u \in Rect : /\ Fits(u, size) /\ Tight(u, drawn)
                     /\ box = IF aligned THEN AlignToSurface(u, size) ELSE u

-----------------------------------------------------------------------------
(* Extreme coordinates.                                                    *)

LEMMA MinIs ==
  ASSUME NEW S \in SUBSET Int, NEW m \in S, \A n \in S : m <= n
  PROVE  Min(S) = m
<1>1. Min(S) \in S /\ \A n \in S : Min(S) <= n
  BY DEF Min
<1>2. Min(S) \in Int /\ Min(S) <= m /\ m <= Min(S)
  BY <1>1
<1> QED
  BY <1>2

LEMMA MaxIs ==
  ASSUME NEW S \in SUBSET Int, NEW m \in S, \A n \in S : n <= m
  PROVE  Max(S) = m
<1>1. Max(S) \in S /\ \A n \in S : Max(S) >= n
  BY DEF Max
<1>2. Max(S) \in Int /\ m <= Max(S) /\ Max(S) <= m
  BY <1>1
<1> QED
  BY <1>2

LEMMA CellsOf ==
  ASSUME NEW u \in Rect, NEW c \in Cells(u)
  PROVE  /\ c[1] \in Int /\ c[2] \in Int
         /\ u.x1 <= c[1] /\ c[1] <= u.x2 - 1 /\ u.y1 <= c[2] /\ c[2] <= u.y2 - 1
BY DEF Cells, Rect

LEMMA CellIs ==
  ASSUME NEW u \in Rect, NEW x \in Int, NEW y \in Int,
         u.x1 <= x, x <= u.x2 - 1, u.y1 <= y, y <= u.y2 - 1
  PROVE  << x, y >> \in Cells(u)
BY DEF Cells, Rect

LEMMA TightIsLeast ==
  ASSUME NEW u \in Rect, NEW S, Tight(u, S)
  PROVE  u = BoundingBox(S)
<1>1. /\ Columns(S) \in SUBSET Int /\ Rows(S) \in SUBSET Int
      /\ \A n \in Columns(S) : u.x1 <= n /\ n <= u.x2 - 1
      /\ \A n \in Rows(S) : u.y1 <= n /\ n <= u.y2 - 1
  BY CellsOf DEF Tight, Columns, Rows
<1>2. /\ u.x1 \in Columns(S) /\ u.x2 - 1 \in Columns(S)
      /\ u.y1 \in Rows(S) /\ u.y2 - 1 \in Rows(S)
  BY DEF Tight, Columns, Rows
<1>3. /\ Min(Columns(S)) = u.x1 /\ Max(Columns(S)) = u.x2 - 1
      /\ Min(Rows(S)) = u.y1 /\ Max(Rows(S)) = u.y2 - 1
  BY <1>1, <1>2, MinIs, MaxIs
<1> QED
  BY <1>3 DEF BoundingBox, Rect

-----------------------------------------------------------------------------
(* Regions, and the growth of the box.                                     *)

LEMMA RegionFacts ==
  ASSUME size \in Surface, NEW r \in RegionsOf(size)
  PROVE  /\ r \in IntRegion /\ RectOf(r) \in Rect
         /\ Fits(RectOf(r), size) /\ Tight(RectOf(r), Cells(RectOf(r)))
<1>1. /\ r \in IntRegion /\ r.w >= 1 /\ r.h >= 1 /\ Fits(RectOf(r), size)
  BY DEF RegionsOf, Surface, IntRegion
<1>2. /\ RectOf(r) \in Rect
      /\ RectOf(r).x1 <= RectOf(r).x2 - 1 /\ RectOf(r).y1 <= RectOf(r).y2 - 1
  BY <1>1 DEF RectOf, Rect, IntRegion
<1>3. /\ << RectOf(r).x1, RectOf(r).y1 >> \in Cells(RectOf(r))
      /\ << RectOf(r).x2 - 1, RectOf(r).y2 - 1 >> \in Cells(RectOf(r))
  BY <1>2, CellIs DEF Rect
<1> QED
  BY <1>1, <1>2, <1>3 DEF Tight

LEMMA ExpandIsTight ==
  ASSUME NEW u \in Rect, NEW S, Tight(u, S),
         NEW r \in IntRegion, Tight(RectOf(r), Cells(RectOf(r)))
  PROVE  Tight(ExpandRect(u, r), S \cup Cells(RectOf(r)))
<1> DEFINE e == ExpandRect(u, r)
           p == RectOf(r)
<1>1. e \in Rect /\ p \in Rect /\ Within(u, e) /\ Within(p, e)
  BY ExpandRectType, RectOfType, ExpandRectLeast
<1>2. S \cup Cells(p) \subseteq Cells(e)
  BY <1>1, WithinCells DEF Tight
<1>3. /\ e.x1 \in {u.x1, p.x1} /\ e.x2 \in {u.x2, p.x2}
      /\ e.y1 \in {u.y1, p.y1} /\ e.y2 \in {u.y2, p.y2}
  BY DEF ExpandRect, RectOf, MinInt, MaxInt
<1>4. /\ \E c \in S \cup Cells(p) : c[1] = e.x1
      /\ \E c \in S \cup Cells(p) : c[1] = e.x2 - 1
      /\ \E c \in S \cup Cells(p) : c[2] = e.y1
      /\ \E c \in S \cup Cells(p) : c[2] = e.y2 - 1
  <2> HIDE DEF e, p
  <2> QED
    BY <1>3 DEF Tight, p
<1> QED
  BY <1>2, <1>4 DEF Tight

LEMMA ExpandFits ==
  ASSUME size \in Surface, NEW u \in Rect, Fits(u, size),
         NEW r \in IntRegion, Fits(RectOf(r), size)
  PROVE  Fits(ExpandRect(u, r), size)
BY DEF Surface, Rect, IntRegion, Fits, RectOf, ExpandRect, MinInt, MaxInt

-----------------------------------------------------------------------------
(***************************************************************************)
(* The inductive invariant: the aligned box is that of a tight box.        *)
(***************************************************************************)
LEMMA InitRectInv ==
  ASSUME RectInit
  PROVE  RectInv
<1>1. size \in Surface /\ aligned = FALSE
  BY BoundsAssumption DEF RectInit, Surface
<1>2. PICK r \in RegionsOf(size) : box = RectOf(r) /\ drawn = Cells(RectOf(r))
  BY DEF RectInit
<1> QED
  BY <1>1, <1>2, RegionFacts DEF RectInv

LEMMA NextRectInv ==
  ASSUME RectInv, [RectNext]_rectVars
  PROVE  RectInv'
<1>1. CASE UNCHANGED rectVars
  BY <1>1 DEF rectVars, RectInv
<1>2. ASSUME NEW r \in RegionsOf(size), Report(r)
      PROVE  RectInv'
  <2>1. /\ size \in Surface /\ ~aligned /\ size' = size /\ aligned' = aligned
        /\ box' = ExpandRect(box, r) /\ drawn' = drawn \cup Cells(RectOf(r))
    BY <1>2 DEF Report, RectInv
  <2>2. box \in Rect /\ Fits(box, size) /\ Tight(box, drawn)
    BY <2>1 DEF RectInv
  <2>3. ExpandRect(box, r) \in Rect /\ Fits(ExpandRect(box, r), size)
    BY <2>1, <2>2, RegionFacts, ExpandRectType, ExpandFits
  <2>4. Tight(ExpandRect(box, r), drawn \cup Cells(RectOf(r)))
    BY <2>1, <2>2, RegionFacts, ExpandIsTight
  <2> QED
    BY <2>1, <2>3, <2>4 DEF RectInv
<1>3. CASE Align
  <2>1. /\ size \in Surface /\ ~aligned /\ size' = size /\ aligned' = TRUE
        /\ box' = AlignToSurface(box, size) /\ drawn' = drawn
    BY <1>3 DEF Align, RectInv
  <2>2. box \in Rect /\ Fits(box, size) /\ Tight(box, drawn)
    BY <2>1 DEF RectInv
  <2> QED
    BY <2>1, <2>2 DEF RectInv
<1> QED
  BY <1>1, <1>2, <1>3 DEF RectNext

\* The accumulated box of mux_display_update (rdpmux.c:104-127) is tight around
\* everything drawn, after any number of regions.
THEOREM RectInvariant == RectSpec => []RectInv
<1>1. RectInit => RectInv
  BY InitRectInv
<1>2. RectInv /\ [RectNext]_rectVars => RectInv'
  BY NextRectInv
<1> QED
  BY <1>1, <1>2, PTL DEF RectSpec

(***************************************************************************)
(* mux_expand_rect keeps the dirty box the least one around everything     *)
(* that was reported, however many regions there are (rdpmux.c:28-41).     *)
(***************************************************************************)
THEOREM BoxIsLeast == RectSpec => []LeastBox
<1>1. RectInv => LeastBox
  BY TightIsLeast DEF RectInv, LeastBox
<1> QED
  BY <1>1, RectInvariant, PTL

-----------------------------------------------------------------------------
(* Multiples of ALIGN.                                                     *)

LEMMA MultipleHasNoRest ==
  ASSUME NEW q \in Int
  PROVE  (ALIGN * q) % ALIGN = 0
BY AlignAssumption

LEMMA AlignDownIsMultiple ==
  ASSUME NEW v \in Int
  PROVE  AlignDown(v) % ALIGN = 0
BY AlignAssumption DEF AlignDown

LEMMA AlignUpIsMultiple ==
  ASSUME NEW v \in Int
  PROVE  AlignUp(v) % ALIGN = 0
<1>1. CASE v % ALIGN = 0
  BY <1>1 DEF AlignUp
<1>2. CASE v % ALIGN # 0
  <2> DEFINE q == v \div ALIGN
  <2>1. q \in Int /\ q + 1 \in Int /\ v % ALIGN \in Int /\ v = (ALIGN * q) + (v % ALIGN)
    BY AlignAssumption
  <2>2. AlignUp(v) = ALIGN * (q + 1)
    BY <1>2, <2>1, AlignAssumption DEF AlignUp
  <2> QED
    BY <2>1, <2>2, MultipleHasNoRest
<1> QED
  BY <1>1, <1>2

(***************************************************************************)
(* The aligned box still covers everything that was reported, lies on the  *)
(* surface, begins at multiples of ALIGN, ends at one or at the edge of    *)
(* the surface, and is less than ALIGN larger at each edge                 *)
(* (rdpmux.c:242-264).                                                     *)
(***************************************************************************)
THEOREM BoxIsAligned == RectSpec => []AlignedBox
<1>1. ASSUME RectInv, aligned
      PROVE  AlignedBox
  <2>1. PICK u \in Rect : /\ Fits(u, size) /\ Tight(u, drawn)
                          /\ box = AlignToSurface(u, size)
    BY <1>1 DEF RectInv
  <2>2. size \in Surface /\ u = BoundingBox(drawn)
    BY <1>1, <2>1, TightIsLeast DEF RectInv
  <2>3. /\ Fits(box, size) /\ Within(u, box)
        /\ u.x1 - box.x1 < ALIGN /\ u.y1 - box.y1 < ALIGN
        /\ box.x2 - u.x2 < ALIGN /\ box.y2 - u.y2 < ALIGN
    BY <2>1, <2>2, AlignToSurfaceCovers
  <2>4. drawn \subseteq Cells(box)
    BY <2>1, <2>2, <2>3, WithinCells, AlignToSurfaceType DEF Tight
  <2>5. box.x1 % ALIGN = 0 /\ box.y1 % ALIGN = 0
    BY <2>1, AlignDownIsMultiple DEF AlignToSurface, Rect
  <2>6. /\ box.x2 % ALIGN = 0 \/ box.x2 = size.w
        /\ box.y2 % ALIGN = 0 \/ box.y2 = size.h
    BY <2>1, AlignUpIsMultiple DEF AlignToSurface, MinInt, Rect
  <2> QED
    BY <2>2, <2>3, <2>4, <2>5, <2>6 DEF AlignedBox
<1>2. RectInv => AlignedBox
  BY <1>1 DEF AlignedBox
<1> QED
  BY <1>2, RectInvariant, PTL

-----------------------------------------------------------------------------
(* The definitions of P are those of Pack.                                 *)

LEMMA SameLayout ==
  /\ P!MarkerOrder = Pack!MarkerOrder
  /\ P!FIXMAP_MARKER = Pack!FIXMAP_MARKER /\ P!FIXARRAY_MARKER = Pack!FIXARRAY_MARKER
  /\ P!FIXSTR_MARKER = Pack!FIXSTR_MARKER /\ P!NIL_MARKER = Pack!NIL_MARKER
  /\ P!NEGATIVE_FIXNUM_MARKER = Pack!NEGATIVE_FIXNUM_MARKER
  /\ P!Marker = Pack!Marker /\ P!Width = Pack!Width /\ P!FixextSize = Pack!FixextSize
<1>1. P!MarkerOrder = Pack!MarkerOrder
  BY DEF P!MarkerOrder, Pack!MarkerOrder
<1>2. /\ P!FIXMAP_MARKER = Pack!FIXMAP_MARKER /\ P!FIXARRAY_MARKER = Pack!FIXARRAY_MARKER
      /\ P!FIXSTR_MARKER = Pack!FIXSTR_MARKER /\ P!NIL_MARKER = Pack!NIL_MARKER
  BY DEF P!FIXMAP_MARKER, P!FIXARRAY_MARKER, P!FIXSTR_MARKER, P!NIL_MARKER,
         Pack!FIXMAP_MARKER, Pack!FIXARRAY_MARKER, Pack!FIXSTR_MARKER, Pack!NIL_MARKER
<1>3. P!NEGATIVE_FIXNUM_MARKER = Pack!NEGATIVE_FIXNUM_MARKER
  BY <1>1, <1>2 DEF P!NEGATIVE_FIXNUM_MARKER, Pack!NEGATIVE_FIXNUM_MARKER
<1>4. P!Marker = Pack!Marker
  BY <1>1, <1>2 DEF P!Marker, Pack!Marker, P!ToSet, Pack!ToSet
<1>5. P!Width = Pack!Width
  BY DEF P!Width, Pack!Width
<1>6. P!FixextSize = Pack!FixextSize
  BY DEF P!FixextSize, Pack!FixextSize
<1> QED
  BY <1>1, <1>2, <1>3, <1>4, <1>5, <1>6

\* What CmpProofs assumes of the layout.
LEMMA LayoutHolds == P!LayoutFits
<1>1. Pack!LayoutFits
  BY MessageAssumption
<1>2. P!MinNfix = Pack!MinNfix
  BY SameLayout DEF P!MinNfix, Pack!MinNfix
<1> QED
  BY <1>1, <1>2, SameLayout DEF P!LayoutFits, Pack!LayoutFits

LEMMA SameTypes ==
  /\ P!SIGNED = Pack!SIGNED /\ P!UNSIGNED = Pack!UNSIGNED /\ P!STR = Pack!STR
  /\ P!BIN = Pack!BIN /\ P!EXT = Pack!EXT /\ P!FIXEXT = Pack!FIXEXT
  /\ P!ARRAY = Pack!ARRAY /\ P!MAP = Pack!MAP
BY SameLayout DEF P!SIGNED, Pack!SIGNED, P!UNSIGNED, Pack!UNSIGNED, P!STR, Pack!STR, P!BIN, Pack!BIN,
   P!EXT, Pack!EXT, P!FIXEXT, Pack!FIXEXT, P!ARRAY, Pack!ARRAY, P!MAP, Pack!MAP

LEMMA SameNumbers ==
  /\ P!Values = Pack!Values
  /\ \A b : P!Number(b) = Pack!Number(b)
  /\ \A v, n : P!BigEndian(v, n) = Pack!BigEndian(v, n)
  /\ \A u, n : P!AsTwosComplement(u, n) = Pack!AsTwosComplement(u, n)
<1>1. P!Values = Pack!Values
  BY DEF P!Values, Pack!Values
<1>2. \A b : P!Number(b) = Pack!Number(b)
  BY DEF P!Number, Pack!Number
<1>3. \A v, n : P!BigEndian(v, n) = Pack!BigEndian(v, n)
  BY <1>1 DEF P!BigEndian, Pack!BigEndian
<1>4. \A u, n : P!AsTwosComplement(u, n) = Pack!AsTwosComplement(u, n)
  BY <1>1 DEF P!AsTwosComplement, Pack!AsTwosComplement
<1> QED
  BY <1>1, <1>2, <1>3, <1>4

LEMMA SameResults ==
  /\ \A c, v : P!Value(c, v) = Pack!Value(c, v)
  /\ \A c, e : P!Failure(c, e) = Pack!Failure(c, e)
  /\ \A c, t, v : P!Object(c, t, v) = Pack!Object(c, t, v)
  /\ \A c, n, e : P!Take(c, n, e) = Pack!Take(c, n, e)
  /\ \A c : P!read_type_marker(c) = Pack!read_type_marker(c)
<1>1. \A c, v : P!Value(c, v) = Pack!Value(c, v)
  BY DEF P!Value, Pack!Value
<1>2. \A c, e : P!Failure(c, e) = Pack!Failure(c, e)
  BY DEF P!Failure, Pack!Failure
<1>3. \A c, t, v : P!Object(c, t, v) = Pack!Object(c, t, v)
  BY <1>1 DEF P!Object, Pack!Object
<1>4. \A c, n, e : P!Take(c, n, e) = Pack!Take(c, n, e)
  BY <1>1, <1>2 DEF P!Take, Pack!Take
<1>5. \A c : P!read_type_marker(c) = Pack!read_type_marker(c)
  BY <1>4 DEF P!read_type_marker, Pack!read_type_marker
<1> QED
  BY <1>1, <1>2, <1>3, <1>4, <1>5

LEMMA SameHeaders ==
  /\ \A c, m : P!ReadFix(c, m) = Pack!ReadFix(c, m)
  /\ \A c, t : P!ReadBinHeader(c, t) = Pack!ReadBinHeader(c, t)
  /\ \A c, t : P!ReadExtHeader(c, t) = Pack!ReadExtHeader(c, t)
  /\ \A c, t : P!ReadNumber(c, t) = Pack!ReadNumber(c, t)
  /\ \A c, t : P!ReadFixextHeader(c, t) = Pack!ReadFixextHeader(c, t)
  /\ \A c, t : P!ReadSizeHeader(c, t) = Pack!ReadSizeHeader(c, t)
<1>1. \A c, m : P!ReadFix(c, m) = Pack!ReadFix(c, m)
  BY SameLayout, SameResults DEF P!ReadFix, Pack!ReadFix
<1>2. \A c, t : P!ReadBinHeader(c, t) = Pack!ReadBinHeader(c, t)
  BY SameLayout, SameResults, SameNumbers DEF P!ReadBinHeader, Pack!ReadBinHeader, P!TakeObject, Pack!TakeObject
<1>3. \A c, t : P!ReadExtHeader(c, t) = Pack!ReadExtHeader(c, t)
  BY SameLayout, SameResults, SameNumbers DEF P!ReadExtHeader, Pack!ReadExtHeader, P!TakeObject, Pack!TakeObject
<1>4. \A c, t : P!ReadNumber(c, t) = Pack!ReadNumber(c, t)
  BY SameLayout, SameResults, SameNumbers, SameTypes DEF P!ReadNumber, Pack!ReadNumber, P!TakeObject, Pack!TakeObject,
    P!ToSet, Pack!ToSet
<1>5. \A c, t : P!ReadFixextHeader(c, t) = Pack!ReadFixextHeader(c, t)
  BY SameLayout, SameResults, SameNumbers DEF P!ReadFixextHeader, Pack!ReadFixextHeader, P!TakeObject, Pack!TakeObject
<1>6. \A c, t : P!ReadSizeHeader(c, t) = Pack!ReadSizeHeader(c, t)
  BY SameLayout, SameResults, SameNumbers DEF P!ReadSizeHeader, Pack!ReadSizeHeader, P!TakeObject, Pack!TakeObject
<1> QED
  BY <1>1, <1>2, <1>3, <1>4, <1>5, <1>6

LEMMA SameReaders ==
  /\ \A c : P!cmp_read_object(c) = Pack!cmp_read_object(c)
  /\ \A c, k : P!ReadUnsigned(c, k) = Pack!ReadUnsigned(c, k)
  /\ \A c : P!cmp_read_uint(c) = Pack!cmp_read_uint(c)
  /\ \A c : P!cmp_read_array(c) = Pack!cmp_read_array(c)
<1>1. ASSUME NEW c, NEW m PROVE P!ReadAfterMarker(c, m) = Pack!ReadAfterMarker(c, m)
  BY SameHeaders, SameLayout, SameTypes, SameResults DEF P!ReadAfterMarker, Pack!ReadAfterMarker
<1>2. \A c : P!cmp_read_object(c) = Pack!cmp_read_object(c)
  BY <1>1, SameResults DEF P!cmp_read_object, Pack!cmp_read_object
<1>3. \A c, k : P!ReadUnsigned(c, k) = Pack!ReadUnsigned(c, k)
  BY <1>2, SameResults, SameTypes DEF P!ReadUnsigned, Pack!ReadUnsigned, P!Typed, Pack!Typed,
     P!AsUnsigned, Pack!AsUnsigned, P!IsUnsigned, Pack!IsUnsigned
<1>4. \A c : P!cmp_read_uint(c) = Pack!cmp_read_uint(c)
  BY <1>3 DEF P!cmp_read_uint, Pack!cmp_read_uint
<1>5. \A c : P!cmp_read_array(c) = Pack!cmp_read_array(c)
  BY <1>2, SameResults, SameTypes DEF P!cmp_read_array, Pack!cmp_read_array, P!Typed, Pack!Typed,
     P!cmp_object_is_array, Pack!cmp_object_is_array
<1> QED
  BY <1>2, <1>3, <1>4, <1>5

-----------------------------------------------------------------------------
(* The block a message is written into.                                    *)

Byte == 0 .. BYTE - 1
Stored == Byte \cup {Junk}
Block == [buf : Seq(Stored), size : Nat, pos : Nat]

\* What mux_msg_writer finds and leaves: no block yet, or one that is no smaller
\* than the least one, is not left by the place, and is written up to it.
InBlock(c) ==
  /\ c.buf \in Block /\ c = [buf |-> c.buf, error |-> c.error]
  /\ c.buf.buf = << >> => c.buf.pos = 0
  /\ c.buf.buf # << >> => Len(c.buf.buf) = c.buf.size /\ MinAlloc <= c.buf.size
  /\ c.buf.pos <= c.buf.size
  /\ \A i \in 1 .. c.buf.pos : c.buf.buf[i] # Junk

LEMMA LayoutFacts ==
  /\ BYTE \in Nat /\ W16 \in Nat /\ W32 \in Nat /\ W64 \in Nat /\ MinAlloc \in Nat
  /\ 1 < W16 /\ W16 < W32 /\ W32 < W64 /\ W64 <= MinAlloc
  /\ FIXARRAY_SIZE \in Nat /\ FIXMAP_SIZE \in Nat /\ FIXSTR_SIZE \in Nat
  /\ \A k \in Nat : Pack!Values[k] \in Nat \ {0}
  /\ Junk \notin Byte
  /\ Pack!NEGATIVE_FIXNUM_MARKER < BYTE
<1>1. \A k \in Nat : Pack!Values[k] \in Nat \ {0}
  BY SameNumbers, LayoutHolds, P!ValuesType
<1> QED
  BY <1>1, MessageAssumption DEF Pack!LayoutFits, Byte

\* The bytes written so far, and a block that has these bytes as well.
Text(m) == SubSeq(m.buf, 1, m.pos)
Keeps(r, m) == r.pos = m.pos /\ \A i \in 1 .. m.pos : r.buf[i] = m.buf[i]

LEMMA ConcatFacts ==
  ASSUME NEW S, NEW s \in Seq(S), NEW t \in Seq(S)
  PROVE  /\ s \o t \in Seq(S) /\ Len(s \o t) = Len(s) + Len(t)
         /\ \A i \in 1 .. Len(s) : (s \o t)[i] = s[i]
OBVIOUS

LEMMA DoubledFacts ==
  ASSUME NEW s \in Seq(Stored), NEW t \in Seq(Stored), Len(t) = Len(s),
         NEW p \in 0 .. Len(s), \A i \in 1 .. p : s[i] # Junk
  PROVE  /\ s \o t \in Seq(Stored) /\ Len(s \o t) = 2 * Len(s)
         /\ \A i \in 1 .. p : (s \o t)[i] # Junk /\ (s \o t)[i] = s[i]
OBVIOUS

LEMMA FilledFacts ==
  ASSUME NEW S, NEW k \in Nat, NEW x \in S
  PROVE  Filled(k, x) \in Seq(S) /\ Len(Filled(k, x)) = k
BY DEF Filled

\* A block with room for n bytes, written up to its place.
HasRoom(m, n) ==
  /\ Len(m.buf) = m.size /\ MinAlloc <= m.size /\ m.pos + n <= m.size
  /\ \A i \in 1 .. m.pos : m.buf[i] # Junk

LEMMA CopiedFacts ==
  ASSUME NEW m \in Block, NEW data \in Seq(Byte), HasRoom(m, Len(data))
  PROVE  /\ Copied(m, data) \in Block
         /\ Copied(m, data).pos = m.pos + Len(data)
         /\ HasRoom(Copied(m, data), 0)
         /\ Text(Copied(m, data)) = Text(m) \o data
<1> DEFINE n == Len(data)
           b == [i \in 1 .. m.size |-> IF i \in m.pos + 1 .. m.pos + n
                                       THEN data[i - m.pos] ELSE m.buf[i]]
<1>1. /\ m.size \in Nat /\ m.pos \in Nat /\ m.buf \in Seq(Stored) /\ n \in Nat
      /\ Len(m.buf) = m.size /\ MinAlloc <= m.size /\ m.pos + n <= m.size
      /\ \A i \in 1 .. m.pos : m.buf[i] # Junk
  BY DEF Block, HasRoom
<1>2. (IF m.pos + n > Len(m.buf) THEN m.pos + n ELSE Len(m.buf)) = m.size
  BY <1>1
<1>3. Copied(m, data) = [m EXCEPT !.pos = m.pos + n, !.buf = b]
  BY <1>2 DEF Copied
<1>4. /\ \A i \in 1 .. n : data[i] \in Byte /\ data[i] \in Stored /\ data[i] # Junk
      /\ \A i \in 1 .. m.size : m.buf[i] \in Stored
  BY <1>1, LayoutFacts DEF Stored
<1>5. \A i \in 1 .. m.size : b[i] \in Stored
  BY <1>1, <1>4
<1>6. b \in Seq(Stored) /\ Len(b) = m.size
  <2>1. b \in [1 .. m.size -> Stored]
    BY <1>5
  <2> HIDE DEF b
  <2> QED
    BY <1>1, <2>1
<1>7. \A i \in 1 .. m.pos + n : b[i] # Junk
  BY <1>1, <1>4
<1> HIDE DEF b
<1> DEFINE e == [m EXCEPT !.pos = m.pos + n, !.buf = b]
<1>8. e \in Block /\ e.pos = m.pos + n /\ e.buf = b /\ e.size = m.size
  <2>1. PICK k \in Nat : k = m.pos + n
    BY <1>1
  <2>2. e = [m EXCEPT !.pos = k, !.buf = b]
    BY <2>1
  <2> HIDE DEF e, n
  <2> QED
    BY <1>6, <2>1, <2>2 DEF Block
<1> HIDE DEF e
<1>9. HasRoom(e, 0)
  BY <1>1, <1>6, <1>7, <1>8 DEF HasRoom
\* The data follow what was written before.
<1>10. Text(e) = Text(m) \o data
  <2>1. /\ Text(m) \in Seq(Stored) /\ Len(Text(m)) = m.pos
        /\ \A i \in 1 .. m.pos : Text(m)[i] = m.buf[i]
    BY <1>1 DEF Text
  <2>2. /\ Text(e) \in Seq(Stored) /\ Len(Text(e)) = m.pos + n
        /\ \A i \in 1 .. m.pos + n : Text(e)[i] = b[i]
    <3>1. PICK k \in Nat : k = m.pos + n
      BY <1>1
    <3>2. PICK x \in Seq(Stored) : x = b /\ Len(x) = m.size /\ k <= Len(x)
      BY <1>1, <1>6, <3>1
    <3>3. Text(e) = SubSeq(x, 1, k)
      BY <1>8, <3>1, <3>2 DEF Text
    <3>4. /\ SubSeq(x, 1, k) \in Seq(Stored) /\ Len(SubSeq(x, 1, k)) = k
          /\ \A i \in 1 .. k : SubSeq(x, 1, k)[i] = x[i]
      BY <3>2
    <3> QED
      BY <3>1, <3>2, <3>3, <3>4
  <2>3. /\ data \in Seq(Stored)
        /\ \A i \in 1 .. m.pos + n : b[i] = IF i \in m.pos + 1 .. m.pos + n
                                            THEN data[i - m.pos] ELSE m.buf[i]
    BY <1>1, <1>4 DEF b
  <2> HIDE DEF b, e
  <2>4. PICK s \in Seq(Stored) : s = Text(m)
    BY <2>1
  <2>5. PICK x \in Seq(Stored) : x = Text(e)
    BY <2>2
  <2>6. PICK k \in Nat : k = m.pos
    BY <1>1
  <2>7. /\ Len(s) = k /\ Len(x) = k + n /\ n = Len(data) /\ n \in Nat
        /\ \A i \in 1 .. k + n : x[i] = IF i \in k + 1 .. k + n THEN data[i - k] ELSE s[i]
    BY <1>1, <2>1, <2>2, <2>3, <2>4, <2>5, <2>6
  <2> HIDE DEF n
  <2>8. x = s \o data
    <3>1. s \o data \in Seq(Stored) /\ Len(s \o data) = k + n
      BY <2>3, <2>7
    <3>2. \A i \in 1 .. k + n : (s \o data)[i] = IF i <= k THEN s[i] ELSE data[i - k]
      BY <2>3, <2>7
    <3>3. \A i \in 1 .. k + n : x[i] = (s \o data)[i]
      BY <2>7, <3>2
    <3> QED
      BY <2>7, <3>1, <3>3
  <2> QED
    BY <2>4, <2>5, <2>8
<1> QED
  BY <1>3, <1>8, <1>9, <1>10 DEF e

(***************************************************************************)
(* Any write no longer than the least block stays inside the block,        *)
(* although mux_msg_writer doubles it once at most (msgpack.c:38-78).      *)
(***************************************************************************)
LEMMA WriterStaysInBlock ==
  ASSUME NEW c, InBlock(c), NEW data \in Seq(Byte), Len(data) \in 1 .. MinAlloc
  PROVE  /\ mux_msg_writer(c, data).n = Len(data)
         /\ InBlock(mux_msg_writer(c, data).ctx)
         /\ Text(mux_msg_writer(c, data).ctx.buf) = Text(c.buf) \o data
<1> DEFINE m == c.buf
           n == Len(data)
           allocated == Filled(n, 0) \o Filled(Usable(n) - n, Junk)
           doubled == m.buf \o Filled(m.size, Junk)
           room == IF m.buf = NullBuf THEN [m EXCEPT !.buf = allocated, !.size = Usable(n)]
                   ELSE IF m.pos + n > m.size
                   THEN [m EXCEPT !.buf = doubled, !.size = 2 * m.size] ELSE m
           to == Copied(room, data)
<1>1. /\ m \in Block /\ n \in 1 .. MinAlloc /\ n \in Nat /\ MinAlloc \in Nat
      /\ 0 \in Stored /\ Junk \in Stored
  BY LayoutFacts DEF InBlock, Byte, Stored
<1>2. mux_msg_writer(c, data) = [n |-> n, ctx |-> [c EXCEPT !.buf = to]]
  BY DEF mux_msg_writer
\* There is room for the data, and what is written stays.
<1>3. room \in Block /\ HasRoom(room, n) /\ Keeps(room, m)
  <2>1. CASE m.buf = << >>
    <3>1. /\ Usable(n) \in Nat /\ n <= Usable(n) /\ MinAlloc <= Usable(n)
          /\ Usable(n) - n \in Nat /\ m.pos = 0
      BY <1>1, <2>1 DEF Usable, InBlock
    <3>2. allocated \in Seq(Stored) /\ Len(allocated) = Usable(n)
      <4>1. /\ Filled(n, 0) \in Seq(Stored) /\ Len(Filled(n, 0)) = n
            /\ Filled(Usable(n) - n, Junk) \in Seq(Stored)
            /\ Len(Filled(Usable(n) - n, Junk)) = Usable(n) - n
        BY <1>1, <3>1, FilledFacts
      <4> QED
        BY <1>1, <3>1, <4>1, ConcatFacts
    <3>3. room = [m EXCEPT !.buf = allocated, !.size = Usable(n)]
      BY <2>1 DEF NullBuf
    <3> HIDE DEF allocated, room, m, n
    <3>4. /\ room \in Block /\ room.buf = allocated /\ room.size = Usable(n) /\ room.pos = 0
      <4>1. PICK k \in Nat : k = Usable(n)
        BY <3>1
      <4>2. room = [m EXCEPT !.buf = allocated, !.size = k]
        BY <3>3, <4>1
      <4> QED
        BY <1>1, <3>1, <3>2, <4>1, <4>2 DEF Block
    <3> QED
      BY <1>1, <3>1, <3>2, <3>4 DEF HasRoom, Keeps
  <2>2. CASE m.buf # << >> /\ m.pos + n > m.size
    <3>1. /\ Len(m.buf) = m.size /\ MinAlloc <= m.size /\ m.pos <= m.size
          /\ \A i \in 1 .. m.pos : m.buf[i] # Junk
          /\ m.buf \in Seq(Stored) /\ m.size \in Nat /\ m.pos \in Nat /\ 2 * m.size \in Nat
      BY <1>1, <2>2 DEF InBlock, Block
    <3>2. /\ doubled \in Seq(Stored) /\ Len(doubled) = 2 * m.size
          /\ \A i \in 1 .. m.pos : doubled[i] # Junk /\ doubled[i] = m.buf[i]
      <4>1. Filled(m.size, Junk) \in Seq(Stored) /\ Len(Filled(m.size, Junk)) = m.size
        BY <1>1, <3>1, FilledFacts
      <4>2. PICK s \in Seq(Stored) : s = m.buf
        BY <3>1
      <4>3. PICK t \in Seq(Stored) : t = Filled(m.size, Junk)
        BY <4>1
      <4>4. PICK p \in 0 .. m.size : p = m.pos
        BY <3>1
      <4>5. Len(t) = Len(s) /\ p \in 0 .. Len(s) /\ \A i \in 1 .. p : s[i] # Junk
        BY <3>1, <4>1, <4>2, <4>3, <4>4
      <4>6. /\ s \o t \in Seq(Stored) /\ Len(s \o t) = 2 * Len(s)
            /\ \A i \in 1 .. p : (s \o t)[i] # Junk /\ (s \o t)[i] = s[i]
        BY <4>5, DoubledFacts
      <4> QED
        BY <3>1, <4>2, <4>3, <4>4, <4>6
    <3>3. room = [m EXCEPT !.buf = doubled, !.size = 2 * m.size]
      BY <2>2 DEF NullBuf
    <3> HIDE DEF doubled, room, m, n
    <3>4. /\ room \in Block /\ room.buf = doubled /\ room.size = 2 * m.size
          /\ room.pos = m.pos
      <4>1. PICK k \in Nat : k = 2 * m.size
        BY <3>1
      <4>2. room = [m EXCEPT !.buf = doubled, !.size = k]
        BY <3>3, <4>1
      <4> QED
        BY <1>1, <3>2, <4>1, <4>2 DEF Block
    <3>5. MinAlloc <= room.size /\ room.pos + n <= room.size
      BY <1>1, <3>1, <3>4
    <3>6. \A i \in 1 .. room.pos : room.buf[i] # Junk /\ room.buf[i] = m.buf[i]
      BY <3>2, <3>4
    <3> QED
      BY <3>2, <3>4, <3>5, <3>6 DEF HasRoom, Keeps
  <2>3. CASE m.buf # << >> /\ ~(m.pos + n > m.size)
    <3>1. room = m
      BY <2>3 DEF NullBuf
    <3>2. /\ Len(m.buf) = m.size /\ MinAlloc <= m.size
          /\ \A i \in 1 .. m.pos : m.buf[i] # Junk
          /\ m.size \in Nat /\ m.pos \in Nat
      BY <1>1, <2>3 DEF InBlock, Block
    <3> HIDE DEF room, m, n
    <3> QED
      BY <1>1, <2>3, <3>1, <3>2 DEF HasRoom, Keeps
  <2> QED
    BY <2>1, <2>2, <2>3
<1> HIDE DEF room
<1>4. to \in Block /\ HasRoom(to, 0) /\ Text(to) = Text(m) \o data
  <2>1. Text(room) = Text(m)
    <3>1. /\ room.buf \in Seq(Stored) /\ m.buf \in Seq(Stored) /\ m.pos \in Nat
          /\ m.pos <= Len(room.buf) /\ m.pos <= Len(m.buf)
          /\ room.pos = m.pos /\ \A i \in 1 .. m.pos : room.buf[i] = m.buf[i]
      BY <1>1, <1>3 DEF Block, InBlock, HasRoom, Keeps
    <3> HIDE DEF m
    <3>2. /\ Text(room) \in Seq(Stored) /\ Len(Text(room)) = m.pos
          /\ \A i \in 1 .. m.pos : Text(room)[i] = room.buf[i]
      BY <3>1 DEF Text
    <3>3. /\ Text(m) \in Seq(Stored) /\ Len(Text(m)) = m.pos
          /\ \A i \in 1 .. m.pos : Text(m)[i] = m.buf[i]
      BY <3>1 DEF Text
    <3>4. PICK x \in Seq(Stored) : x = Text(room)
      BY <3>2
    <3>5. PICK y \in Seq(Stored) : y = Text(m)
      BY <3>3
    <3>6. Len(x) = Len(y) /\ \A i \in 1 .. Len(x) : x[i] = y[i]
      BY <3>1, <3>2, <3>3, <3>4, <3>5
    <3>7. x = y
      BY <3>6
    <3> QED
      BY <3>4, <3>5, <3>7
  <2> HIDE DEF m
  <2> QED
    BY <1>3, <2>1, CopiedFacts
<1> HIDE DEF to, m, n
<1>5. /\ [c EXCEPT !.buf = to] = [buf |-> to, error |-> c.error]
      /\ [c EXCEPT !.buf = to].buf = to /\ [c EXCEPT !.buf = to].error = c.error
  BY DEF InBlock
<1>6. /\ Len(to.buf) = to.size /\ MinAlloc <= to.size /\ to.pos <= to.size
      /\ to.size \in Nat /\ to.pos \in Nat /\ to.buf # << >>
      /\ \A i \in 1 .. to.pos : to.buf[i] # Junk
  BY <1>1, <1>4 DEF HasRoom, Block
<1> HIDE DEF to
<1>7. InBlock([c EXCEPT !.buf = to])
  <2> DEFINE d == [c EXCEPT !.buf = to]
  <2>1. d.buf = to /\ d = [buf |-> d.buf, error |-> d.error] /\ to \in Block
    BY <1>4, <1>5
  <2> HIDE DEF d
  <2>2. InBlock(d)
    BY <1>6, <2>1 DEF InBlock
  <2> QED
    BY <2>2 DEF d
<1>8. mux_msg_writer(c, data).ctx.buf = to
  BY <1>2, <1>5
<1>9. InBlock(mux_msg_writer(c, data).ctx) /\ mux_msg_writer(c, data).n = n
  <2> DEFINE d == [c EXCEPT !.buf = to]
  <2>1. mux_msg_writer(c, data) = [n |-> n, ctx |-> d] /\ InBlock(d)
    BY <1>2, <1>7
  <2> HIDE DEF d
  <2> QED
    BY <2>1
<1>10. /\ mux_msg_writer(c, data).n = n /\ InBlock(mux_msg_writer(c, data).ctx)
       /\ Text(mux_msg_writer(c, data).ctx.buf) = Text(m) \o data
  BY <1>4, <1>8, <1>9
<1> QED
  BY <1>10 DEF n, m

-----------------------------------------------------------------------------
(* What the library writes: every single write is short.                   *)

LEMMA PutStaysInBlock ==
  ASSUME NEW c, InBlock(c), NEW data \in Seq(Byte), Len(data) \in 1 .. MinAlloc,
         NEW e
  PROVE  /\ Pack!Put(c, data, e).ok = TRUE /\ InBlock(Pack!Put(c, data, e).ctx)
         /\ Text(Pack!Put(c, data, e).ctx.buf) = Text(c.buf) \o data
<1>1. /\ mux_msg_writer(c, data).n # 0 /\ InBlock(mux_msg_writer(c, data).ctx)
      /\ Text(mux_msg_writer(c, data).ctx.buf) = Text(c.buf) \o data
  BY WriterStaysInBlock
<1> QED
  BY <1>1 DEF Pack!Put, Pack!Success

LEMMA MarkersAreBytes ==
  /\ \A t \in {"UINT8", "UINT16", "UINT32", "UINT64", "ARRAY16", "ARRAY32"} :
       Pack!Marker[t] \in Byte
  /\ \A v \in Nat : v < Pack!FIXMAP_MARKER => v \in Byte
  /\ \A n \in 0 .. FIXARRAY_SIZE : Pack!FIXARRAY_MARKER + n \in Byte
<1> DEFINE order == Pack!MarkerOrder
<1>1. DOMAIN order = 1 .. Len(order) /\ Len(order) \in Nat
  BY DEF Pack!MarkerOrder
<1>2. /\ order[13] = "UINT8" /\ order[14] = "UINT16" /\ order[15] = "UINT32"
      /\ order[16] = "UINT64" /\ order[29] = "ARRAY16" /\ order[30] = "ARRAY32"
      /\ {13, 14, 15, 16, 29, 30} \subseteq DOMAIN order
  BY DEF Pack!MarkerOrder
<1> HIDE DEF order
<1>3. /\ Pack!FIXMAP_MARKER \in Nat /\ Pack!FIXARRAY_MARKER \in Nat /\ Pack!NIL_MARKER \in Nat
      /\ Pack!FIXMAP_MARKER <= Pack!FIXARRAY_MARKER
      /\ Pack!FIXARRAY_MARKER + FIXARRAY_SIZE < Pack!NIL_MARKER
      /\ Pack!NIL_MARKER + Len(order) < BYTE
  BY <1>1, LayoutFacts DEF Pack!FIXMAP_MARKER, Pack!FIXARRAY_MARKER, Pack!FIXSTR_MARKER,
     Pack!NIL_MARKER, Pack!NEGATIVE_FIXNUM_MARKER, order
<1>4. ASSUME NEW t \in {"UINT8", "UINT16", "UINT32", "UINT64", "ARRAY16", "ARRAY32"}
      PROVE  Pack!Marker[t] \in Byte
  <2>1. t \in Pack!ToSet(order) /\ \E i \in DOMAIN order : order[i] = t
    BY <1>2 DEF Pack!ToSet
  <2> DEFINE k == CHOOSE i \in DOMAIN order : order[i] = t
  <2>2. k \in DOMAIN order
    BY <2>1
  <2>3. Pack!Marker[t] = Pack!NIL_MARKER + k - 1
    BY <2>1 DEF Pack!Marker, order
  <2> HIDE DEF k
  <2> QED
    BY <1>1, <1>3, <2>2, <2>3, LayoutFacts DEF Byte
<1>5. \A v \in Nat : v < Pack!FIXMAP_MARKER => v \in Byte
  BY <1>1, <1>3, LayoutFacts DEF Byte
<1>6. \A n \in 0 .. FIXARRAY_SIZE : Pack!FIXARRAY_MARKER + n \in Byte
  BY <1>1, <1>3, LayoutFacts DEF Byte
<1> QED
  BY <1>4, <1>5, <1>6

LEMMA MarkerStaysInBlock ==
  ASSUME NEW c, InBlock(c),
         NEW t \in {"UINT8", "UINT16", "UINT32", "UINT64", "ARRAY16", "ARRAY32"}
  PROVE  /\ Pack!write_type_marker(c, t).ok = TRUE
         /\ InBlock(Pack!write_type_marker(c, t).ctx)
         /\ Text(Pack!write_type_marker(c, t).ctx.buf) = Text(c.buf) \o << Pack!Marker[t] >>
<1> DEFINE data == << Pack!Marker[t] >>
           e == "TYPE_MARKER_WRITING_ERROR"
<1>1. data \in Seq(Byte) /\ Len(data) \in 1 .. MinAlloc
  BY MarkersAreBytes, LayoutFacts
<1>2. Pack!write_type_marker(c, t) = Pack!Put(c, data, e)
  BY DEF Pack!write_type_marker
<1> HIDE DEF data, e
<1>3. /\ Pack!write_type_marker(c, t).ok = TRUE
      /\ InBlock(Pack!write_type_marker(c, t).ctx)
      /\ Text(Pack!write_type_marker(c, t).ctx.buf) = Text(c.buf) \o data
  BY <1>1, <1>2, PutStaysInBlock
<1> QED
  BY <1>3 DEF data

LEMMA FixedStaysInBlock ==
  ASSUME NEW c, InBlock(c), NEW b \in Byte
  PROVE  /\ InBlock(Pack!write_fixed_value(c, b).ctx)
         /\ Text(Pack!write_fixed_value(c, b).ctx.buf) = Text(c.buf) \o << b >>
<1> DEFINE data == << b >>
           e == "FIXED_VALUE_WRITING_ERROR"
<1>1. data \in Seq(Byte) /\ Len(data) \in 1 .. MinAlloc
  BY LayoutFacts
<1>2. Pack!write_fixed_value(c, b) = Pack!Put(c, data, e)
  BY DEF Pack!write_fixed_value
<1> HIDE DEF data, e
<1>3. /\ InBlock(Pack!write_fixed_value(c, b).ctx)
      /\ Text(Pack!write_fixed_value(c, b).ctx.buf) = Text(c.buf) \o data
  BY <1>1, <1>2, PutStaysInBlock
<1> QED
  BY <1>3 DEF data

LEMMA WidthFacts ==
  \A t \in {"UINT8", "UINT16", "UINT32", "UINT64", "ARRAY16", "ARRAY32"} :
    Pack!Width[t] \in 1 .. W64
BY LayoutFacts DEF Pack!Width

LEMMA BigEndianBytes ==
  ASSUME NEW v \in Int, NEW n \in 1 .. W64
  PROVE  Pack!BigEndian(v, n) \in Seq(Byte) /\ Len(Pack!BigEndian(v, n)) = n
<1>1. n \in Nat
  BY LayoutFacts
<1>2. P!BigEndian(v, n) \in Seq(P!Byte) /\ Len(P!BigEndian(v, n)) = n
  BY <1>1, LayoutHolds, P!BigEndianType
<1> QED
  BY <1>2, SameNumbers DEF P!Byte, Byte

\* A marker and what follows it.
LEMMA TextOfTwo ==
  ASSUME NEW c, InBlock(c), NEW b \in Byte, NEW image \in Seq(Byte)
  PROVE  Text(c.buf) \o << b >> \o image = Text(c.buf) \o (<< b >> \o image)
<1>1. c.buf.buf \in Seq(Stored) /\ c.buf.pos \in Nat /\ c.buf.pos <= Len(c.buf.buf)
  BY DEF InBlock, Block
<1>2. PICK s \in Seq(Stored) : s = Text(c.buf)
  <2>1. PICK x \in Seq(Stored) : x = c.buf.buf
    BY <1>1
  <2>2. PICK k \in 0 .. Len(x) : k = c.buf.pos
    BY <1>1, <2>1
  <2>3. SubSeq(x, 1, k) \in Seq(Stored)
    OBVIOUS
  <2> QED
    BY <2>1, <2>2, <2>3 DEF Text
<1>3. << b >> \in Seq(Stored) /\ image \in Seq(Stored)
  BY DEF Stored
<1>4. s \o << b >> \o image = s \o (<< b >> \o image)
  BY <1>3
<1> QED
  BY <1>2, <1>4

LEMMA UnsignedStaysInBlock ==
  ASSUME NEW c, InBlock(c), NEW v \in Int,
         NEW t \in {"UINT8", "UINT16", "UINT32", "UINT64"}
  PROVE  /\ InBlock(Pack!WriteUnsigned(c, t, v).ctx)
         /\ Text(Pack!WriteUnsigned(c, t, v).ctx.buf) =
              Text(c.buf) \o (<< Pack!Marker[t] >> \o Pack!BigEndian(v, Pack!Width[t]))
<1> DEFINE w == Pack!Width[t]
           mark == Pack!write_type_marker(c, t)
<1>1. w \in 1 .. W64
  BY WidthFacts
<1>2. /\ mark.ok = TRUE /\ InBlock(mark.ctx)
      /\ Text(mark.ctx.buf) = Text(c.buf) \o << Pack!Marker[t] >>
  BY MarkerStaysInBlock
<1> DEFINE d == mark.ctx
           image == Pack!BigEndian(v, w)
<1>3. image \in Seq(Byte) /\ Len(image) \in 1 .. MinAlloc
  BY <1>1, BigEndianBytes, LayoutFacts
<1>4. /\ InBlock(Pack!Put(d, image, d.error).ctx)
      /\ Text(Pack!Put(d, image, d.error).ctx.buf) = Text(d.buf) \o image
  BY <1>2, <1>3, PutStaysInBlock
<1>5. Pack!WriteUnsigned(c, t, v) = Pack!Put(d, image, d.error)
  BY <1>2 DEF Pack!WriteUnsigned, Pack!WriteNumber, Pack!Then, Pack!PutNumber
<1>6. Text(c.buf) \o << Pack!Marker[t] >> \o image = Text(c.buf) \o (<< Pack!Marker[t] >> \o image)
  BY <1>3, MarkersAreBytes, TextOfTwo
<1> HIDE DEF mark, image
<1>7. /\ InBlock(Pack!WriteUnsigned(c, t, v).ctx)
      /\ Text(Pack!WriteUnsigned(c, t, v).ctx.buf) =
           Text(c.buf) \o (<< Pack!Marker[t] >> \o image)
  BY <1>2, <1>4, <1>5, <1>6
<1> QED
  BY <1>7 DEF image

LEMMA LengthStaysInBlock ==
  ASSUME NEW c, InBlock(c), NEW n \in Nat, NEW t \in {"ARRAY16", "ARRAY32"}
  PROVE  /\ InBlock(Pack!WriteLength(c, t, n).ctx)
         /\ Text(Pack!WriteLength(c, t, n).ctx.buf) =
              Text(c.buf) \o (<< Pack!Marker[t] >> \o Pack!BigEndian(n, Pack!Width[t]))
<1> DEFINE w == Pack!Width[t]
           mark == Pack!write_type_marker(c, t)
           d == mark.ctx
           image == Pack!BigEndian(n, w)
           e == "LENGTH_WRITING_ERROR"
<1>1. w \in 1 .. W64
  BY WidthFacts
<1>2. /\ mark.ok = TRUE /\ InBlock(d)
      /\ Text(d.buf) = Text(c.buf) \o << Pack!Marker[t] >>
  BY MarkerStaysInBlock
<1>3. image \in Seq(Byte) /\ Len(image) \in 1 .. MinAlloc
  BY <1>1, BigEndianBytes, LayoutFacts
<1>4. InBlock(Pack!Put(d, image, e).ctx) /\ Text(Pack!Put(d, image, e).ctx.buf) = Text(d.buf) \o image
  BY <1>2, <1>3, PutStaysInBlock
<1>5. Pack!WriteLength(c, t, n) = Pack!Put(d, image, e)
  BY <1>2 DEF Pack!WriteLength, Pack!Then
<1>6. Text(c.buf) \o << Pack!Marker[t] >> \o image = Text(c.buf) \o (<< Pack!Marker[t] >> \o image)
  BY <1>3, MarkersAreBytes, TextOfTwo
<1> HIDE DEF mark, image, e
<1>7. /\ InBlock(Pack!WriteLength(c, t, n).ctx)
      /\ Text(Pack!WriteLength(c, t, n).ctx.buf) =
           Text(c.buf) \o (<< Pack!Marker[t] >> \o image)
  BY <1>2, <1>4, <1>5, <1>6
<1> QED
  BY <1>7 DEF image

\* The bytes of a number and of the beginning of an array.
Enc(v) == P!Header(P!UintType(v), v)
Opening(n) == P!Header(P!ArrayType(n), n)

LEMMA EncIs ==
  ASSUME NEW v \in P!Unsigned(W64)
  PROVE  /\ v < Pack!FIXMAP_MARKER => Enc(v) = << v >>
         /\ ~(v < Pack!FIXMAP_MARKER) =>
              LET t == P!UintType(v)
              IN Enc(v) = << Pack!Marker[t] >> \o Pack!BigEndian(v, Pack!Width[t])
<1> DEFINE t == P!UintType(v)
<1>1. t \in {"POSITIVE_FIXNUM"} \cup P!ToSet(P!UNSIGNED) /\ P!Legal(t, v)
  BY LayoutHolds, P!UintTypeIs
<1>2. CASE v < Pack!FIXMAP_MARKER
  <2>1. t = "POSITIVE_FIXNUM" /\ t \in P!Fixed
    BY <1>2, SameLayout DEF P!UintType, P!Fixed
  <2>2. P!First(t, v) = v
    BY <2>1 DEF P!First
  <2> HIDE DEF t
  <2>3. P!Header(t, v) = << v >>
    BY <1>1, <2>1, <2>2, LayoutHolds, P!HeaderIs
  <2> QED
    BY <1>2, <2>3 DEF Enc, t
<1>3. CASE ~(v < Pack!FIXMAP_MARKER)
  <2>1. t # "POSITIVE_FIXNUM"
    BY <1>3, SameLayout DEF P!UintType
  <2> HIDE DEF t
  <2>2. t \in P!Counted /\ t \notin P!Real \cup P!FIXEXT \cup P!EXT
    BY <1>1, <2>1, P!Sorts, LayoutHolds DEF P!Counted
  <2>3. t \in P!Marked
    BY <2>2 DEF P!Marked
  <2>4. P!First(t, v) = P!Marker[t]
    BY <2>3, LayoutHolds, P!FirstIs
  <2>5. P!Chunk(t, v) = P!BigEndian(v, P!Width[t])
    BY <2>2 DEF P!Chunk, P!Size
  <2>6. P!Header(t, v) = << P!First(t, v) >> \o P!Chunk(t, v)
    BY <1>1, <2>2, <2>3, LayoutHolds, P!HeaderIs
  <2> QED
    BY <1>3, <2>4, <2>5, <2>6, SameLayout, SameNumbers DEF Enc, t
<1> QED
  BY <1>2, <1>3

LEMMA OpeningIs ==
  ASSUME NEW n \in P!Unsigned(W32)
  PROVE  /\ n <= FIXARRAY_SIZE => Opening(n) = << Pack!FIXARRAY_MARKER + n >>
         /\ ~(n <= FIXARRAY_SIZE) =>
              LET t == P!ArrayType(n)
              IN Opening(n) = << Pack!Marker[t] >> \o Pack!BigEndian(n, Pack!Width[t])
<1> DEFINE t == P!ArrayType(n)
<1>1. t \in {"FIXARRAY"} \cup P!ARRAY /\ P!Legal(t, n)
  BY LayoutHolds, P!ArrayTypeIs
<1>2. CASE n <= FIXARRAY_SIZE
  <2>1. t = "FIXARRAY" /\ t \in P!Fixed
    BY <1>2 DEF P!ArrayType, P!Fixed
  <2>2. P!First(t, n) = Pack!FIXARRAY_MARKER + n
    BY <2>1, SameLayout DEF P!First
  <2> HIDE DEF t
  <2>3. P!Header(t, n) = << Pack!FIXARRAY_MARKER + n >>
    BY <1>1, <2>1, <2>2, LayoutHolds, P!HeaderIs
  <2> QED
    BY <1>2, <2>3 DEF Opening, t
<1>3. CASE ~(n <= FIXARRAY_SIZE)
  <2>1. t # "FIXARRAY"
    BY <1>3 DEF P!ArrayType
  <2> HIDE DEF t
  <2>2. t \in P!Counted /\ t \notin P!Real \cup P!FIXEXT \cup P!EXT
    BY <1>1, <2>1, P!Sorts, LayoutHolds DEF P!Counted
  <2>3. t \in P!Marked
    BY <2>2 DEF P!Marked
  <2>4. P!First(t, n) = P!Marker[t]
    BY <2>3, LayoutHolds, P!FirstIs
  <2>5. P!Chunk(t, n) = P!BigEndian(n, P!Width[t])
    BY <2>2 DEF P!Chunk, P!Size
  <2>6. P!Header(t, n) = << P!First(t, n) >> \o P!Chunk(t, n)
    BY <1>1, <2>2, <2>3, LayoutHolds, P!HeaderIs
  <2> QED
    BY <1>3, <2>4, <2>5, <2>6, SameLayout, SameNumbers DEF Opening, t
<1> QED
  BY <1>2, <1>3

(***************************************************************************)
(* A number and the beginning of an array are appended to what the block   *)
(* holds.                                                                  *)
(***************************************************************************)
LEMMA UintStaysInBlock ==
  ASSUME NEW c, InBlock(c), NEW f \in Int
  PROVE  /\ InBlock(PutUint(c, f)) /\ Uint64(f) \in P!Unsigned(W64)
         /\ Text(PutUint(c, f).buf) = Text(c.buf) \o Enc(Uint64(f))
<1>1. Pack!Values[W64] \in Nat \ {0}
  BY LayoutFacts
<1>2. Uint64(f) \in P!Unsigned(W64) /\ Uint64(f) \in Nat
  BY <1>1, SameNumbers DEF Uint64, P!Unsigned
<1> DEFINE v == Uint64(f)
<1> HIDE DEF v
<1>3. v \in Nat /\ v \in P!Unsigned(W64) /\ PutUint(c, f) = Pack!cmp_write_uinteger(c, v).ctx
  BY <1>2 DEF v, PutUint
<1>4. CASE v < Pack!FIXMAP_MARKER
  <2>1. /\ InBlock(Pack!write_fixed_value(c, v).ctx)
        /\ Text(Pack!write_fixed_value(c, v).ctx.buf) = Text(c.buf) \o << v >>
    BY <1>3, <1>4, MarkersAreBytes, FixedStaysInBlock
  <2>2. PutUint(c, f) = Pack!write_fixed_value(c, v).ctx
    BY <1>3, <1>4 DEF Pack!cmp_write_uinteger, Pack!cmp_write_pfix
  <2> QED
    BY <1>2, <1>3, <1>4, <2>1, <2>2, EncIs DEF v
<1>5. CASE ~(v < Pack!FIXMAP_MARKER)
  <2> DEFINE t == P!UintType(v)
  <2>1. /\ t \in {"UINT8", "UINT16", "UINT32", "UINT64"}
        /\ Pack!cmp_write_uinteger(c, v) = Pack!WriteUnsigned(c, t, v)
    BY <1>5, SameLayout, SameNumbers DEF Pack!cmp_write_uinteger, P!UintType
  <2> HIDE DEF t
  <2>2. /\ InBlock(Pack!WriteUnsigned(c, t, v).ctx)
        /\ Text(Pack!WriteUnsigned(c, t, v).ctx.buf) =
             Text(c.buf) \o (<< Pack!Marker[t] >> \o Pack!BigEndian(v, Pack!Width[t]))
    <3>1. v \in Int
      BY <1>3
    <3> QED
      BY <2>1, <3>1, UnsignedStaysInBlock
  <2>3. Enc(v) = << Pack!Marker[t] >> \o Pack!BigEndian(v, Pack!Width[t])
    BY <1>3, <1>5, EncIs DEF t
  <2> QED
    BY <1>2, <1>3, <2>1, <2>2, <2>3 DEF v
<1> QED
  BY <1>4, <1>5

LEMMA ArrayStaysInBlock ==
  ASSUME NEW c, InBlock(c), NEW n \in P!Unsigned(W32)
  PROVE  InBlock(PutArray(c, n)) /\ Text(PutArray(c, n).buf) = Text(c.buf) \o Opening(n)
<1>1. n \in Nat
  BY DEF P!Unsigned
<1>2. CASE n <= FIXARRAY_SIZE
  <2> DEFINE b == Pack!FIXARRAY_MARKER + n
  <2>1. b \in Byte
    BY <1>1, <1>2, MarkersAreBytes, LayoutFacts
  <2>2. PutArray(c, n) = Pack!write_fixed_value(c, b).ctx
    BY <1>2 DEF PutArray, Pack!cmp_write_array, Pack!cmp_write_fixarray, Pack!WriteFixLength
  <2>3. Opening(n) = << b >>
    BY <1>2, OpeningIs
  <2> HIDE DEF b
  <2> QED
    BY <2>1, <2>2, <2>3, FixedStaysInBlock
<1>3. CASE ~(n <= FIXARRAY_SIZE)
  <2> DEFINE t == P!ArrayType(n)
  <2>1. t \in {"ARRAY16", "ARRAY32"} /\ PutArray(c, n) = Pack!WriteLength(c, t, n).ctx
    BY <1>3, SameNumbers DEF PutArray, Pack!cmp_write_array, P!ArrayType
  <2>2. Opening(n) = << Pack!Marker[t] >> \o Pack!BigEndian(n, Pack!Width[t])
    BY <1>3, OpeningIs
  <2> HIDE DEF t
  <2> QED
    BY <1>1, <2>1, <2>2, LengthStaysInBlock
<1> QED
  BY <1>2, <1>3

LEMMA MessageStaysInBlock ==
  ASSUME NEW u, HasNumbers(u)
  PROVE  \E c : mux_write_outgoing_msg(u).msg = c.buf /\ InBlock(c)
<1> DEFINE c == Pack!cmp_init(mux_nnstr_init(NullBuf, 0))
<1>1. InBlock(c)
  <2>1. /\ c.buf = [buf |-> << >>, size |-> 0, pos |-> 0]
        /\ c = [buf |-> c.buf, error |-> "ERROR_NONE"]
    BY DEF Pack!cmp_init, mux_nnstr_init, NullBuf
  <2> HIDE DEF c
  <2>2. c.buf \in Block
    BY <2>1 DEF Block
  <2>3. c = [buf |-> c.buf, error |-> c.error]
    BY <2>1
  <2> QED
    BY <2>1, <2>2, <2>3 DEF InBlock
<1> HIDE DEF c
<1>2. \A n \in 1 .. 5 : InBlock(PutArray(c, n))
  <2>1. \A n \in 1 .. 5 : n \in P!Unsigned(W32)
    BY LayoutHolds, P!ValuesOfFields, P!LayoutFacts DEF P!Unsigned
  <2> QED
    BY <1>1, <2>1, ArrayStaysInBlock
<1>3. CASE u = << >>
  <2>1. InBlock(mux_write_outgoing_shutdown_msg(c))
    BY <1>2, UintStaysInBlock DEF mux_write_outgoing_shutdown_msg, SHUTDOWN
  <2> QED
    BY <1>3, <2>1 DEF mux_write_outgoing_msg, c
<1>4. CASE u # << >> /\ u[1].type = DISPLAY_UPDATE
  <2>1. u[1].x1 \in Int /\ u[1].y1 \in Int /\ u[1].x2 \in Int /\ u[1].y2 \in Int
    BY <1>4 DEF HasNumbers
  <2>2. u[1].x2 - u[1].x1 \in Int /\ u[1].y2 - u[1].y1 \in Int /\ DISPLAY_UPDATE \in Int
    BY <2>1 DEF DISPLAY_UPDATE
  <2>3. InBlock(PutUint(PutUint(PutUint(PutArray(c, 5), DISPLAY_UPDATE), u[1].x1), u[1].y1))
    <3>1. InBlock(PutUint(PutArray(c, 5), DISPLAY_UPDATE))
      BY <1>2, <2>2, UintStaysInBlock
    <3>2. InBlock(PutUint(PutUint(PutArray(c, 5), DISPLAY_UPDATE), u[1].x1))
      BY <2>1, <3>1, UintStaysInBlock
    <3> QED
      BY <2>1, <3>2, UintStaysInBlock
  <2>4. InBlock(mux_write_outgoing_update_msg(c, u[1]))
    BY <2>2, <2>3, UintStaysInBlock DEF mux_write_outgoing_update_msg
  <2> QED
    BY <1>4, <2>4 DEF mux_write_outgoing_msg, c
<1>5. CASE u # << >> /\ u[1].type # DISPLAY_UPDATE
  <2>1. u[1].format \in Int /\ u[1].w \in Int /\ u[1].h \in Int /\ DISPLAY_SWITCH \in Int
    BY <1>5 DEF HasNumbers, DISPLAY_SWITCH
  <2>2. InBlock(PutUint(PutUint(PutArray(c, 4), DISPLAY_SWITCH), u[1].format))
    <3>1. InBlock(PutUint(PutArray(c, 4), DISPLAY_SWITCH))
      BY <1>2, <2>1, UintStaysInBlock
    <3> QED
      BY <2>1, <3>1, UintStaysInBlock
  <2>3. InBlock(mux_write_outgoing_switch_msg(c, u[1]))
    BY <2>1, <2>2, UintStaysInBlock DEF mux_write_outgoing_switch_msg
  <2> QED
    BY <1>5, <2>3 DEF mux_write_outgoing_msg, c
<1> QED
  BY <1>3, <1>4, <1>5

-----------------------------------------------------------------------------
(* The run's specification: messages, the box, and both together.          *)

LEMMA ChainIsRect == ChainSpec => RectSpec
<1>1. ChainInit => RectInit
  BY DEF ChainInit
<1>2. [ChainNext]_chainVars => [RectNext]_rectVars
  BY DEF ChainNext, chainVars, rectVars
<1> QED
  BY <1>1, <1>2, PTL DEF ChainSpec, RectSpec

LEMMA SendKeepsBlock ==
  ASSUME NEW u, HasNumbers(u), SendUpdate(u)
  PROVE  BlockIsLargeEnough'
<1>1. PICK c : mux_write_outgoing_msg(u).msg = c.buf /\ InBlock(c)
  BY MessageStaysInBlock
<1>2. msg' = c.buf
  BY <1>1 DEF SendUpdate
<1>3. /\ c.buf \in Block /\ c.buf.pos <= c.buf.size
      /\ c.buf.buf = << >> \/ Len(c.buf.buf) = c.buf.size
      /\ \A i \in 1 .. c.buf.pos : c.buf.buf[i] # Junk
  BY <1>1 DEF InBlock
<1>4. Len(c.buf.buf) <= c.buf.size
  BY <1>3 DEF Block
<1> QED
  BY <1>2, <1>3, <1>4 DEF BlockIsLargeEnough

LEMMA BoxHasNumbers ==
  ASSUME RectInv
  PROVE  HasNumbers(BoxUpdate)
<1>1. box \in Rect
  BY AlignToSurfaceType DEF RectInv
<1> QED
  BY <1>1 DEF HasNumbers, BoxUpdate, Rect, DISPLAY_UPDATE

(***************************************************************************)
(* Every message of mux_write_outgoing_msg lies in its block, which was    *)
(* allocated for the first write and doubled at most once for every other, *)
(* and has no byte that nobody wrote (msgpack.c:38-78, 249-339): for every *)
(* update with numbers for fields, and for every dirty box.                *)
(***************************************************************************)
THEOREM MessagesStayInBlock == ChainSpec => []BlockIsLargeEnough
<1>1. ChainInit => BlockIsLargeEnough
  BY DEF ChainInit, Init, BlockIsLargeEnough, mux_nnstr_init, NullBuf
<1>2. ASSUME BlockIsLargeEnough, RectInv, [ChainNext]_chainVars
      PROVE  BlockIsLargeEnough'
  <2>1. CASE UNCHANGED msg
    BY <1>2, <2>1 DEF BlockIsLargeEnough
  <2>2. ASSUME NEW u \in Updates, SendUpdate(u)
        PROVE  BlockIsLargeEnough'
    BY <2>2, SendKeepsBlock, UpdatesAssumption
  <2>3. CASE SendUpdate(BoxUpdate)
    BY <1>2, <2>3, SendKeepsBlock, BoxHasNumbers
  <2> QED
    BY <1>2, <2>1, <2>2, <2>3
       DEF ChainNext, chainVars, vars, Send, ServerSend, Receive, ServerReceive
<1> QED
  BY <1>1, <1>2, ChainIsRect, RectInvariant, PTL DEF ChainSpec

-----------------------------------------------------------------------------
(* Reading back what was written.                                          *)

\* The context of a reader of data that has come to p.
Reader(data, p) ==
  [buf |-> [buf |-> data, size |-> Len(data), pos |-> p], error |-> "ERROR_NONE"]

\* What it reads when it goes to q.
Piece(data, p, q) == SubSeq(data, p + 1, q)

Taken(data, q, s) == [ok |-> TRUE, ctx |-> Reader(data, q), data |-> s]

\* The bytes s stand in data, from p to q.
Stands(s, data, p, q) ==
  q = p + Len(s) /\ q <= Len(data) /\ \A i \in 1 .. Len(s) : data[p + i] = s[i]

LEMMA ReaderGoes ==
  ASSUME NEW data \in Seq(Stored), NEW p \in Nat, NEW n \in Nat, p + n <= Len(data)
  PROVE  mux_msg_reader(Reader(data, p), n) = Taken(data, p + n, Piece(data, p, p + n))
<1> DEFINE c == Reader(data, p)
<1>1. c.buf = [buf |-> data, size |-> Len(data), pos |-> p] /\ Len(data) \in Nat
  BY DEF Reader
<1>2. ~(c.buf.pos + n > c.buf.size)
  BY <1>1
<1>3. mux_msg_reader(c, n) =
        [ok |-> TRUE, ctx |-> [c EXCEPT !.buf.pos = c.buf.pos + n],
         data |-> SubSeq(c.buf.buf, c.buf.pos + 1, c.buf.pos + n)]
  BY <1>2 DEF mux_msg_reader
<1>4. PICK q \in Nat : q = p + n
  OBVIOUS
<1>5. [c EXCEPT !.buf.pos = q] = Reader(data, q)
  BY DEF Reader
<1>6. c.buf.pos + n = q /\ c.buf.pos = p /\ c.buf.buf = data
  BY <1>1, <1>4
<1> HIDE DEF c
<1>7. mux_msg_reader(c, n) = Taken(data, q, Piece(data, p, q))
  BY <1>3, <1>5, <1>6 DEF Taken, Piece
<1> QED
  BY <1>4, <1>7 DEF c

LEMMA ReaderEnds ==
  ASSUME NEW data \in Seq(Stored), NEW p \in Nat, NEW n \in Nat, p + n > Len(data)
  PROVE  mux_msg_reader(Reader(data, p), n).ok = FALSE
<1> DEFINE c == Reader(data, p)
<1>1. c.buf.pos + n > c.buf.size
  BY DEF Reader
<1>2. mux_msg_reader(c, n).ok = FALSE
  BY <1>1 DEF mux_msg_reader
<1> QED
  BY <1>2

LEMMA ReaderAt ==
  ASSUME NEW data \in Seq(Stored), NEW p \in Nat, NEW q \in Nat, NEW s \in Seq(Byte),
         Stands(s, data, p, q)
  PROVE  mux_msg_reader(Reader(data, p), Len(s)) = Taken(data, q, s)
<1>1. Len(s) \in Nat /\ q = p + Len(s) /\ q <= Len(data) /\ Len(data) \in Nat
  BY DEF Stands
<1>2. Piece(data, p, q) = s
  <2>1. PICK n \in Nat : n = Len(s)
    BY <1>1
  <2>2. /\ Len(SubSeq(data, p + 1, q)) = n
        /\ SubSeq(data, p + 1, q) \in Seq(Stored)
        /\ \A i \in 1 .. n : SubSeq(data, p + 1, q)[i] = data[p + i]
    BY <1>1, <2>1
  <2>3. \A i \in 1 .. n : data[p + i] = s[i]
    BY <2>1 DEF Stands
  <2>4. s \in Seq(Stored)
    BY DEF Stored
  <2>5. PICK x \in Seq(Stored) : x = SubSeq(data, p + 1, q)
    BY <2>2, Zenon
  <2>6. Len(x) = Len(s) /\ \A i \in 1 .. Len(s) : x[i] = s[i]
    BY <2>1, <2>2, <2>3, <2>5
  <2>7. x = s
    BY <2>4, <2>6
  <2> QED
    BY <2>5, <2>7 DEF Piece
<1>3. p + Len(s) <= Len(data)
  BY <1>1
<1>4. mux_msg_reader(Reader(data, p), Len(s)) = Taken(data, p + Len(s), Piece(data, p, p + Len(s)))
  BY <1>1, <1>3, ReaderGoes
<1> QED
  BY <1>1, <1>2, <1>4

LEMMA StandsBoth ==
  ASSUME NEW data \in Seq(Stored), NEW p \in Nat, NEW q \in Nat,
         NEW s \in Seq(Byte), NEW t \in Seq(Byte), Stands(s \o t, data, p, q)
  PROVE  \E m \in Nat : m = p + Len(s) /\ Stands(s, data, p, m) /\ Stands(t, data, m, q)
<1>1. PICK k \in Nat : k = Len(s)
  OBVIOUS
<1>2. PICK l \in Nat : l = Len(t)
  OBVIOUS
<1>3. PICK m \in Nat : m = p + k
  OBVIOUS
<1>4. /\ Len(s \o t) = k + l
      /\ \A i \in 1 .. k : (s \o t)[i] = s[i] /\ i \in 1 .. k + l
      /\ \A i \in 1 .. l : (s \o t)[k + i] = t[i] /\ k + i \in 1 .. k + l
  BY <1>1, <1>2
<1>5. /\ q = p + (k + l) /\ q <= Len(data) /\ Len(data) \in Nat
      /\ \A i \in 1 .. k + l : data[p + i] = (s \o t)[i]
  BY <1>4 DEF Stands
<1>6. Stands(s, data, p, m)
  BY <1>1, <1>3, <1>4, <1>5 DEF Stands
<1>7. \A i \in 1 .. l : data[m + i] = t[i]
  <2>1. ASSUME NEW i \in 1 .. l PROVE data[m + i] = t[i]
    <3>1. PICK j \in 1 .. k + l : j = k + i
      BY <1>4
    <3>2. p + j = m + i
      BY <1>3, <3>1
    <3>3. data[p + j] = (s \o t)[j] /\ (s \o t)[j] = t[i]
      BY <1>4, <1>5, <3>1
    <3> QED
      BY <3>2, <3>3
  <2> QED
    BY <2>1
<1>8. Stands(t, data, m, q)
  <2>1. q = m + Len(t)
    BY <1>2, <1>3, <1>5
  <2>2. \A i \in 1 .. Len(t) : data[m + i] = t[i]
    BY <1>2, <1>7
  <2> QED
    BY <1>5, <2>1, <2>2 DEF Stands
<1> QED
  BY <1>1, <1>3, <1>6, <1>8

\* An object whose header stands at the place of the reader is read from it.
LEMMA ReadsObject ==
  ASSUME NEW data \in Seq(Stored), NEW p \in Nat, NEW q \in Nat,
         NEW t \in P!Fixed \cup (P!Marked \ P!EXT), NEW v, P!Legal(t, v),
         Stands(P!Header(t, v), data, p, q)
  PROVE  /\ P!Header(t, v) \in Seq(Byte)
         /\ Pack!cmp_read_object(Reader(data, p)) = Pack!Object(Reader(data, q), t, v)
<1> DEFINE m == << P!First(t, v) >>
           c == Reader(data, p)
<1>1. P!Byte = Byte
  BY DEF P!Byte, Byte
<1>2. P!First(t, v) \in Byte /\ P!Header(t, v) \in Seq(Byte)
  BY <1>1, LayoutHolds, P!HeaderIs
<1>3. m \in Seq(Byte) /\ Len(m) = 1
  BY <1>2
<1>4. /\ t \in P!Fixed => P!Header(t, v) = m
      /\ t \in P!Marked \ P!EXT => P!Header(t, v) = m \o P!Chunk(t, v)
  BY LayoutHolds, P!HeaderIs
<1> HIDE DEF m
<1>5. CASE t \in P!Fixed
  <2>1. Stands(m, data, p, q)
    BY <1>4, <1>5
  <2>2. PICK one \in Nat : one = 1
    OBVIOUS
  <2>3. mux_msg_reader(c, one) = Taken(data, q, m)
    <3>1. mux_msg_reader(c, Len(m)) = Taken(data, q, m)
      BY <1>3, <2>1, ReaderAt
    <3> QED
      BY <1>3, <2>2, <3>1
  <2> HIDE DEF c
  <2>4. P!cmp_read_object(c) = P!Object(Reader(data, q), t, v)
    BY <1>5, <2>2, <2>3, LayoutHolds, P!ReadsFixed DEF m, Taken
  <2> QED
    BY <1>2, <2>4, SameReaders, SameResults DEF c
<1>6. CASE t \in P!Marked \ P!EXT
  <2> DEFINE b == P!Chunk(t, v)
  <2>1. b \in Seq(Byte) /\ Len(b) = P!Size(t) /\ P!Header(t, v) = m \o b
    BY <1>1, <1>4, <1>6, LayoutHolds, P!ChunkIs
  <2> HIDE DEF b
  <2>2. PICK n \in Nat : n = Len(b) /\ n = P!Size(t)
    BY <2>1
  <2>3. PICK k \in Nat : Stands(m, data, p, k) /\ Stands(b, data, k, q)
    BY <1>3, <2>1, StandsBoth
  <2>4. PICK one \in Nat : one = 1
    OBVIOUS
  <2>5. mux_msg_reader(c, one) = Taken(data, k, m)
    <3>1. mux_msg_reader(c, Len(m)) = Taken(data, k, m)
      BY <1>3, <2>3, ReaderAt
    <3> QED
      BY <1>3, <2>4, <3>1
  <2>6. mux_msg_reader(Reader(data, k), n) = Taken(data, q, b)
    <3>1. mux_msg_reader(Reader(data, k), Len(b)) = Taken(data, q, b)
      BY <2>1, <2>3, ReaderAt
    <3> QED
      BY <2>2, <3>1
  <2> HIDE DEF c
  <2> DEFINE r == mux_msg_reader(c, one)
             s == mux_msg_reader(Reader(data, k), n)
  <2>7. r.ok = TRUE /\ r.ctx = Reader(data, k) /\ r.data = m
    BY <2>5 DEF Taken
  <2>8. s.ok = TRUE /\ s.ctx = Reader(data, q) /\ s.data = b
    BY <2>6 DEF Taken
  <2>9. r = mux_msg_reader(c, 1) /\ s = mux_msg_reader(r.ctx, P!Size(t))
    BY <2>2, <2>4, <2>7
  <2> HIDE DEF r, s
  <2>10. P!cmp_read_object(c) = P!Object(s.ctx, t, v)
    BY <1>6, <2>7, <2>8, <2>9, LayoutHolds, P!ReadsField DEF m, b
  <2> QED
    BY <1>2, <2>8, <2>10, SameReaders, SameResults DEF c
<1> QED
  BY <1>5, <1>6

LEMMA ReadsUint ==
  ASSUME NEW data \in Seq(Stored), NEW p \in Nat, NEW q \in Nat, NEW v \in P!Unsigned(W64),
         Stands(Enc(v), data, p, q)
  PROVE  /\ Pack!ReadUnsigned(Reader(data, p), 4) = Pack!Value(Reader(data, q), v)
         /\ v < Pack!Values[W32] =>
              Pack!cmp_read_uint(Reader(data, p)) = Pack!Value(Reader(data, q), v)
         /\ ~(v < Pack!Values[W32]) => ~Pack!cmp_read_uint(Reader(data, p)).ok
         /\ ~Pack!cmp_read_array(Reader(data, p)).ok
<1> DEFINE t == P!UintType(v)
           o == [type |-> t, as |-> v]
           c == Reader(data, p)
           d == Reader(data, q)
           r == P!cmp_read_object(c)
<1>1. /\ t \in {"POSITIVE_FIXNUM"} \cup P!ToSet(P!UNSIGNED) /\ P!Legal(t, v)
      /\ P!AsUnsigned(o, 4) = TRUE
      /\ P!AsUnsigned(o, 3) = (v < P!Values[W32])
      /\ P!cmp_object_is_array(o) = FALSE
  BY LayoutHolds, P!UintTypeIs
<1>2. t \in P!Fixed \cup (P!Marked \ P!EXT)
  <2>1. "POSITIVE_FIXNUM" \in P!Fixed
    BY DEF P!Fixed
  <2>2. P!ToSet(P!UNSIGNED) \subseteq P!Marked \ P!EXT
    BY LayoutHolds, P!Sorts DEF P!Marked, P!Counted
  <2> QED
    BY <1>1, <2>1, <2>2
<1>3. Pack!cmp_read_object(c) = Pack!Object(d, t, v)
  <2>1. Stands(P!Header(t, v), data, p, q)
    BY DEF Enc
  <2> HIDE DEF t
  <2> QED
    BY <1>1, <1>2, <2>1, ReadsObject
<1> HIDE DEF c, d, t
<1>4. r = P!Object(d, t, v)
  BY <1>3, SameReaders, SameResults
<1>5. r.ok = TRUE /\ r.ctx = d /\ r.val = o
  BY <1>4 DEF P!Object, P!Value
<1> HIDE DEF r
<1>6. o.as = v
  OBVIOUS
<1> HIDE DEF o
<1>7. P!ReadUnsigned(c, 4) = P!Value(d, v)
  BY <1>1, <1>5, <1>6 DEF P!ReadUnsigned, P!Typed, r
<1>8. v < P!Values[W32] => P!cmp_read_uint(c) = P!Value(d, v)
  BY <1>1, <1>5, <1>6 DEF P!cmp_read_uint, P!ReadUnsigned, P!Typed, r
<1>9. ~(v < P!Values[W32]) => ~P!cmp_read_uint(c).ok
  BY <1>1, <1>5, <1>6 DEF P!cmp_read_uint, P!ReadUnsigned, P!Typed, P!Failure, r
<1>10. ~P!cmp_read_array(c).ok
  BY <1>1, <1>5, <1>6 DEF P!cmp_read_array, P!Typed, P!Failure, r
<1> QED
  BY <1>7, <1>8, <1>9, <1>10, SameReaders, SameResults, SameNumbers DEF c, d

LEMMA ReadsOpening ==
  ASSUME NEW data \in Seq(Stored), NEW p \in Nat, NEW q \in Nat, NEW n \in P!Unsigned(W32),
         Stands(Opening(n), data, p, q)
  PROVE  Pack!cmp_read_array(Reader(data, p)) = Pack!Value(Reader(data, q), n)
<1> DEFINE t == P!ArrayType(n)
           o == [type |-> t, as |-> n]
           c == Reader(data, p)
           d == Reader(data, q)
           r == P!cmp_read_object(c)
<1>1. /\ t \in {"FIXARRAY"} \cup P!ARRAY /\ P!Legal(t, n)
      /\ P!cmp_object_is_array(o) = TRUE
  BY LayoutHolds, P!ArrayTypeIs
<1>2. t \in P!Fixed \cup (P!Marked \ P!EXT)
  <2>1. "FIXARRAY" \in P!Fixed
    BY DEF P!Fixed
  <2>2. P!ARRAY \subseteq P!Marked \ P!EXT
    BY LayoutHolds, P!Sorts DEF P!Marked, P!Counted
  <2> QED
    BY <1>1, <2>1, <2>2
<1>3. Pack!cmp_read_object(c) = Pack!Object(d, t, n)
  <2>1. Stands(P!Header(t, n), data, p, q)
    BY DEF Opening
  <2> HIDE DEF t
  <2> QED
    BY <1>1, <1>2, <2>1, ReadsObject
<1> HIDE DEF c, d, t
<1>4. r = P!Object(d, t, n)
  BY <1>3, SameReaders, SameResults
<1>5. r.ok = TRUE /\ r.ctx = d /\ r.val = o
  BY <1>4 DEF P!Object, P!Value
<1> HIDE DEF r
<1>6. o.as = n
  OBVIOUS
<1> HIDE DEF o
<1>7. P!cmp_read_array(c) = P!Value(d, n)
  BY <1>1, <1>5, <1>6 DEF P!cmp_read_array, P!Typed, r
<1> QED
  BY <1>7, SameReaders, SameResults DEF c, d

\* At the end of the data nothing is read.
LEMMA ReadsNothing ==
  ASSUME NEW data \in Seq(Stored), NEW p, p = Len(data)
  PROVE  /\ ~Pack!cmp_read_uint(Reader(data, p)).ok
         /\ ~Pack!cmp_read_array(Reader(data, p)).ok
<1> DEFINE c == Reader(data, p)
<1>1. mux_msg_reader(c, 1).ok = FALSE
  <2>1. PICK n \in Nat : n = 1
    OBVIOUS
  <2>2. Len(data) \in Nat /\ Len(data) + n > Len(data)
    BY <2>1
  <2>3. mux_msg_reader(Reader(data, Len(data)), n).ok = FALSE
    BY <2>2, ReaderEnds
  <2> QED
    BY <2>1, <2>3
<1> HIDE DEF c
<1>2. ~P!cmp_read_object(c).ok
  BY <1>1, LayoutHolds, P!CutBeforeObject
<1>3. ~P!cmp_read_uint(c).ok
  BY <1>2 DEF P!cmp_read_uint, P!ReadUnsigned, P!Typed
<1>4. ~P!cmp_read_array(c).ok
  BY <1>2 DEF P!cmp_read_array, P!Typed
<1> QED
  BY <1>3, <1>4, SameReaders DEF c

-----------------------------------------------------------------------------
(* Numbers that stand one after the other.                                 *)

\* Behind start, the numbers f; the first of them begins at at[0], and the number
\* k ends at at[k].
Laid(data, start, f, at) ==
  /\ at \in [0 .. Len(f) -> Nat]
  /\ Stands(start, data, 0, at[0])
  /\ \A k \in 1 .. Len(f) : Stands(Enc(f[k]), data, at[k - 1], at[k])

Numbers64 == P!Unsigned(W64)

LEMMA EncType ==
  ASSUME NEW v \in Numbers64
  PROVE  Enc(v) \in Seq(Byte) /\ Enc(v) # << >>
<1> DEFINE t == P!UintType(v)
<1>1. t \in {"POSITIVE_FIXNUM"} \cup P!ToSet(P!UNSIGNED) /\ P!Legal(t, v)
  BY LayoutHolds, P!UintTypeIs DEF Numbers64
<1>2. t \in P!Fixed \cup P!Marked
  <2>1. "POSITIVE_FIXNUM" \in P!Fixed /\ P!ToSet(P!UNSIGNED) \subseteq P!Marked
    BY DEF P!Fixed, P!Marked, P!Counted
  <2> QED
    BY <1>1, <2>1
<1> HIDE DEF t
<1>3. P!Header(t, v) \in Seq(P!Byte) /\ P!Header(t, v) # << >>
  BY <1>1, <1>2, LayoutHolds, P!HeaderIs
<1> QED
  BY <1>3 DEF Enc, t, P!Byte, Byte

LEMMA OpeningType ==
  ASSUME NEW n \in P!Unsigned(W32)
  PROVE  Opening(n) \in Seq(Byte)
<1> DEFINE t == P!ArrayType(n)
<1>1. t \in {"FIXARRAY"} \cup P!ARRAY /\ P!Legal(t, n)
  BY LayoutHolds, P!ArrayTypeIs
<1>2. t \in P!Fixed \cup P!Marked
  <2>1. "FIXARRAY" \in P!Fixed /\ P!ARRAY \subseteq P!Marked
    BY DEF P!Fixed, P!Marked, P!Counted
  <2> QED
    BY <1>1, <2>1
<1> HIDE DEF t
<1>3. P!Header(t, n) \in Seq(P!Byte)
  BY <1>1, <1>2, LayoutHolds, P!HeaderIs
<1> QED
  BY <1>3 DEF Opening, t, P!Byte, Byte

LEMMA StandsLonger ==
  ASSUME NEW data \in Seq(Stored), NEW more \in Seq(Stored), NEW s \in Seq(Byte),
         NEW p \in Nat, NEW q \in Nat, Stands(s, data, p, q)
  PROVE  Stands(s, data \o more, p, q)
<1> DEFINE both == data \o more
<1>1. /\ Len(both) = Len(data) + Len(more) /\ Len(data) \in Nat /\ Len(more) \in Nat
      /\ \A i \in 1 .. Len(data) : both[i] = data[i]
  OBVIOUS
<1> HIDE DEF both
<1>2. /\ q = p + Len(s) /\ q <= Len(data) /\ Len(s) \in Nat
      /\ \A i \in 1 .. Len(s) : data[p + i] = s[i]
  BY DEF Stands
<1>3. q <= Len(both)
  BY <1>1, <1>2
<1>4. \A i \in 1 .. Len(s) : p + i \in 1 .. Len(data)
  BY <1>2
<1>5. \A i \in 1 .. Len(s) : both[p + i] = s[i]
  BY <1>1, <1>2, <1>4
<1>6. Stands(s, both, p, q)
  BY <1>2, <1>3, <1>5 DEF Stands
<1> QED
  BY <1>6 DEF both

LEMMA StandsLast ==
  ASSUME NEW data \in Seq(Stored), NEW s \in Seq(Byte)
  PROVE  Stands(s, data \o s, Len(data), Len(data \o s))
<1> DEFINE both == data \o s
<1>1. s \in Seq(Stored)
  BY DEF Stored
<1>2. /\ Len(both) = Len(data) + Len(s) /\ Len(data) \in Nat /\ Len(s) \in Nat
      /\ \A i \in 1 .. Len(s) : both[Len(data) + i] = s[i]
  BY <1>1
<1> HIDE DEF both
<1>3. Stands(s, both, Len(data), Len(both))
  BY <1>2 DEF Stands
<1> QED
  BY <1>3 DEF both

LEMMA LaidPiece ==
  ASSUME NEW data, NEW start, NEW f \in Seq(Numbers64), NEW at, Laid(data, start, f, at),
         NEW k \in 1 .. Len(f)
  PROVE  \E j \in 0 .. Len(f) : /\ j = k - 1 /\ at[j] \in Nat /\ at[k] \in Nat
                                /\ f[k] \in Numbers64
                                /\ Stands(Enc(f[k]), data, at[j], at[k])
<1>1. PICK n \in Nat : n = Len(f)
  OBVIOUS
<1>2. /\ at \in [0 .. n -> Nat]
      /\ \A i \in 1 .. n : Stands(Enc(f[i]), data, at[i - 1], at[i])
  BY <1>1 DEF Laid
<1>3. k \in 1 .. n /\ k \in 0 .. n /\ k - 1 \in 0 .. n
  BY <1>1
<1>4. PICK j \in 0 .. n : j = k - 1
  BY <1>3
<1>5. Stands(Enc(f[k]), data, at[k - 1], at[k])
  BY <1>2, <1>3
<1>6. at[j] \in Nat /\ at[k] \in Nat
  BY <1>2, <1>3
<1>7. f[k] \in Numbers64
  OBVIOUS
<1> QED
  BY <1>1, <1>4, <1>5, <1>6, <1>7

LEMMA LaidStart ==
  ASSUME NEW data, NEW start, NEW f \in Seq(Numbers64), NEW at, Laid(data, start, f, at)
  PROVE  /\ at \in [0 .. Len(f) -> Nat] /\ at[0] \in Nat /\ Len(f) \in Nat
         /\ Stands(start, data, 0, at[0])
BY DEF Laid

LEMMA LaidIs ==
  ASSUME NEW data, NEW start, NEW f, NEW n \in Nat, n = Len(f), NEW at \in [0 .. n -> Nat],
         Stands(start, data, 0, at[0]),
         \A k \in 1 .. n : \A j \in 0 .. n :
           j = k - 1 => Stands(Enc(f[k]), data, at[j], at[k])
  PROVE  Laid(data, start, f, at)
<1>1. ASSUME NEW k \in 1 .. n PROVE Stands(Enc(f[k]), data, at[k - 1], at[k])
  <2>1. k - 1 \in 0 .. n
    OBVIOUS
  <2> QED
    BY <2>1
<1> QED
  BY <1>1 DEF Laid

LEMMA LaidLonger ==
  ASSUME NEW data \in Seq(Stored), NEW more \in Seq(Stored), NEW start \in Seq(Byte),
         NEW f \in Seq(Numbers64), NEW at, Laid(data, start, f, at)
  PROVE  Laid(data \o more, start, f, at)
<1> DEFINE both == data \o more
<1>1. PICK n \in Nat : n = Len(f)
  OBVIOUS
<1>2. at \in [0 .. n -> Nat]
  BY <1>1, LaidStart
<1>3. Stands(start, both, 0, at[0])
  BY LaidStart, StandsLonger
<1>4. ASSUME NEW k \in 1 .. n, NEW j \in 0 .. n, j = k - 1
      PROVE  Stands(Enc(f[k]), both, at[j], at[k])
  <2>1. /\ at[j] \in Nat /\ at[k] \in Nat /\ f[k] \in Numbers64
        /\ Stands(Enc(f[k]), data, at[j], at[k])
    BY <1>1, <1>4, LaidPiece
  <2>2. PICK s \in Seq(Byte) : s = Enc(f[k])
    BY <2>1, EncType
  <2>3. Stands(s, data, at[j], at[k])
    BY <2>1, <2>2
  <2>4. Stands(s, both, at[j], at[k])
    BY <2>1, <2>3, StandsLonger
  <2> QED
    BY <2>2, <2>4
<1> HIDE DEF both
<1>5. Laid(both, start, f, at)
  BY <1>1, <1>2, <1>3, <1>4, LaidIs
<1> QED
  BY <1>5 DEF both

LEMMA LaidMore ==
  ASSUME NEW data \in Seq(Stored), NEW start \in Seq(Byte), NEW f \in Seq(Numbers64), NEW at,
         Laid(data, start, f, at), at[Len(f)] = Len(data), NEW v \in Numbers64
  PROVE  \E to : /\ Laid(data \o Enc(v), start, Append(f, v), to)
                 /\ to[Len(Append(f, v))] = Len(data \o Enc(v))
<1>1. PICK n \in Nat : n = Len(f)
  OBVIOUS
<1> DEFINE both == data \o Enc(v)
           g == Append(f, v)
           to == [k \in 0 .. n + 1 |-> IF k = n + 1 THEN Len(both) ELSE at[k]]
<1>2. Enc(v) \in Seq(Byte) /\ Enc(v) \in Seq(Stored)
  BY EncType DEF Stored
<1>3. both \in Seq(Stored) /\ Len(both) \in Nat
  BY <1>2
<1>4. /\ Len(g) = n + 1 /\ g[n + 1] = v
      /\ \A k \in 1 .. n : g[k] = f[k]
  BY <1>1
<1>5. at \in [0 .. n -> Nat] /\ Laid(both, start, f, at)
  BY <1>1, <1>2, LaidLonger, LaidStart
<1>6. Stands(Enc(v), both, at[n], Len(both))
  BY <1>1, <1>2, StandsLast
<1> HIDE DEF both, g
<1>7. PICK m \in Nat : m = n + 1 /\ m \in 1 .. m
  OBVIOUS
<1>8. /\ to \in [0 .. m -> Nat] /\ to[m] = Len(both)
      /\ \A k \in 0 .. n : to[k] = at[k]
  BY <1>3, <1>5, <1>7
<1> HIDE DEF to
<1>9. Stands(start, both, 0, to[0])
  BY <1>5, <1>8, LaidStart
<1>10. ASSUME NEW k \in 1 .. m, NEW j \in 0 .. m, j = k - 1
       PROVE  Stands(Enc(g[k]), both, to[j], to[k])
  <2>1. CASE k = m
    <3>1. j = n
      BY <1>7, <1>10, <2>1
    <3> QED
      BY <1>4, <1>6, <1>7, <1>8, <2>1, <3>1
  <2>2. CASE k # m
    <3>1. k \in 1 .. n /\ k \in 0 .. n /\ j \in 0 .. n
      BY <1>7, <1>10, <2>2
    <3>2. Stands(Enc(f[k]), both, at[j], at[k])
      BY <1>1, <1>5, <1>10, <3>1, LaidPiece
    <3> QED
      BY <1>4, <1>8, <3>1, <3>2
  <2> QED
    BY <2>1, <2>2
<1>11. Laid(both, start, g, to)
  <2>1. m = Len(g)
    BY <1>4, <1>7
  <2> QED
    BY <1>8, <1>9, <1>10, <2>1, LaidIs
<1>12. to[Len(g)] = Len(both)
  BY <1>4, <1>7, <1>8
<1> QED
  BY <1>11, <1>12 DEF both, g

\* The message in c: behind start, the numbers f, and nothing after them.
Wrote(c, start, f) ==
  /\ InBlock(c) /\ f \in Seq(Numbers64)
  /\ \E at : Laid(Text(c.buf), start, f, at) /\ at[Len(f)] = Len(Text(c.buf))

NewContext == Pack!cmp_init(mux_nnstr_init(NullBuf, 0))

LEMMA TextType ==
  ASSUME NEW c, InBlock(c)
  PROVE  Text(c.buf) \in Seq(Stored) /\ Len(Text(c.buf)) = c.buf.pos
<1>1. c.buf.buf \in Seq(Stored) /\ c.buf.pos \in Nat /\ c.buf.pos <= Len(c.buf.buf)
  BY DEF InBlock, Block
<1>2. PICK x \in Seq(Stored) : x = c.buf.buf
  BY <1>1
<1>3. PICK k \in 0 .. Len(x) : k = c.buf.pos
  BY <1>1, <1>2
<1>4. SubSeq(x, 1, k) \in Seq(Stored) /\ Len(SubSeq(x, 1, k)) = k
  OBVIOUS
<1> QED
  BY <1>2, <1>3, <1>4 DEF Text

LEMMA NewContextIs ==
  InBlock(NewContext) /\ Text(NewContext.buf) = << >>
<1> DEFINE c == NewContext
<1>1. /\ c.buf = [buf |-> << >>, size |-> 0, pos |-> 0]
      /\ c = [buf |-> c.buf, error |-> "ERROR_NONE"]
  BY DEF NewContext, Pack!cmp_init, mux_nnstr_init, NullBuf
<1> HIDE DEF c
<1>2. c.buf \in Block
  BY <1>1 DEF Block
<1>3. c = [buf |-> c.buf, error |-> c.error]
  BY <1>1
<1>4. InBlock(c)
  BY <1>1, <1>2, <1>3 DEF InBlock
<1>5. Text(c.buf) \in Seq(Stored) /\ Len(Text(c.buf)) = 0
  BY <1>1, <1>4, TextType
<1>6. Text(c.buf) = << >>
  BY <1>5
<1> QED
  BY <1>4, <1>6 DEF c

LEMMA NoNumbers ==
  ASSUME NEW s \in Seq(Byte)
  PROVE  \E at : Laid(s, s, << >>, at) /\ at[Len(<< >>)] = Len(s)
<1> DEFINE at == [k \in 0 .. 0 |-> Len(s)]
<1>1. Len(s) \in Nat /\ Stands(s, s, 0, Len(s))
  BY DEF Stands
<1>2. at \in [0 .. 0 -> Nat] /\ at[0] = Len(s)
  BY <1>1
<1> HIDE DEF at
<1>3. PICK n \in Nat : n = 0 /\ n = Len(<< >>)
  OBVIOUS
<1>4. Laid(s, s, << >>, at)
  BY <1>1, <1>2, <1>3, LaidIs
<1> QED
  BY <1>2, <1>3, <1>4

LEMMA WroteNothing == Wrote(NewContext, << >>, << >>)
<1>1. << >> \in Seq(Byte) /\ << >> \in Seq(Numbers64)
  OBVIOUS
<1>2. \E at : Laid(<< >>, << >>, << >>, at) /\ at[Len(<< >>)] = Len(<< >>)
  BY <1>1, NoNumbers
<1> QED
  BY <1>1, <1>2, NewContextIs DEF Wrote

LEMMA WroteOpening ==
  ASSUME NEW n \in P!Unsigned(W32)
  PROVE  Wrote(PutArray(NewContext, n), Opening(n), << >>)
<1> DEFINE c == PutArray(NewContext, n)
           s == Opening(n)
<1>1. InBlock(c) /\ Text(c.buf) = << >> \o s
  BY NewContextIs, ArrayStaysInBlock
<1>2. s \in Seq(Byte)
  BY OpeningType
<1> HIDE DEF c, s
<1>3. Text(c.buf) = s
  BY <1>1, <1>2
<1>4. << >> \in Seq(Numbers64)
  OBVIOUS
<1> QED
  BY <1>1, <1>2, <1>3, <1>4, NoNumbers DEF Wrote, c, s

LEMMA WroteMore ==
  ASSUME NEW c, NEW start \in Seq(Byte), NEW f, Wrote(c, start, f), NEW x \in Int
  PROVE  Wrote(PutUint(c, x), start, Append(f, Uint64(x)))
<1> DEFINE v == Uint64(x)
           d == PutUint(c, x)
<1>1. InBlock(c) /\ f \in Seq(Numbers64) /\ Text(c.buf) \in Seq(Stored)
  BY TextType DEF Wrote
<1>2. InBlock(d) /\ v \in Numbers64 /\ Text(d.buf) = Text(c.buf) \o Enc(v)
  BY <1>1, UintStaysInBlock DEF Numbers64
<1> HIDE DEF v, d
<1>3. PICK at : Laid(Text(c.buf), start, f, at) /\ at[Len(f)] = Len(Text(c.buf))
  BY DEF Wrote
<1>4. PICK to : /\ Laid(Text(c.buf) \o Enc(v), start, Append(f, v), to)
                /\ to[Len(Append(f, v))] = Len(Text(c.buf) \o Enc(v))
  BY <1>1, <1>2, <1>3, LaidMore
<1>5. Append(f, v) \in Seq(Numbers64)
  BY <1>1, <1>2
<1> QED
  BY <1>2, <1>4, <1>5 DEF Wrote, v, d

-----------------------------------------------------------------------------
(* The server reads back the numbers that stand behind the opening.        *)

Front(f, k) == SubSeq(f, 1, k)

LEMMA FrontFacts ==
  ASSUME NEW S, NEW f \in Seq(S)
  PROVE  /\ Front(f, 0) = << >> /\ Front(f, Len(f)) = f
         /\ \A k \in 1 .. Len(f) : Front(f, k) = Append(Front(f, k - 1), f[k])
<1>1. Front(f, 0) = << >>
  BY DEF Front
<1>2. Front(f, Len(f)) = f
  BY DEF Front
<1>3. ASSUME NEW k \in 1 .. Len(f)
      PROVE  Front(f, k) = Append(Front(f, k - 1), f[k])
  <2>1. PICK j \in 0 .. Len(f) : j = k - 1 /\ j + 1 = k
    OBVIOUS
  <2>2. \A m \in 0 .. Len(f) :
           /\ Front(f, m) \in Seq(S) /\ Len(Front(f, m)) = m
           /\ \A i \in 1 .. m : Front(f, m)[i] = f[i]
    BY DEF Front
  <2>3. PICK s \in Seq(S) : s = Front(f, j) /\ Len(s) = j /\ \A i \in 1 .. j : s[i] = f[i]
    BY <2>1, <2>2
  <2>4. PICK t \in Seq(S) : t = Front(f, k) /\ Len(t) = k /\ \A i \in 1 .. k : t[i] = f[i]
    BY <2>1, <2>2
  <2>5. Append(s, f[k]) \in Seq(S) /\ Len(Append(s, f[k])) = k
    BY <2>1, <2>3
  <2>6. \A i \in 1 .. k : Append(s, f[k])[i] = t[i]
    BY <2>1, <2>3, <2>4
  <2>7. Append(s, f[k]) = t
    BY <2>4, <2>5, <2>6
  <2> QED
    BY <2>1, <2>3, <2>4, <2>7
<1> QED
  BY <1>1, <1>2, <1>3

\* The recursive function of Decode.
Taking(t, array, count) ==
  t = [k \in 0 .. count |->
         IF k = 0 THEN [ok |-> array.ok, ctx |-> array.ctx, vals |-> << >>]
         ELSE LET before == t[k - 1]
                  q == Pack!ReadUnsigned(before.ctx, 4)
              IN IF before.ok /\ q.ok
                 THEN [ok |-> TRUE, ctx |-> q.ctx, vals |-> Append(before.vals, q.val)]
                 ELSE [before EXCEPT !.ok = FALSE]]

Gone(data, p, s) == [ok |-> TRUE, ctx |-> Reader(data, p), vals |-> s]

TakingOf(array, count) == CHOOSE t : Taking(t, array, count)

Decoding(array) ==
  LET count == IF array.ok THEN array.val ELSE 0
  IN IF TakingOf(array, count)[count].ok THEN TakingOf(array, count)[count].vals ELSE << >>

LEMMA DecodeByTaking ==
  ASSUME NEW data
  PROVE  Decode(data) = Decoding(Pack!cmp_read_array(Reader(data, 0)))
BY DEF Decode, Decoding, TakingOf, Taking, Pack!cmp_init, mux_nnstr_init, Reader

\* What was laid down is taken.
LEMMA TakesWhatIsLaid ==
  ASSUME NEW data \in Seq(Stored), NEW start, NEW f \in Seq(Numbers64), NEW at,
         Laid(data, start, f, at), NEW n \in Nat, n = Len(f), NEW array,
         array.ok = TRUE, array.ctx = Reader(data, at[0]), array.val = n
  PROVE  TakingOf(array, n)[n] = Gone(data, at[n], f)
<1> DEFINE t == TakingOf(array, n)
           w == [k \in 0 .. n |-> Gone(data, at[k], Front(f, k))]
           Step(b) == LET q == Pack!ReadUnsigned(b.ctx, 4)
                      IN IF b.ok /\ q.ok
                         THEN [ok |-> TRUE, ctx |-> q.ctx, vals |-> Append(b.vals, q.val)]
                         ELSE [b EXCEPT !.ok = FALSE]
           Zero == [ok |-> array.ok, ctx |-> array.ctx, vals |-> << >>]
<1>1. Zero = Gone(data, at[0], Front(f, 0))
  BY FrontFacts DEF Gone
<1>2. ASSUME NEW k \in 1 .. n, NEW j \in 0 .. n, j = k - 1
      PROVE  Step(Gone(data, at[j], Front(f, j))) = Gone(data, at[k], Front(f, k))
  <2>1. /\ at[j] \in Nat /\ at[k] \in Nat /\ f[k] \in Numbers64
        /\ Stands(Enc(f[k]), data, at[j], at[k])
    BY <1>2, LaidPiece
  <2>2. Pack!ReadUnsigned(Reader(data, at[j]), 4) = Pack!Value(Reader(data, at[k]), f[k])
    BY <2>1, ReadsUint DEF Numbers64
  <2>3. Front(f, k) = Append(Front(f, j), f[k])
    BY <1>2, FrontFacts
  <2>4. PICK x : x = Front(f, j)
    OBVIOUS
  <2>5. PICK y : y = Front(f, k)
    OBVIOUS
  <2>6. Step(Gone(data, at[j], x)) = Gone(data, at[k], y)
    <3> DEFINE b == Gone(data, at[j], x)
               q == Pack!ReadUnsigned(b.ctx, 4)
    <3>1. b.ok = TRUE /\ b.ctx = Reader(data, at[j]) /\ b.vals = x
      BY DEF Gone
    <3>2. q.ok = TRUE /\ q.ctx = Reader(data, at[k]) /\ q.val = f[k]
      BY <2>2, <3>1 DEF Pack!Value
    <3>3. Append(b.vals, q.val) = y
      BY <2>3, <2>4, <2>5, <3>1, <3>2
    <3> HIDE DEF b
    <3>4. Step(b) = [ok |-> TRUE, ctx |-> q.ctx, vals |-> Append(b.vals, q.val)]
      BY <3>1, <3>2
    <3> HIDE DEF q, Step
    <3>5. Step(b) = Gone(data, at[k], y)
      BY <3>2, <3>3, <3>4 DEF Gone
    <3> QED
      BY <3>5 DEF b
  <2> QED
    BY <2>4, <2>5, <2>6
<1> HIDE DEF Zero, Step
<1>3. Taking(w, array, n) <=> w = [k \in 0 .. n |-> IF k = 0 THEN Zero ELSE Step(w[k - 1])]
  BY DEF Taking, Zero, Step
<1>4. w = [k \in 0 .. n |-> IF k = 0 THEN Zero ELSE Step(w[k - 1])]
  <2>1. ASSUME NEW k \in 0 .. n
        PROVE  w[k] = IF k = 0 THEN Zero ELSE Step(w[k - 1])
    <3>1. CASE k = 0
      BY <1>1, <3>1
    <3>2. CASE k # 0
      <4>1. PICK j \in 0 .. n : j = k - 1 /\ k \in 1 .. n
        BY <3>2
      <4> QED
        BY <1>2, <3>2, <4>1
    <3> QED
      BY <3>1, <3>2
  <2> QED
    BY <2>1
<1>5. Taking(t, array, n)
  BY <1>3, <1>4 DEF TakingOf
<1>6. t = [k \in 0 .. n |-> IF k = 0 THEN Zero ELSE Step(t[k - 1])]
  BY <1>5 DEF Taking, Zero, Step
<1> HIDE DEF t
<1> DEFINE T == {k \in Nat : k <= n => t[k] = Gone(data, at[k], Front(f, k))}
<1>7. 0 \in T
  BY <1>1, <1>6
<1>8. ASSUME NEW k \in Nat, k \in T PROVE k + 1 \in T
  <2>1. ASSUME k + 1 <= n
        PROVE  t[k + 1] = Gone(data, at[k + 1], Front(f, k + 1))
    <3>1. PICK m \in 1 .. n : m = k + 1 /\ k = m - 1 /\ k \in 0 .. n /\ m \in 0 .. n /\ m # 0
      BY <2>1
    <3>2. t[m] = Step(t[k])
      BY <1>6, <3>1
    <3>3. t[k] = Gone(data, at[k], Front(f, k))
      BY <1>8, <3>1
    <3>4. t[m] = Gone(data, at[m], Front(f, m))
      BY <1>2, <3>1, <3>2, <3>3
    <3> QED
      BY <3>1, <3>4
  <2> QED
    BY <2>1
<1>9. Nat \subseteq T
  <2> HIDE DEF T
  <2> QED
    BY <1>7, <1>8, LayoutHolds, P!NatInduct
<1>10. t[n] = Gone(data, at[n], Front(f, n))
  BY <1>9
<1> QED
  BY <1>10, FrontFacts DEF t

LEMMA DecodeIs ==
  ASSUME NEW data \in Seq(Stored), NEW f \in Seq(Numbers64), Len(f) \in P!Unsigned(W32),
         NEW at, Laid(data, Opening(Len(f)), f, at)
  PROVE  Decode(data) = f
<1>1. PICK n \in P!Unsigned(W32) : n = Len(f) /\ n \in Nat
  OBVIOUS
<1> DEFINE array == Pack!cmp_read_array(Reader(data, 0))
<1>2. array = Pack!Value(Reader(data, at[0]), n)
  <2>1. at[0] \in Nat /\ Stands(Opening(n), data, 0, at[0])
    BY <1>1, LaidStart
  <2>2. PICK z \in Nat : z = 0
    OBVIOUS
  <2>3. Pack!cmp_read_array(Reader(data, z)) = Pack!Value(Reader(data, at[0]), n)
    BY <2>1, <2>2, ReadsOpening
  <2> QED
    BY <2>2, <2>3
<1>3. array.ok = TRUE /\ array.ctx = Reader(data, at[0]) /\ array.val = n
  BY <1>2 DEF Pack!Value
<1> HIDE DEF array
<1>4. TakingOf(array, n)[n] = Gone(data, at[n], f)
  BY <1>1, <1>3, TakesWhatIsLaid
<1>5. Decoding(array) = f
  <2>1. TakingOf(array, n)[n].ok = TRUE /\ TakingOf(array, n)[n].vals = f
    BY <1>4 DEF Gone
  <2> QED
    BY <1>3, <2>1 DEF Decoding
<1> QED
  BY <1>5, DecodeByTaking DEF array

-----------------------------------------------------------------------------
(* Outgoing messages.                                                      *)

LEMMA OpeningIsSome ==
  ASSUME NEW n \in P!Unsigned(W32)
  PROVE  Len(Opening(n)) \in Nat \ {0}
<1>1. Opening(n) # << >>
  <2>1. CASE n <= FIXARRAY_SIZE
    <3>1. Opening(n) = << Pack!FIXARRAY_MARKER + n >>
      BY <2>1, OpeningIs
    <3>2. PICK b : b = Pack!FIXARRAY_MARKER + n
      OBVIOUS
    <3>3. << b >> # << >>
      OBVIOUS
    <3> QED
      BY <3>1, <3>2, <3>3
  <2>2. CASE ~(n <= FIXARRAY_SIZE)
    <3> DEFINE t == P!ArrayType(n)
    <3>1. n \in Nat /\ t \in {"ARRAY16", "ARRAY32"}
      BY <2>2 DEF P!ArrayType, P!Unsigned
    <3>2. PICK image \in Seq(Byte) : image = Pack!BigEndian(n, Pack!Width[t])
      BY <3>1, WidthFacts, BigEndianBytes
    <3>3. Opening(n) = << Pack!Marker[t] >> \o image
      BY <2>2, <3>2, OpeningIs
    <3>4. Pack!Marker[t] \in Byte
      BY <3>1, MarkersAreBytes
    <3> HIDE DEF t
    <3> QED
      BY <3>3, <3>4
  <2> QED
    BY <2>1, <2>2
<1>2. Opening(n) \in Seq(Byte)
  BY OpeningType
<1> QED
  BY <1>1, <1>2

\* The whole block is sent; it begins with the message.
LEMMA BlockBeginsWithText ==
  ASSUME NEW c, InBlock(c), c.buf.buf # << >>
  PROVE  \E more \in Seq(Stored) :
           SubSeq(c.buf.buf, 1, c.buf.size) = Text(c.buf) \o more
<1>1. /\ c.buf.buf \in Seq(Stored) /\ c.buf.pos \in Nat /\ c.buf.pos <= c.buf.size
      /\ Len(c.buf.buf) = c.buf.size
  BY DEF InBlock, Block
<1>2. PICK x \in Seq(Stored) : x = c.buf.buf
  BY <1>1
<1>3. PICK p \in Nat : p = c.buf.pos
  BY <1>1
<1>4. PICK n \in Nat : n = c.buf.size /\ n = Len(x) /\ p <= n
  BY <1>1, <1>2, <1>3
<1>5. SubSeq(x, 1, n) = x
  BY <1>4
<1>6. x = SubSeq(x, 1, p) \o SubSeq(x, p + 1, n)
  <2>1. PICK m \in 1 .. Len(x) + 1 : m = 1
    BY <1>4
  <2>2. p \in m - 1 .. Len(x) /\ n \in p .. Len(x)
    BY <1>4, <2>1
  <2>3. SubSeq(x, m, p) \o SubSeq(x, p + 1, n) = SubSeq(x, m, n)
    BY <2>2, ConcatAdjacentSubSeq
  <2> QED
    BY <1>5, <2>1, <2>3
<1>7. SubSeq(x, p + 1, n) \in Seq(Stored)
  BY <1>4
<1>8. Text(c.buf) = SubSeq(x, 1, p)
  BY <1>2, <1>3 DEF Text
<1> QED
  BY <1>2, <1>4, <1>5, <1>6, <1>7, <1>8

LEMMA SentDecodes ==
  ASSUME NEW c, NEW f, Len(f) \in P!Unsigned(W32), Wrote(c, Opening(Len(f)), f)
  PROVE  Decode(SubSeq(c.buf.buf, 1, c.buf.size)) = f
<1>1. PICK n \in P!Unsigned(W32) : n = Len(f)
  OBVIOUS
<1>2. InBlock(c) /\ f \in Seq(Numbers64)
  BY DEF Wrote
<1>3. PICK at : Laid(Text(c.buf), Opening(n), f, at)
  BY <1>1 DEF Wrote
<1>4. Text(c.buf) \in Seq(Stored) /\ Len(Text(c.buf)) = c.buf.pos
  BY <1>2, TextType
<1>5. c.buf.buf # << >>
  <2>1. at[0] \in Nat /\ Stands(Opening(n), Text(c.buf), 0, at[0])
    BY <1>2, <1>3, LaidStart
  <2>2. PICK l \in Nat \ {0} : l = Len(Opening(n))
    BY OpeningIsSome
  <2>3. l <= Len(Text(c.buf))
    BY <2>1, <2>2 DEF Stands
  <2>4. c.buf.pos \in Nat /\ c.buf.pos # 0
    BY <1>2, <1>4, <2>2, <2>3 DEF InBlock, Block
  <2> QED
    BY <1>2, <2>4 DEF InBlock
<1>6. PICK more \in Seq(Stored) : SubSeq(c.buf.buf, 1, c.buf.size) = Text(c.buf) \o more
  BY <1>2, <1>5, BlockBeginsWithText
<1>7. Opening(n) \in Seq(Byte)
  BY OpeningType
<1>8. Laid(Text(c.buf) \o more, Opening(n), f, at)
  BY <1>2, <1>3, <1>4, <1>7, LaidLonger
<1>9. Text(c.buf) \o more \in Seq(Stored)
  BY <1>4
<1>10. Decode(Text(c.buf) \o more) = f
  BY <1>1, <1>2, <1>8, <1>9, DecodeIs
<1> QED
  BY <1>6, <1>10

LEMMA SmallNumbers ==
  \A n \in 0 .. 5 : n \in P!Unsigned(W32) /\ Uint64(n) = n
<1>1. /\ Pack!Values[W32] \in Nat /\ Pack!Values[W64] \in Nat
      /\ 5 < Pack!Values[W32] /\ Pack!Values[W32] < Pack!Values[W64]
  BY LayoutHolds, P!ValuesOfFields, P!LayoutFacts, SameNumbers
<1>2. P!Values = Pack!Values
  BY SameNumbers
<1>3. PICK v \in Nat : v = Pack!Values[W64] /\ 5 < v
  BY <1>1
<1>4. \A n \in 0 .. 5 : n % v = n
  BY <1>3
<1> QED
  BY <1>1, <1>2, <1>3, <1>4 DEF P!Unsigned, Uint64

LEMMA AppendIs ==
  ASSUME NEW S, NEW s \in Seq(S), NEW t \in Seq(S), NEW x \in S, NEW n \in Nat, n = Len(s),
         Len(t) = n + 1, \A i \in 1 .. n : t[i] = s[i], t[n + 1] = x
  PROVE  Append(s, x) = t
<1>1. /\ Append(s, x) \in Seq(S) /\ Len(Append(s, x)) = n + 1
      /\ \A i \in 1 .. n : Append(s, x)[i] = s[i]
      /\ Append(s, x)[n + 1] = x
  OBVIOUS
<1>2. \A i \in 1 .. n + 1 : Append(s, x)[i] = t[i]
  <2>1. \A i \in 1 .. n + 1 : i \in 1 .. n \/ i = n + 1
    OBVIOUS
  <2> QED
    BY <1>1, <2>1
<1>3. PICK r \in Seq(S) : r = Append(s, x)
  BY <1>1
<1>4. r = t
  BY <1>1, <1>2, <1>3
<1> QED
  BY <1>3, <1>4
LEMMA TupleTypes ==
  ASSUME NEW S, NEW a \in S, NEW b \in S, NEW c \in S, NEW d \in S, NEW e \in S
  PROVE  /\ << >> \in Seq(S) /\ << a >> \in Seq(S)
         /\ << a, b >> \in Seq(S) /\ << a, b, c >> \in Seq(S)
         /\ << a, b, c, d >> \in Seq(S) /\ << a, b, c, d, e >> \in Seq(S)
OBVIOUS
LEMMA TupleLens ==
  ASSUME NEW a, NEW b, NEW c, NEW d, NEW e
  PROVE  /\ Len(<< >>) = 0 /\ Len(<< a >>) = 1 /\ Len(<< a, b >>) = 2 /\ Len(<< a, b, c >>) = 3
         /\ Len(<< a, b, c, d >>) = 4 /\ Len(<< a, b, c, d, e >>) = 5
OBVIOUS
LEMMA Tuple1 ==
  ASSUME NEW S, NEW a \in S
  PROVE  Append(<< >>, a) = << a >>
<1>1. PICK s \in Seq(S) : s = << >>
  BY TupleTypes
<1>2. PICK t \in Seq(S) : t = << a >>
  BY TupleTypes
<1>3. PICK n \in Nat : n = 0
  OBVIOUS
<1>4. Len(s) = n /\ Len(t) = n + 1
  BY <1>1, <1>2, <1>3, TupleLens
<1>5. t[1] = a
  BY <1>1, <1>2
<1>6. (\A i \in 1 .. n : t[i] = s[i]) /\ t[n + 1] = a
  BY <1>3, <1>5
<1>7. Append(s, a) = t
  BY <1>4, <1>6, AppendIs
<1> QED
  BY <1>1, <1>2, <1>7, Zenon

LEMMA Tuple2 ==
  ASSUME NEW S, NEW a \in S, NEW b \in S
  PROVE  Append(<< a >>, b) = << a, b >>
<1>1. PICK s \in Seq(S) : s = << a >>
  BY TupleTypes
<1>2. PICK t \in Seq(S) : t = << a, b >>
  BY TupleTypes
<1>3. PICK n \in Nat : n = 1
  OBVIOUS
<1>4. Len(s) = n /\ Len(t) = n + 1
  BY <1>1, <1>2, <1>3, TupleLens
<1>5. s[1] = a /\ t[1] = a /\ t[2] = b
  BY <1>1, <1>2
<1>6. (\A i \in 1 .. n : t[i] = s[i]) /\ t[n + 1] = b
  BY <1>3, <1>5
<1>7. Append(s, b) = t
  BY <1>4, <1>6, AppendIs
<1> QED
  BY <1>1, <1>2, <1>7, Zenon

LEMMA Tuple3 ==
  ASSUME NEW S, NEW a \in S, NEW b \in S, NEW c \in S
  PROVE  Append(<< a, b >>, c) = << a, b, c >>
<1>1. PICK s \in Seq(S) : s = << a, b >>
  BY TupleTypes
<1>2. PICK t \in Seq(S) : t = << a, b, c >>
  BY TupleTypes
<1>3. PICK n \in Nat : n = 2
  OBVIOUS
<1>4. Len(s) = n /\ Len(t) = n + 1
  BY <1>1, <1>2, <1>3, TupleLens
<1>5. s[1] = a /\ s[2] = b /\ t[1] = a /\ t[2] = b /\ t[3] = c
  BY <1>1, <1>2
<1>6. (\A i \in 1 .. n : t[i] = s[i]) /\ t[n + 1] = c
  BY <1>3, <1>5
<1>7. Append(s, c) = t
  BY <1>4, <1>6, AppendIs
<1> QED
  BY <1>1, <1>2, <1>7, Zenon

LEMMA Tuple4 ==
  ASSUME NEW S, NEW a \in S, NEW b \in S, NEW c \in S, NEW d \in S
  PROVE  Append(<< a, b, c >>, d) = << a, b, c, d >>
<1>1. PICK s \in Seq(S) : s = << a, b, c >>
  BY TupleTypes
<1>2. PICK t \in Seq(S) : t = << a, b, c, d >>
  BY TupleTypes
<1>3. PICK n \in Nat : n = 3
  OBVIOUS
<1>4. Len(s) = n /\ Len(t) = n + 1
  BY <1>1, <1>2, <1>3, TupleLens
<1>5. /\ s[1] = a /\ s[2] = b /\ s[3] = c
      /\ t[1] = a /\ t[2] = b /\ t[3] = c /\ t[4] = d
  BY <1>1, <1>2
<1>6. (\A i \in 1 .. n : t[i] = s[i]) /\ t[n + 1] = d
  BY <1>3, <1>5
<1>7. Append(s, d) = t
  BY <1>4, <1>6, AppendIs
<1> QED
  BY <1>1, <1>2, <1>7, Zenon

LEMMA Tuple5 ==
  ASSUME NEW S, NEW a \in S, NEW b \in S, NEW c \in S, NEW d \in S, NEW e \in S
  PROVE  Append(<< a, b, c, d >>, e) = << a, b, c, d, e >>
<1>1. PICK s \in Seq(S) : s = << a, b, c, d >>
  BY TupleTypes
<1>2. PICK t \in Seq(S) : t = << a, b, c, d, e >>
  BY TupleTypes
<1>3. PICK n \in Nat : n = 4
  OBVIOUS
<1>4. Len(s) = n /\ Len(t) = n + 1
  BY <1>1, <1>2, <1>3, TupleLens
<1>5. /\ s[1] = a /\ s[2] = b /\ s[3] = c /\ s[4] = d
      /\ t[1] = a /\ t[2] = b /\ t[3] = c /\ t[4] = d /\ t[5] = e
  BY <1>1, <1>2
<1>6. (\A i \in 1 .. n : t[i] = s[i]) /\ t[n + 1] = e
  BY <1>3, <1>5
<1>7. Append(s, e) = t
  BY <1>4, <1>6, AppendIs
<1> QED
  BY <1>1, <1>2, <1>7, Zenon

LEMMA Uint64Type == \A v \in Int : Uint64(v) \in Int
<1>1. PICK m \in Nat \ {0} : m = Pack!Values[W64]
  BY LayoutFacts
<1>2. \A v \in Int : v % m \in Int
  OBVIOUS
<1> QED
  BY <1>1, <1>2 DEF Uint64

\* A context that has a message of n numbers, after one more.
Begun(c, n, f) == Wrote(c, Opening(n), f)

LEMMA BegunMore ==
  ASSUME NEW n \in 0 .. 5, NEW c, NEW f, Begun(c, n, f), NEW x \in Int
  PROVE  Begun(PutUint(c, x), n, Append(f, Uint64(x)))
BY SmallNumbers, OpeningType, WroteMore DEF Begun

LEMMA BegunSends ==
  ASSUME NEW n \in 0 .. 5, NEW c, NEW f, Begun(c, n, f), Len(f) = n
  PROVE  Decode(SubSeq(c.buf.buf, 1, c.buf.size)) = f
<1>1. Len(f) \in P!Unsigned(W32) /\ Wrote(c, Opening(Len(f)), f)
  BY SmallNumbers DEF Begun
<1> QED
  BY <1>1, SentDecodes

Sendable(u) ==
  LET w == mux_write_outgoing_msg(u) IN Decode(SubSeq(w.msg.buf, 1, w.len)) = Fields(u)

(***************************************************************************)
(* What mux_write_outgoing_msg writes is decoded to the fields.            *)
(***************************************************************************)
LEMMA MessageDecodes ==
  ASSUME NEW u, HasNumbers(u)
  PROVE  Sendable(u)
<1> DEFINE w == mux_write_outgoing_msg(u)
<1>1. \A n \in 0 .. 5 : Begun(PutArray(NewContext, n), n, << >>)
  BY SmallNumbers, WroteOpening DEF Begun
<1>2. /\ 0 \in Int /\ SHUTDOWN = 5 /\ DISPLAY_UPDATE = 0 /\ DISPLAY_SWITCH = 1
      /\ Uint64(5) = 5 /\ Uint64(0) = 0 /\ Uint64(1) = 1
  BY SmallNumbers DEF SHUTDOWN, DISPLAY_UPDATE, DISPLAY_SWITCH
<1>3. CASE u = << >>
  <2> DEFINE d == PutUint(PutArray(NewContext, 1), 5)
  <2>1. Begun(d, 1, Append(<< >>, 5))
    <3>1. PICK n \in 0 .. 5 : n = 1
      OBVIOUS
    <3>2. PICK x \in Int : x = 5
      OBVIOUS
    <3> QED
      BY <1>1, <1>2, <3>1, <3>2, BegunMore
  <2>2. w.msg = d.buf /\ w.len = d.buf.size /\ Fields(u) = << 5 >>
    BY <1>2, <1>3 DEF mux_write_outgoing_msg, mux_write_outgoing_shutdown_msg, NewContext, Fields
  <2> HIDE DEF d, w
  <2>3. Append(<< >>, 5) = << 5 >> /\ Len(<< 5 >>) = 1
    BY Tuple1, TupleLens
  <2>4. Decode(SubSeq(d.buf.buf, 1, d.buf.size)) = << 5 >>
    BY <2>1, <2>3, BegunSends
  <2> QED
    BY <2>2, <2>4 DEF Sendable, w
<1>4. CASE u # << >> /\ u[1].type = DISPLAY_UPDATE
  <2> DEFINE v == u[1]
             d1 == PutUint(PutArray(NewContext, 5), 0)
             d2 == PutUint(d1, v.x1)
             d3 == PutUint(d2, v.y1)
             d4 == PutUint(d3, v.x2 - v.x1)
             d5 == PutUint(d4, v.y2 - v.y1)
  <2>1. w.msg = d5.buf /\ w.len = d5.buf.size
    BY <1>2, <1>4 DEF mux_write_outgoing_msg, mux_write_outgoing_update_msg, NewContext
  <2>2. /\ v.x1 \in Int /\ v.y1 \in Int /\ v.x2 \in Int /\ v.y2 \in Int
        /\ v.x2 - v.x1 \in Int /\ v.y2 - v.y1 \in Int
    BY <1>4 DEF HasNumbers
  <2>3. PICK a \in Int, b \in Int, x \in Int, y \in Int :
           /\ a = Uint64(v.x1) /\ b = Uint64(v.y1)
           /\ x = Uint64(v.x2 - v.x1) /\ y = Uint64(v.y2 - v.y1)
    BY <2>2, Uint64Type
  <2>4. Fields(u) = << 0, a, b, x, y >>
    BY <1>2, <1>4, <2>3 DEF Fields
  <2> HIDE DEF w, v
  <2>5. PICK n \in 0 .. 5 : n = 5
    OBVIOUS
  <2>6. Begun(d1, n, << 0 >>)
    <3>1. Append(<< >>, 0) = << 0 >> /\ Append(<< >>, 1) = << 1 >>
      BY Tuple1
    <3> QED
      BY <1>1, <1>2, <2>5, <3>1, BegunMore
  <2> HIDE DEF d1
  <2>7. Begun(d2, n, << 0, a >>)
    <3>1. Begun(d2, n, Append(<< 0 >>, a))
      BY <2>2, <2>3, <2>6, BegunMore
    <3>2. Append(<< 0 >>, a) = << 0, a >>
      BY <1>2, <2>2, Tuple2
    <3> QED
      BY <3>1, <3>2, Zenon
  <2> HIDE DEF d2
  <2>8. Begun(d3, n, << 0, a, b >>)
    <3>1. Begun(d3, n, Append(<< 0, a >>, b))
      BY <2>2, <2>3, <2>7, BegunMore
    <3>2. Append(<< 0, a >>, b) = << 0, a, b >>
      BY <1>2, <2>2, Tuple3
    <3> QED
      BY <3>1, <3>2, Zenon
  <2> HIDE DEF d3
  <2>9. Begun(d4, n, << 0, a, b, x >>)
    <3>1. Begun(d4, n, Append(<< 0, a, b >>, x))
      BY <2>2, <2>3, <2>8, BegunMore
    <3>2. Append(<< 0, a, b >>, x) = << 0, a, b, x >>
      BY <1>2, <2>2, Tuple4
    <3> QED
      BY <3>1, <3>2, Zenon
  <2> HIDE DEF d4
  <2>10. Begun(d5, n, << 0, a, b, x, y >>)
    <3>1. Begun(d5, n, Append(<< 0, a, b, x >>, y))
      BY <2>2, <2>3, <2>9, BegunMore
    <3>2. Append(<< 0, a, b, x >>, y) = << 0, a, b, x, y >>
      BY <1>2, <2>2, Tuple5
    <3> QED
      BY <3>1, <3>2, Zenon
  <2> HIDE DEF d5
  <2>11. Len(<< 0, a, b, x, y >>) = n
    BY <2>5, TupleLens
  <2>12. Decode(SubSeq(d5.buf.buf, 1, d5.buf.size)) = << 0, a, b, x, y >>
    BY <2>10, <2>11, BegunSends
  <2> QED
    BY <2>1, <2>4, <2>12 DEF Sendable, w
<1>5. CASE u # << >> /\ u[1].type # DISPLAY_UPDATE
  <2> DEFINE v == u[1]
             d1 == PutUint(PutArray(NewContext, 4), 1)
             d2 == PutUint(d1, v.format)
             d3 == PutUint(d2, v.w)
             d4 == PutUint(d3, v.h)
  <2>1. w.msg = d4.buf /\ w.len = d4.buf.size
    BY <1>2, <1>5 DEF mux_write_outgoing_msg, mux_write_outgoing_switch_msg, NewContext
  <2>2. v.format \in Int /\ v.w \in Int /\ v.h \in Int /\ 1 \in Int
    BY <1>5 DEF HasNumbers
  <2>3. PICK a \in Int, x \in Int, y \in Int :
           a = Uint64(v.format) /\ x = Uint64(v.w) /\ y = Uint64(v.h)
    BY <2>2, Uint64Type
  <2>4. Fields(u) = << 1, a, x, y >>
    BY <1>2, <1>5, <2>3 DEF Fields
  <2> HIDE DEF w, v
  <2>5. PICK n \in 0 .. 5 : n = 4
    OBVIOUS
  <2>6. Begun(d1, n, << 1 >>)
    <3>1. Append(<< >>, 1) = << 1 >>
      BY Tuple1
    <3> QED
      BY <1>1, <1>2, <2>2, <2>5, <3>1, BegunMore
  <2> HIDE DEF d1
  <2>7. Begun(d2, n, << 1, a >>)
    <3>1. Begun(d2, n, Append(<< 1 >>, a))
      BY <2>2, <2>3, <2>6, BegunMore
    <3>2. Append(<< 1 >>, a) = << 1, a >>
      BY <1>2, <2>2, Tuple2
    <3> QED
      BY <3>1, <3>2, Zenon
  <2> HIDE DEF d2
  <2>8. Begun(d3, n, << 1, a, x >>)
    <3>1. Begun(d3, n, Append(<< 1, a >>, x))
      BY <2>2, <2>3, <2>7, BegunMore
    <3>2. Append(<< 1, a >>, x) = << 1, a, x >>
      BY <1>2, <2>2, Tuple3
    <3> QED
      BY <3>1, <3>2, Zenon
  <2> HIDE DEF d3
  <2>9. Begun(d4, n, << 1, a, x, y >>)
    <3>1. Begun(d4, n, Append(<< 1, a, x >>, y))
      BY <2>2, <2>3, <2>8, BegunMore
    <3>2. Append(<< 1, a, x >>, y) = << 1, a, x, y >>
      BY <1>2, <2>2, Tuple4
    <3> QED
      BY <3>1, <3>2, Zenon
  <2> HIDE DEF d4
  <2>10. Len(<< 1, a, x, y >>) = n
    BY <2>5, TupleLens
  <2>11. Decode(SubSeq(d4.buf.buf, 1, d4.buf.size)) = << 1, a, x, y >>
    BY <2>9, <2>10, BegunSends
  <2> QED
    BY <2>1, <2>4, <2>11 DEF Sendable, w
<1> QED
  BY <1>3, <1>4, <1>5

-----------------------------------------------------------------------------
(* Incoming messages.                                                      *)

\* The recursive function of Written.
Putting(p, first, f, n) ==
  p = [k \in 0 .. n |-> IF k = 0 THEN first ELSE PutUint(p[k - 1], f[k])]

PuttingOf(first, f, n) == CHOOSE p : Putting(p, first, f, n)

LEMMA PuttingExists ==
  ASSUME NEW first, NEW f, NEW n \in Nat
  PROVE  \E p : Putting(p, first, f, n)
<1> DEFINE T == {k \in Nat : \E p : Putting(p, first, f, k)}
<1>1. 0 \in T
  <2> DEFINE p == [k \in 0 .. 0 |-> first]
  <2>1. Putting(p, first, f, 0)
    BY DEF Putting
  <2> QED
    BY <2>1
<1>2. ASSUME NEW k \in Nat, k \in T
      PROVE  k + 1 \in T
  <2>1. PICK p : Putting(p, first, f, k)
    BY <1>2
  <2> DEFINE q == [i \in 0 .. k + 1 |-> IF i = k + 1 THEN PutUint(p[k], f[k + 1]) ELSE p[i]]
  <2>2. Putting(q, first, f, k + 1)
    BY <2>1 DEF Putting
  <2> HIDE DEF q
  <2>3. \E h : Putting(h, first, f, k + 1)
    BY <2>2
  <2> QED
    BY <2>3
<1>3. Nat \subseteq T
  <2> HIDE DEF T
  <2> QED
    BY <1>1, <1>2, LayoutHolds, P!NatInduct
<1> QED
  BY <1>3

LEMMA PuttingSteps ==
  ASSUME NEW first, NEW f, NEW n \in Nat
  PROVE  /\ PuttingOf(first, f, n)[0] = first
         /\ \A k \in 1 .. n : \A j \in 0 .. n : j = k - 1 =>
              PuttingOf(first, f, n)[k] = PutUint(PuttingOf(first, f, n)[j], f[k])
<1> DEFINE p == PuttingOf(first, f, n)
<1>1. Putting(p, first, f, n)
  BY PuttingExists DEF PuttingOf
<1> HIDE DEF p
<1>2. p = [k \in 0 .. n |-> IF k = 0 THEN first ELSE PutUint(p[k - 1], f[k])]
  BY <1>1 DEF Putting
<1>3. p[0] = first
  BY <1>2
<1>4. ASSUME NEW k \in 1 .. n, NEW j \in 0 .. n, j = k - 1
      PROVE  p[k] = PutUint(p[j], f[k])
  BY <1>2, <1>4
<1> QED
  BY <1>3, <1>4 DEF p

\* The array of an answer, or its numbers alone.
Beginning(f, bare) == IF bare THEN << >> ELSE Opening(Len(f))

LEMMA WrittenByPutting ==
  ASSUME NEW f, NEW bare \in BOOLEAN
  PROVE  \E p : /\ p = PuttingOf(IF bare THEN NewContext ELSE PutArray(NewContext, Len(f)), f, Len(f))
                /\ Written(f, bare) = Text(p[Len(f)].buf)
BY DEF Written, PuttingOf, Putting, NewContext, Text

IsWritten(data, f, bare) ==
  /\ data \in Seq(Stored)
  /\ \E at : Laid(data, Beginning(f, bare), f, at) /\ at[Len(f)] = Len(data)

LEMMA Uint64Same ==
  ASSUME NEW v \in Numbers64
  PROVE  Uint64(v) = v /\ v \in Int
<1>1. PICK m \in Nat \ {0} : m = Pack!Values[W64]
  BY LayoutFacts
<1>2. v \in 0 .. m - 1
  BY <1>1, SameNumbers DEF Numbers64, P!Unsigned
<1>3. v % m = v
  BY <1>2
<1> QED
  BY <1>1, <1>2, <1>3 DEF Uint64

LEMMA AnswerIsWritten ==
  ASSUME NEW f \in Seq(Numbers64), Len(f) \in P!Unsigned(W32), NEW bare \in BOOLEAN
  PROVE  IsWritten(Written(f, bare), f, bare)
<1>1. PICK n \in Nat : n = Len(f)
  OBVIOUS
<1> DEFINE first == IF bare THEN NewContext ELSE PutArray(NewContext, Len(f))
           p == PuttingOf(first, f, Len(f))
           s == Beginning(f, bare)
<1>2. Written(f, bare) = Text(p[Len(f)].buf)
  BY WrittenByPutting
<1>3. Wrote(first, s, << >>) /\ s \in Seq(Byte)
  <2>1. CASE bare
    <3>1. << >> \in Seq(Byte)
      OBVIOUS
    <3> QED
      BY <2>1, <3>1, WroteNothing DEF Beginning
  <2>2. CASE ~bare
    BY <2>2, WroteOpening, OpeningType DEF Beginning
  <2> QED
    BY <2>1, <2>2
<1> HIDE DEF first
<1>4. /\ p[0] = first
      /\ \A k \in 1 .. n : \A j \in 0 .. n : j = k - 1 => p[k] = PutUint(p[j], f[k])
  BY <1>1, PuttingSteps
<1> HIDE DEF p, s
<1> DEFINE T == {k \in Nat : k <= n => Wrote(p[k], s, Front(f, k))}
<1>5. 0 \in T
  BY <1>3, <1>4, FrontFacts
<1>6. ASSUME NEW k \in Nat, k \in T
      PROVE  k + 1 \in T
  <2>1. ASSUME k + 1 <= n
        PROVE  Wrote(p[k + 1], s, Front(f, k + 1))
    <3>1. PICK m \in 1 .. n : m = k + 1 /\ k = m - 1 /\ k \in 0 .. n
      BY <2>1
    <3>2. Wrote(p[k], s, Front(f, k))
      BY <1>6, <3>1
    <3>3. p[m] = PutUint(p[k], f[m])
      BY <1>4, <3>1
    <3>4. f[m] \in Numbers64 /\ Uint64(f[m]) = f[m] /\ f[m] \in Int
      BY <1>1, Uint64Same
    <3>5. Wrote(PutUint(p[k], f[m]), s, Append(Front(f, k), Uint64(f[m])))
      BY <1>3, <3>2, <3>4, WroteMore
    <3>6. Front(f, m) = Append(Front(f, k), f[m])
      BY <1>1, <3>1, FrontFacts
    <3>7. Wrote(p[m], s, Front(f, m))
      BY <3>3, <3>4, <3>5, <3>6
    <3> QED
      BY <3>1, <3>7
  <2> QED
    BY <2>1
<1>7. Nat \subseteq T
  <2> HIDE DEF T
  <2> QED
    BY <1>5, <1>6, LayoutHolds, P!NatInduct
<1>8. Wrote(p[n], s, f)
  BY <1>1, <1>7, FrontFacts
<1>9. /\ Text(p[n].buf) \in Seq(Stored)
      /\ \E at : Laid(Text(p[n].buf), s, f, at) /\ at[Len(f)] = Len(Text(p[n].buf))
  BY <1>8, TextType DEF Wrote
<1> QED
  BY <1>1, <1>2, <1>9 DEF IsWritten, s, p, first

\* The number k is there, and the handlers can hold it.
Readable(f, k) == k <= Len(f) /\ f[k] < Pack!Values[W32]

LEMMA ReadsNext ==
  ASSUME NEW data \in Seq(Stored), NEW start, NEW f \in Seq(Numbers64), NEW at,
         Laid(data, start, f, at), at[Len(f)] = Len(data),
         NEW j \in Nat, j <= Len(f), NEW k \in Nat, k = j + 1
  PROVE  /\ Readable(f, k) => Pack!cmp_read_uint(Reader(data, at[j])) = Pack!Value(Reader(data, at[k]), f[k])
         /\ ~Readable(f, k) => ~Pack!cmp_read_uint(Reader(data, at[j])).ok
<1>1. CASE k <= Len(f)
  <2>1. k \in 1 .. Len(f) /\ j = k - 1 /\ j \in 0 .. Len(f)
    BY <1>1
  <2>2. /\ at[j] \in Nat /\ at[k] \in Nat /\ f[k] \in P!Unsigned(W64)
        /\ Stands(Enc(f[k]), data, at[j], at[k])
    BY <2>1, LaidPiece DEF Numbers64
  <2>3. PICK p \in Nat : p = at[j]
    BY <2>2
  <2>4. PICK q \in Nat : q = at[k]
    BY <2>2
  <2>5. PICK v \in P!Unsigned(W64) : v = f[k]
    BY <2>2
  <2>6. Stands(Enc(v), data, p, q)
    BY <2>2, <2>3, <2>4, <2>5
  <2>7. /\ v < Pack!Values[W32] =>
             Pack!cmp_read_uint(Reader(data, p)) = Pack!Value(Reader(data, q), v)
        /\ ~(v < Pack!Values[W32]) => ~Pack!cmp_read_uint(Reader(data, p)).ok
    BY <2>6, ReadsUint
  <2> QED
    BY <1>1, <2>3, <2>4, <2>5, <2>7 DEF Readable
<1>2. CASE ~(k <= Len(f))
  <2>1. j = Len(f)
    BY <1>2
  <2>2. ~Pack!cmp_read_uint(Reader(data, at[j])).ok
    BY <2>1, ReadsNothing
  <2> QED
    BY <1>2, <2>2 DEF Readable
<1> QED
  BY <1>1, <1>2

\* What r is when the number k was to be read.
Reading(data, f, at, k, r) ==
  /\ Readable(f, k) => r.ok = TRUE /\ r.ctx = Reader(data, at[k]) /\ r.val = f[k]
  /\ ~Readable(f, k) => ~r.ok

\* The whole data are numbers behind a start.
Numbered(data, f, at) ==
  /\ data \in Seq(Stored) /\ f \in Seq(Numbers64) /\ f # << >>
  /\ \E start : Laid(data, start, f, at) /\ at[Len(f)] = Len(data)

LEMMA ReadsAt ==
  ASSUME NEW data, NEW f, NEW at, Numbered(data, f, at)
  PROVE  /\ Reading(data, f, at, 2, Pack!cmp_read_uint(Reader(data, at[1])))
         /\ Readable(f, 2) => Reading(data, f, at, 3, Pack!cmp_read_uint(Reader(data, at[2])))
         /\ Readable(f, 3) => Reading(data, f, at, 4, Pack!cmp_read_uint(Reader(data, at[3])))
<1>1. ASSUME NEW j \in Nat, j <= Len(f), NEW k \in Nat, k = j + 1
      PROVE  Reading(data, f, at, k, Pack!cmp_read_uint(Reader(data, at[j])))
  <2>1. PICK start : Laid(data, start, f, at) /\ at[Len(f)] = Len(data)
    BY DEF Numbered
  <2>2. data \in Seq(Stored) /\ f \in Seq(Numbers64)
    BY DEF Numbered
  <2>3. PICK r : r = Pack!cmp_read_uint(Reader(data, at[j]))
    OBVIOUS
  <2>4. PICK x : x = Reader(data, at[k])
    OBVIOUS
  <2>5. PICK v : v = f[k]
    OBVIOUS
  <2>6. (Readable(f, k) => r = Pack!Value(x, v)) /\ (~Readable(f, k) => ~r.ok)
    BY <1>1, <2>1, <2>2, <2>3, <2>4, <2>5, ReadsNext
  <2>7. r = Pack!Value(x, v) => r.ok = TRUE /\ r.ctx = x /\ r.val = v
    BY DEF Pack!Value
  <2>8. /\ Readable(f, k) => r.ok = TRUE /\ r.ctx = x /\ r.val = v
        /\ ~Readable(f, k) => ~r.ok
    BY <2>6, <2>7
  <2> QED
    BY <2>3, <2>4, <2>5, <2>8 DEF Reading
<1>2. PICK one \in Nat, two \in Nat, three \in Nat, four \in Nat :
         one = 1 /\ two = 2 /\ three = 3 /\ four = 4
  OBVIOUS
<1>3. Len(f) \in Nat /\ one <= Len(f) /\ two = one + 1 /\ three = two + 1 /\ four = three + 1
  BY <1>2 DEF Numbered
<1>4. (Readable(f, two) => two <= Len(f)) /\ (Readable(f, three) => three <= Len(f))
  BY DEF Readable
<1>5. Reading(data, f, at, two, Pack!cmp_read_uint(Reader(data, at[one])))
  BY <1>1, <1>3
<1>6. ASSUME Readable(f, two)
      PROVE  Reading(data, f, at, three, Pack!cmp_read_uint(Reader(data, at[two])))
  BY <1>1, <1>3, <1>4, <1>6
<1>7. ASSUME Readable(f, three)
      PROVE  Reading(data, f, at, four, Pack!cmp_read_uint(Reader(data, at[three])))
  BY <1>1, <1>3, <1>4, <1>7
<1> QED
  BY <1>2, <1>5, <1>6, <1>7

\* The handlers, from the place behind the type.
Behind(data, f, c) == \E at : Numbered(data, f, at) /\ c = Reader(data, at[1])

LEMMA BehindType ==
  ASSUME NEW data, NEW f, NEW c, Behind(data, f, c)
  PROVE  f \in Seq(Numbers64) /\ f # << >>
BY DEF Behind, Numbered

\* The results of reading three more numbers, each only if the one before was read.
Results(f, r2, r3, r4) ==
  /\ Readable(f, 2) => r2.ok = TRUE /\ r2.val = f[2]
  /\ ~Readable(f, 2) => ~r2.ok
  /\ Readable(f, 2) /\ Readable(f, 3) => r3.ok = TRUE /\ r3.val = f[3]
  /\ Readable(f, 2) /\ ~Readable(f, 3) => ~r3.ok
  /\ Readable(f, 2) /\ Readable(f, 3) /\ Readable(f, 4) => r4.ok = TRUE /\ r4.val = f[4]
  /\ Readable(f, 2) /\ Readable(f, 3) /\ ~Readable(f, 4) => ~r4.ok

LEMMA HandlersRead ==
  ASSUME NEW data, NEW f, NEW c, Behind(data, f, c),
         NEW r2, r2 = Pack!cmp_read_uint(c), NEW r3, r3 = Pack!cmp_read_uint(r2.ctx),
         NEW r4, r4 = Pack!cmp_read_uint(r3.ctx)
  PROVE  Results(f, r2, r3, r4)
<1>1. PICK at : Numbered(data, f, at) /\ c = Reader(data, at[1])
  BY DEF Behind
<1>2. Reading(data, f, at, 2, r2)
  BY <1>1, ReadsAt
<1>3. Readable(f, 2) => Reading(data, f, at, 3, r3)
  <2>1. ASSUME Readable(f, 2) PROVE r2.ctx = Reader(data, at[2])
    BY <1>2, <2>1 DEF Reading
  <2> QED
    BY <1>1, <2>1, ReadsAt
<1>4. Readable(f, 2) /\ Readable(f, 3) => Reading(data, f, at, 4, r4)
  <2>1. ASSUME Readable(f, 2), Readable(f, 3) PROVE r3.ctx = Reader(data, at[3])
    BY <1>3, <2>1 DEF Reading
  <2> QED
    BY <1>1, <2>1, ReadsAt
<1> QED
  BY <1>2, <1>3, <1>4 DEF Results, Reading

LEMMA EventFacts ==
  /\ MOUSE = 2 /\ KEYBOARD = 3 /\ DISPLAY_UPDATE_COMPLETE = 4
  /\ Arity(2) = 3 /\ Arity(3) = 2 /\ Arity(4) = 2
BY DEF MOUSE, KEYBOARD, DISPLAY_UPDATE_COMPLETE, Arity

LEMMA CompleteIs ==
  ASSUME NEW f \in Seq(Numbers64), f # << >>
  PROVE  /\ f[1] = 2 => (Complete(f) <=> Readable(f, 2) /\ Readable(f, 3) /\ Readable(f, 4))
         /\ f[1] \in {3, 4} => (Complete(f) <=> Readable(f, 2) /\ Readable(f, 3))
<1>1. PICK n \in Nat : n = Len(f)
  OBVIOUS
<1>2. \A i : i \in 2 .. 1 + 3 <=> i \in {2, 3, 4}
  OBVIOUS
<1>3. \A i : i \in 2 .. 1 + 2 <=> i \in {2, 3}
  OBVIOUS
<1>4. f[1] = 2 => (Complete(f) <=> Readable(f, 2) /\ Readable(f, 3) /\ Readable(f, 4))
  BY <1>1, <1>2, EventFacts DEF Complete, Readable
<1>5. f[1] \in {3, 4} => (Complete(f) <=> Readable(f, 2) /\ Readable(f, 3))
  BY <1>1, <1>3, EventFacts DEF Complete, Readable
<1> QED
  BY <1>4, <1>5

LEMMA ArgumentsAre ==
  ASSUME NEW f \in Seq(Numbers64)
  PROVE  /\ Len(f) >= 3 => SubSeq(f, 2, 3) = << f[2], f[3] >>
         /\ Len(f) >= 4 => SubSeq(f, 2, 4) = << f[2], f[3], f[4] >>
<1>1. ASSUME Len(f) >= 3
      PROVE  SubSeq(f, 2, 3) = << f[2], f[3] >>
  <2>1. /\ SubSeq(f, 2, 3) \in Seq(Numbers64) /\ Len(SubSeq(f, 2, 3)) = 2
        /\ SubSeq(f, 2, 3)[1] = f[2] /\ SubSeq(f, 2, 3)[2] = f[3]
    BY <1>1
  <2>2. PICK s \in Seq(Numbers64) : s = SubSeq(f, 2, 3)
    BY <2>1
  <2>3. f[2] \in Numbers64 /\ f[3] \in Numbers64
    BY <1>1
  <2>4. << f[2], f[3] >> \in Seq(Numbers64)
    BY <2>3, TupleTypes
  <2>5. PICK t \in Seq(Numbers64) : t = << f[2], f[3] >>
    BY <2>4
  <2>6. Len(t) = 2 /\ t[1] = f[2] /\ t[2] = f[3]
    BY <2>5
  <2>7. s = t
    BY <2>1, <2>2, <2>6
  <2> QED
    BY <2>2, <2>5, <2>7, Zenon
<1>2. ASSUME Len(f) >= 4
      PROVE  SubSeq(f, 2, 4) = << f[2], f[3], f[4] >>
  <2>1. /\ SubSeq(f, 2, 4) \in Seq(Numbers64) /\ Len(SubSeq(f, 2, 4)) = 3
        /\ SubSeq(f, 2, 4)[1] = f[2] /\ SubSeq(f, 2, 4)[2] = f[3] /\ SubSeq(f, 2, 4)[3] = f[4]
    BY <1>2
  <2>2. PICK s \in Seq(Numbers64) : s = SubSeq(f, 2, 4)
    BY <2>1
  <2>3. f[2] \in Numbers64 /\ f[3] \in Numbers64 /\ f[4] \in Numbers64
    BY <1>2
  <2>4. << f[2], f[3], f[4] >> \in Seq(Numbers64)
    BY <2>3, TupleTypes
  <2>5. PICK t \in Seq(Numbers64) : t = << f[2], f[3], f[4] >>
    BY <2>4
  <2>6. Len(t) = 3 /\ t[1] = f[2] /\ t[2] = f[3] /\ t[3] = f[4]
    BY <2>5
  <2>7. s = t
    BY <2>1, <2>2, <2>6
  <2> QED
    BY <2>2, <2>5, <2>7, Zenon
<1> QED
  BY <1>1, <1>2

\* The handlers of an input event and of a completed update.
LEMMA MouseIs ==
  ASSUME NEW data, NEW f, NEW c, Behind(data, f, c), f[1] = 2
  PROVE  mux_process_incoming_mouse_msg(c) =
           IF Complete(f) THEN Call(2, SubSeq(f, 2, 4)) ELSE << >>
<1> DEFINE r2 == Pack!cmp_read_uint(c)
           r3 == Pack!cmp_read_uint(r2.ctx)
           r4 == Pack!cmp_read_uint(r3.ctx)
<1>1. f \in Seq(Numbers64) /\ f # << >>
  BY BehindType
<1>2. mux_process_incoming_mouse_msg(c) =
        IF r2.ok /\ r3.ok /\ r4.ok THEN Call(2, << r2.val, r3.val, r4.val >>) ELSE << >>
  BY EventFacts DEF mux_process_incoming_mouse_msg
<1>3. Results(f, r2, r3, r4)
  BY HandlersRead
<1> HIDE DEF r2, r3, r4
<1>4. CASE Readable(f, 2) /\ Readable(f, 3) /\ Readable(f, 4)
  <2>1. Len(f) >= 4
    BY <1>1, <1>4 DEF Readable
  <2>2. PICK s : s = SubSeq(f, 2, 4)
    OBVIOUS
  <2>3. s = << r2.val, r3.val, r4.val >>
    BY <1>1, <1>3, <1>4, <2>1, <2>2, ArgumentsAre DEF Results
  <2>4. Complete(f)
    BY <1>1, <1>4, CompleteIs
  <2> QED
    BY <1>2, <1>3, <1>4, <2>2, <2>3, <2>4 DEF Results
<1>5. CASE ~(Readable(f, 2) /\ Readable(f, 3) /\ Readable(f, 4))
  <2>1. ~Complete(f)
    BY <1>1, <1>5, CompleteIs
  <2>2. ~(r2.ok /\ r3.ok /\ r4.ok)
    BY <1>3, <1>5 DEF Results
  <2> QED
    BY <1>2, <2>1, <2>2
<1> QED
  BY <1>4, <1>5

LEMMA KeyboardIs ==
  ASSUME NEW data, NEW f, NEW c, Behind(data, f, c), f[1] = 3
  PROVE  mux_process_incoming_kb_msg(c) =
           IF Complete(f) THEN Call(3, SubSeq(f, 2, 3)) ELSE << >>
<1> DEFINE r2 == Pack!cmp_read_uint(c)
           r3 == Pack!cmp_read_uint(r2.ctx)
           r4 == Pack!cmp_read_uint(r3.ctx)
<1>1. f \in Seq(Numbers64) /\ f # << >>
  BY BehindType
<1>2. mux_process_incoming_kb_msg(c) =
        IF r2.ok /\ r3.ok THEN Call(3, << r2.val, r3.val >>) ELSE << >>
  BY EventFacts DEF mux_process_incoming_kb_msg
<1>3. Results(f, r2, r3, r4)
  BY HandlersRead
<1> HIDE DEF r2, r3, r4
<1>4. CASE Readable(f, 2) /\ Readable(f, 3)
  <2>1. Len(f) >= 3
    BY <1>1, <1>4 DEF Readable
  <2>2. PICK s : s = SubSeq(f, 2, 3)
    OBVIOUS
  <2>3. s = << r2.val, r3.val >>
    BY <1>1, <1>3, <1>4, <2>1, <2>2, ArgumentsAre DEF Results
  <2>4. Complete(f)
    BY <1>1, <1>4, CompleteIs
  <2> QED
    BY <1>2, <1>3, <1>4, <2>2, <2>3, <2>4 DEF Results
<1>5. CASE ~(Readable(f, 2) /\ Readable(f, 3))
  <2>1. ~Complete(f)
    BY <1>1, <1>5, CompleteIs
  <2>2. ~(r2.ok /\ r3.ok)
    BY <1>3, <1>5 DEF Results
  <2> QED
    BY <1>2, <2>1, <2>2
<1> QED
  BY <1>4, <1>5

LEMMA CompletionIs ==
  ASSUME NEW data, NEW f, NEW c, NEW rate, Behind(data, f, c), f[1] = 4
  PROVE  mux_process_incoming_complete_msg(c, rate) = IF IsRate(f) THEN f[3] ELSE rate
<1> DEFINE r2 == Pack!cmp_read_uint(c)
           r3 == Pack!cmp_read_uint(r2.ctx)
           r4 == Pack!cmp_read_uint(r3.ctx)
<1>1. f \in Seq(Numbers64) /\ f # << >>
  BY BehindType
<1>2. mux_process_incoming_complete_msg(c, rate) =
        IF r2.ok /\ r2.val = 1 /\ r3.ok THEN r3.val ELSE rate
  BY DEF mux_process_incoming_complete_msg
<1>3. Results(f, r2, r3, r4)
  BY HandlersRead
<1> HIDE DEF r2, r3, r4
<1>4. IsRate(f) <=> Readable(f, 2) /\ Readable(f, 3) /\ f[2] = 1
  BY <1>1, EventFacts, CompleteIs DEF IsRate
<1>5. CASE IsRate(f)
  BY <1>2, <1>3, <1>4, <1>5 DEF Results
<1>6. CASE ~IsRate(f)
  BY <1>2, <1>3, <1>4, <1>6 DEF Results
<1> QED
  BY <1>5, <1>6

\* The effect p of the message that has the numbers f.
EffectOf(p, f, bare, rate) ==
  IF bare \/ f = << >> \/ f[1] >= Pack!Values[W32]
  THEN p.calls = << >> /\ p.framerate = rate /\ p.freed = FALSE
  ELSE /\ p.freed = TRUE
       /\ p.calls = IF IsEvent(f) THEN Call(f[1], SubSeq(f, 2, 1 + Arity(f[1]))) ELSE << >>
       /\ p.framerate = IF IsRate(f) THEN f[3] ELSE rate

\* The effect by what was read of the array and of the type.
ByReads(p, array, type, rate) ==
  /\ ~array.ok \/ ~type.ok => p.calls = << >> /\ p.framerate = rate /\ p.freed = FALSE
  /\ array.ok /\ type.ok =>
       /\ p.freed = TRUE
       /\ p.calls = IF type.val = 2 THEN mux_process_incoming_mouse_msg(type.ctx)
                    ELSE IF type.val = 3 THEN mux_process_incoming_kb_msg(type.ctx)
                    ELSE << >>
       /\ p.framerate = IF type.val = 4
                        THEN mux_process_incoming_complete_msg(type.ctx, rate) ELSE rate

LEMMA IncomingByReads ==
  ASSUME NEW data, NEW rate
  PROVE  LET array == Pack!cmp_read_array(Reader(data, 0))
         IN ByReads(mux_process_incoming_msg(data, rate), array, Pack!cmp_read_uint(array.ctx), rate)
<1>1. PICK array : array = Pack!cmp_read_array(Reader(data, 0))
  OBVIOUS
<1>2. PICK type : type = Pack!cmp_read_uint(array.ctx)
  OBVIOUS
<1>3. PICK p : p = mux_process_incoming_msg(data, rate)
  OBVIOUS
<1>4. Pack!cmp_init(mux_nnstr_init(data, Len(data))) = Reader(data, 0)
  BY DEF Pack!cmp_init, mux_nnstr_init, Reader
<1>5. MOUSE = 2 /\ KEYBOARD = 3 /\ DISPLAY_UPDATE_COMPLETE = 4
  BY EventFacts
<1>6. p = IF ~array.ok \/ ~type.ok
          THEN [calls |-> << >>, framerate |-> rate, freed |-> FALSE]
          ELSE [calls |-> CASE type.val = 2 -> mux_process_incoming_mouse_msg(type.ctx)
                            [] type.val = 3 -> mux_process_incoming_kb_msg(type.ctx)
                            [] OTHER -> << >>,
                framerate |-> IF type.val = 4
                              THEN mux_process_incoming_complete_msg(type.ctx, rate) ELSE rate,
                freed |-> TRUE]
  BY <1>1, <1>2, <1>3, <1>4, <1>5 DEF mux_process_incoming_msg
<1>7. ByReads(p, array, type, rate)
  BY <1>6 DEF ByReads
<1> QED
  BY <1>1, <1>2, <1>3, <1>7

LEMMA RefusedIs ==
  ASSUME NEW p, NEW array, NEW type, NEW rate, ByReads(p, array, type, rate),
         ~array.ok \/ ~type.ok, NEW f, NEW bare,
         bare \/ f = << >> \/ f[1] >= Pack!Values[W32]
  PROVE  EffectOf(p, f, bare, rate)
<1>1. p.calls = << >> /\ p.framerate = rate /\ p.freed = FALSE
  BY DEF ByReads
<1> QED
  BY <1>1 DEF EffectOf

LEMMA StartsAt ==
  ASSUME NEW data \in Seq(Stored), NEW f \in Seq(Numbers64), Len(f) \in P!Unsigned(W32),
         NEW at, Laid(data, Opening(Len(f)), f, at), at[Len(f)] = Len(data)
  PROVE  /\ Len(data) \in Nat \ {0}
         /\ Pack!cmp_read_array(Reader(data, 0)) = Pack!Value(Reader(data, at[0]), Len(f))
<1>1. PICK n \in P!Unsigned(W32) : n = Len(f)
  OBVIOUS
<1>2. PICK z \in Nat : z = 0
  OBVIOUS
<1>3. at[0] \in Nat /\ Stands(Opening(n), data, z, at[0])
  BY <1>1, <1>2, LaidStart
<1>4. Pack!cmp_read_array(Reader(data, z)) = Pack!Value(Reader(data, at[0]), n)
  BY <1>2, <1>3, ReadsOpening
<1>5. PICK l \in Nat \ {0} : l = Len(Opening(n))
  BY OpeningIsSome
<1>6. l <= Len(data) /\ Len(data) \in Nat
  BY <1>2, <1>3, <1>5 DEF Stands
<1> QED
  BY <1>1, <1>2, <1>4, <1>6

LEMMA IncomingIs ==
  ASSUME NEW data, NEW f \in Seq(Numbers64), Len(f) \in P!Unsigned(W32), NEW bare \in BOOLEAN,
         IsWritten(data, f, bare), NEW rate, NEW p, p = mux_process_incoming_msg(data, rate)
  PROVE  /\ Len(data) \in Nat
         /\ Len(data) > 0 => EffectOf(p, f, bare, rate)
         /\ Len(data) = 0 => bare
<1>1. PICK at : Laid(data, Beginning(f, bare), f, at) /\ at[Len(f)] = Len(data)
  BY DEF IsWritten
<1>2. data \in Seq(Stored) /\ Len(data) \in Nat /\ Len(f) \in Nat
  BY DEF IsWritten
<1>3. PICK array : array = Pack!cmp_read_array(Reader(data, 0))
  OBVIOUS
<1>4. PICK type : type = Pack!cmp_read_uint(array.ctx)
  OBVIOUS
<1>5. ByReads(p, array, type, rate)
  BY <1>3, <1>4, IncomingByReads
<1>6. CASE bare
  <2>1. Laid(data, << >>, f, at)
    BY <1>1, <1>6 DEF Beginning
  <2>2. PICK z \in Nat : z = 0 /\ z = at[0]
    <3>1. at[0] \in Nat /\ Stands(<< >>, data, 0, at[0])
      BY <2>1, LaidStart
    <3>2. at[0] = 0 + Len(<< >>) /\ Len(<< >>) = 0
      BY <3>1, TupleLens DEF Stands
    <3> QED
      BY <3>1, <3>2
  <2>3. ASSUME Len(data) > 0
        PROVE  EffectOf(p, f, bare, rate)
    <3>1. Len(f) # 0
      BY <1>1, <2>2, <2>3
    <3>2. PICK k \in 1 .. Len(f) : k = 1
      BY <1>2, <3>1
    <3>3. /\ at[k] \in Nat /\ f[k] \in P!Unsigned(W64) /\ Stands(Enc(f[k]), data, at[0], at[k])
      <4>1. PICK j \in 0 .. Len(f) : /\ j = k - 1 /\ at[j] \in Nat /\ at[k] \in Nat
                                     /\ f[k] \in Numbers64
                                     /\ Stands(Enc(f[k]), data, at[j], at[k])
        BY <2>1, LaidPiece
      <4>2. j = 0
        BY <3>2, <4>1
      <4> QED
        BY <4>1, <4>2 DEF Numbers64
    <3>4. ~Pack!cmp_read_array(Reader(data, z)).ok
      BY <1>2, <2>2, <3>3, ReadsUint
    <3>5. ~array.ok
      BY <1>3, <2>2, <3>4
    <3> QED
      BY <1>5, <1>6, <3>5, RefusedIs
  <2> QED
    BY <1>2, <1>6, <2>3
<1>7. CASE ~bare
  <2>1. Laid(data, Opening(Len(f)), f, at)
    BY <1>1, <1>7 DEF Beginning
  <2>2. Len(data) \in Nat \ {0} /\ array = Pack!Value(Reader(data, at[0]), Len(f))
    BY <1>1, <1>2, <1>3, <2>1, StartsAt
  <2>3. array.ok = TRUE /\ array.ctx = Reader(data, at[0])
    BY <2>2 DEF Pack!Value
  <2>4. CASE f = << >>
    <3>1. Len(f) = 0
      BY <2>4
    <3>2. array.ctx = Reader(data, Len(data))
      BY <1>1, <2>3, <3>1
    <3>3. ~type.ok
      BY <1>2, <1>4, <3>2, ReadsNothing
    <3>4. EffectOf(p, f, bare, rate)
      BY <1>5, <2>4, <3>3, RefusedIs
    <3> QED
      BY <2>2, <3>4
  <2>5. CASE f # << >>
    <3>1. PICK one \in Nat, zero \in Nat : one = 1 /\ zero = 0
      OBVIOUS
    <3>2. one = zero + 1 /\ zero <= Len(f) /\ one <= Len(f)
      BY <1>2, <2>5, <3>1
    <3>3. PICK x : x = Reader(data, at[one])
      OBVIOUS
    <3>4. PICK v : v = f[one]
      OBVIOUS
    <3>5. /\ Readable(f, one) => type = Pack!Value(x, v)
          /\ ~Readable(f, one) => ~type.ok
      <4>1. type = Pack!cmp_read_uint(Reader(data, at[zero]))
        BY <1>4, <2>3, <3>1
      <4> QED
        BY <1>1, <1>2, <2>1, <3>2, <3>3, <3>4, <4>1, ReadsNext
    <3>6. v \in Nat /\ Pack!Values[W32] \in Nat
      <4>1. v \in Numbers64
        BY <1>2, <3>1, <3>2, <3>4
      <4> QED
        BY <4>1, LayoutFacts DEF Numbers64, P!Unsigned
    <3>7. CASE Readable(f, one)
      <4>1. type.ok = TRUE /\ type.ctx = x /\ type.val = v
        BY <3>5, <3>7 DEF Pack!Value
      <4>2. Behind(data, f, x)
        BY <1>1, <1>2, <2>1, <2>5, <3>1, <3>3 DEF Behind, Numbered
      <4>3. /\ p.freed = TRUE
            /\ p.calls = IF v = 2 THEN mux_process_incoming_mouse_msg(x)
                         ELSE IF v = 3 THEN mux_process_incoming_kb_msg(x) ELSE << >>
            /\ p.framerate = IF v = 4 THEN mux_process_incoming_complete_msg(x, rate) ELSE rate
        BY <1>5, <2>3, <4>1 DEF ByReads
      <4>4. v = f[1] /\ v < Pack!Values[W32]
        BY <3>1, <3>4, <3>7 DEF Readable
      <4>5. p.calls = IF IsEvent(f) THEN Call(f[1], SubSeq(f, 2, 1 + Arity(f[1]))) ELSE << >>
        <5>1. CASE v = 2
          <6>1. p.calls = IF Complete(f) THEN Call(2, SubSeq(f, 2, 4)) ELSE << >>
            BY <4>2, <4>3, <4>4, <5>1, MouseIs
          <6>2. 1 + Arity(f[1]) = 4 /\ (IsEvent(f) <=> Complete(f))
            BY <4>4, <5>1, EventFacts DEF IsEvent
          <6> QED
            BY <4>4, <5>1, <6>1, <6>2
        <5>2. CASE v = 3
          <6>1. p.calls = IF Complete(f) THEN Call(3, SubSeq(f, 2, 3)) ELSE << >>
            <7>1. p.calls = mux_process_incoming_kb_msg(x)
              BY <4>3, <5>2
            <7> QED
              BY <4>2, <4>4, <5>2, <7>1, KeyboardIs
          <6>2. 1 + Arity(f[1]) = 3 /\ (IsEvent(f) <=> Complete(f))
            BY <4>4, <5>2, EventFacts DEF IsEvent
          <6> QED
            BY <4>4, <5>2, <6>1, <6>2
        <5>3. CASE v # 2 /\ v # 3
          BY <4>3, <4>4, <5>3, EventFacts DEF IsEvent
        <5> QED
          BY <5>1, <5>2, <5>3
      <4>6. p.framerate = IF IsRate(f) THEN f[3] ELSE rate
        <5>1. CASE v = 4
          <6>1. p.framerate = mux_process_incoming_complete_msg(x, rate)
            BY <4>3, <5>1
          <6>2. f[1] = 4
            BY <4>4, <5>1
          <6>3. mux_process_incoming_complete_msg(x, rate) = IF IsRate(f) THEN f[3] ELSE rate
            BY <4>2, <6>2, CompletionIs
          <6> QED
            BY <6>1, <6>3
        <5>2. CASE v # 4
          BY <4>3, <4>4, <5>2, EventFacts DEF IsRate
        <5> QED
          BY <5>1, <5>2
      <4>7. ~(f[1] >= Pack!Values[W32])
        BY <3>6, <4>4
      <4>8. EffectOf(p, f, bare, rate)
        BY <1>7, <2>5, <4>3, <4>5, <4>6, <4>7 DEF EffectOf
      <4> QED
        BY <2>2, <4>8
    <3>8. CASE ~Readable(f, one)
      <4>1. f[1] >= Pack!Values[W32]
        BY <1>2, <3>1, <3>2, <3>4, <3>6, <3>8 DEF Readable
      <4>2. EffectOf(p, f, bare, rate)
        BY <1>5, <3>5, <3>8, <4>1, RefusedIs
      <4> QED
        BY <2>2, <4>2
    <3> QED
      BY <3>7, <3>8
  <2> QED
    BY <2>4, <2>5
<1> QED
  BY <1>6, <1>7

-----------------------------------------------------------------------------
(* The answers that were taken, one after the other.                       *)

\* The recursive function of HeardOf.
Unheard == [calls |-> << >>, framerate |-> 20, held |-> 0]
Hearing(e, answers, n) ==
  e = [k \in 0 .. n |-> IF k = 0 THEN Unheard ELSE Heard(e[k - 1], answers[k])]
HearingOf(answers, n) == CHOOSE e : Hearing(e, answers, n)

LEMMA HeardByHearing ==
  ASSUME NEW answers, NEW n
  PROVE  HeardOf(answers, n) = HearingOf(answers, n)[n]
BY DEF HeardOf, HearingOf, Hearing, Unheard

LEMMA HearingExists ==
  ASSUME NEW answers, NEW n \in Nat
  PROVE  \E e : Hearing(e, answers, n)
<1> DEFINE T == {k \in Nat : \E e : Hearing(e, answers, k)}
<1>1. 0 \in T
  <2> DEFINE e == [k \in 0 .. 0 |-> Unheard]
  <2>1. Hearing(e, answers, 0)
    BY DEF Hearing
  <2> QED
    BY <2>1
<1>2. ASSUME NEW k \in Nat, k \in T
      PROVE  k + 1 \in T
  <2>1. PICK e : Hearing(e, answers, k)
    BY <1>2
  <2> DEFINE g == [i \in 0 .. k + 1 |-> IF i = k + 1 THEN Heard(e[k], answers[k + 1]) ELSE e[i]]
  <2>2. Hearing(g, answers, k + 1)
    BY <2>1 DEF Hearing
  <2> HIDE DEF g
  <2>3. \E h : Hearing(h, answers, k + 1)
    BY <2>2
  <2> QED
    BY <2>3
<1>3. Nat \subseteq T
  <2> HIDE DEF T
  <2> QED
    BY <1>1, <1>2, LayoutHolds, P!NatInduct
<1> QED
  BY <1>3

LEMMA HearingSteps ==
  ASSUME NEW answers, NEW n \in Nat
  PROVE  /\ HearingOf(answers, n)[0] = Unheard
         /\ \A k \in 1 .. n : \A j \in 0 .. n : j = k - 1 =>
              HearingOf(answers, n)[k] = Heard(HearingOf(answers, n)[j], answers[k])
<1> DEFINE e == HearingOf(answers, n)
<1>1. Hearing(e, answers, n)
  BY HearingExists DEF HearingOf
<1> HIDE DEF e
<1>2. e = [k \in 0 .. n |-> IF k = 0 THEN Unheard ELSE Heard(e[k - 1], answers[k])]
  BY <1>1 DEF Hearing
<1>3. e[0] = Unheard
  BY <1>2
<1>4. ASSUME NEW k \in 1 .. n, NEW j \in 0 .. n, j = k - 1
      PROVE  e[k] = Heard(e[j], answers[k])
  BY <1>2, <1>4
<1> QED
  BY <1>3, <1>4 DEF e

\* Only the answers themselves count, not how many come after them.
Agree(a, b, h) == \A i \in 1 .. h : a[i] = b[i]

LEMMA HearingAgrees ==
  ASSUME NEW a, NEW b, NEW h \in Nat, Agree(a, b, h),
         NEW m \in Nat, NEW n \in Nat, h <= m, h <= n
  PROVE  HearingOf(a, m)[h] = HearingOf(b, n)[h]
<1> DEFINE d == HearingOf(a, m)
           e == HearingOf(b, n)
<1>1. /\ d[0] = Unheard /\ e[0] = Unheard
      /\ \A k \in 1 .. m : \A j \in 0 .. m : j = k - 1 => d[k] = Heard(d[j], a[k])
      /\ \A k \in 1 .. n : \A j \in 0 .. n : j = k - 1 => e[k] = Heard(e[j], b[k])
  BY HearingSteps
<1> HIDE DEF d, e
<1> DEFINE T == {k \in Nat : k <= h => d[k] = e[k]}
<1>2. 0 \in T
  BY <1>1
<1>3. ASSUME NEW k \in Nat, k \in T
      PROVE  k + 1 \in T
  <2>1. ASSUME k + 1 <= h
        PROVE  d[k + 1] = e[k + 1]
    <3>1. PICK g \in 1 .. h : g = k + 1 /\ k = g - 1
      BY <2>1
    <3>2. g \in 1 .. m /\ g \in 1 .. n /\ k \in 0 .. m /\ k \in 0 .. n
      BY <3>1
    <3>3. d[g] = Heard(d[k], a[g]) /\ e[g] = Heard(e[k], b[g])
      BY <1>1, <3>1, <3>2
    <3>4. d[k] = e[k] /\ a[g] = b[g]
      BY <1>3, <3>1 DEF Agree
    <3> QED
      BY <3>1, <3>3, <3>4
  <2> QED
    BY <2>1
<1>4. Nat \subseteq T
  <2> HIDE DEF T
  <2> QED
    BY <1>2, <1>3, LayoutHolds, P!NatInduct
<1>5. d[h] = e[h]
  BY <1>4
<1> QED
  BY <1>5 DEF d, e

LEMMA HeardMore ==
  ASSUME NEW answers, NEW h \in Nat, NEW g \in Nat, g = h + 1
  PROVE  HeardOf(answers, g) = Heard(HeardOf(answers, h), answers[g])
<1>1. g \in 1 .. g /\ h \in 0 .. g /\ h = g - 1 /\ h <= g
  OBVIOUS
<1>2. HearingOf(answers, g)[g] = Heard(HearingOf(answers, g)[h], answers[g])
  BY <1>1, HearingSteps
<1>3. HearingOf(answers, g)[h] = HearingOf(answers, h)[h]
  <2>1. Agree(answers, answers, h) /\ h <= h
    BY DEF Agree
  <2> QED
    BY <1>1, <2>1, HearingAgrees
<1> QED
  BY <1>2, <1>3, HeardByHearing

LEMMA HeardSame ==
  ASSUME NEW S, NEW answers \in Seq(S), NEW a \in S, NEW h \in Nat, h <= Len(answers)
  PROVE  HeardOf(Append(answers, a), h) = HeardOf(answers, h)
<1>1. Agree(Append(answers, a), answers, h) /\ h <= h
  BY DEF Agree
<1>2. HearingOf(Append(answers, a), h)[h] = HearingOf(answers, h)[h]
  BY <1>1, HearingAgrees
<1> QED
  BY <1>2, HeardByHearing

LEMMA NothingHeard ==
  ASSUME NEW answers
  PROVE  HeardOf(answers, 0) = Unheard
<1>1. PICK n \in Nat : n = 0
  OBVIOUS
<1>2. HearingOf(answers, n)[0] = Unheard
  BY HearingSteps
<1> QED
  BY <1>1, <1>2, HeardByHearing

-----------------------------------------------------------------------------
(* Sequences whatever their elements are.                                  *)

IsSeq(s) == \E S : s \in Seq(S)

LEMMA AppendFacts ==
  ASSUME NEW s, IsSeq(s), NEW x
  PROVE  /\ IsSeq(Append(s, x)) /\ Len(s) \in Nat /\ Len(Append(s, x)) = Len(s) + 1
         /\ \A i \in 1 .. Len(s) : Append(s, x)[i] = s[i]
         /\ Append(s, x)[Len(s) + 1] = x
         /\ s \o << x >> = Append(s, x)
<1>1. PICK S : s \in Seq(S)
  BY DEF IsSeq
<1>2. PICK R : R = S \cup {x}
  OBVIOUS
<1>3. s \in Seq(R) /\ x \in R
  BY <1>1, <1>2
<1>4. Append(s, x) \in Seq(R)
  BY <1>3
<1>5. /\ Len(s) \in Nat /\ Len(Append(s, x)) = Len(s) + 1
      /\ \A i \in 1 .. Len(s) : Append(s, x)[i] = s[i]
      /\ Append(s, x)[Len(s) + 1] = x
  BY <1>3
<1>6. s \o << x >> = Append(s, x)
  BY <1>3
<1> QED
  BY <1>4, <1>5, <1>6 DEF IsSeq

LEMMA TailFacts ==
  ASSUME NEW s, IsSeq(s), s # << >>
  PROVE  /\ IsSeq(Tail(s)) /\ Len(s) \in Nat \ {0} /\ Len(Tail(s)) = Len(s) - 1
         /\ \A i \in 1 .. Len(s) - 1 : Tail(s)[i] = s[i + 1]
         /\ Head(s) = s[1]
<1>1. PICK S : s \in Seq(S)
  BY DEF IsSeq
<1>2. /\ Tail(s) \in Seq(S) /\ Len(s) \in Nat \ {0} /\ Len(Tail(s)) = Len(s) - 1
      /\ \A i \in 1 .. Len(s) - 1 : Tail(s)[i] = s[i + 1]
      /\ Head(s) = s[1]
  BY <1>1, HeadTailProperties
<1> QED
  BY <1>2 DEF IsSeq

LEMMA EmptyFacts == IsSeq(<< >>) /\ Len(<< >>) = 0
<1>1. << >> \in Seq({})
  OBVIOUS
<1> QED
  BY <1>1 DEF IsSeq

-----------------------------------------------------------------------------
(* The messages on their way to the server.                                *)

Understood ==
  \A k \in 1 .. Len(understood) : understood[k] = Fields(sent[k])
Underway ==
  \A i \in 1 .. Len(toServer) : Decode(toServer[i].data) = Fields(sent[Len(understood) + i])

SentInv ==
  /\ IsSeq(sent) /\ IsSeq(understood) /\ IsSeq(toServer)
  /\ Len(sent) = Len(understood) + Len(toServer)
  /\ Understood /\ Underway

LEMMA SendKeepsSent ==
  ASSUME SentInv, NEW u, HasNumbers(u), SendUpdate(u)
  PROVE  SentInv'
<1> DEFINE w == mux_write_outgoing_msg(u)
           m == [uuid |-> UUID, data |-> SubSeq(w.msg.buf, 1, w.len)]
<1>1. /\ toServer' = toServer \o << m >> /\ sent' = Append(sent, u)
      /\ understood' = understood
  BY DEF SendUpdate, mux_0mq_send_msg
<1>2. Decode(m.data) = Fields(u)
  <2>1. Decode(SubSeq(w.msg.buf, 1, w.len)) = Fields(u)
    BY MessageDecodes DEF Sendable
  <2>2. m.data = SubSeq(w.msg.buf, 1, w.len)
    OBVIOUS
  <2> HIDE DEF m, w
  <2> QED
    BY <2>1, <2>2
<1> HIDE DEF m, w
<1>3. /\ IsSeq(sent) /\ IsSeq(understood) /\ IsSeq(toServer)
      /\ Len(sent) = Len(understood) + Len(toServer)
  BY DEF SentInv
<1>4. toServer' = Append(toServer, m)
  BY <1>1, <1>3, AppendFacts
<1>5. PICK n \in Nat : n = Len(understood)
  BY <1>3, AppendFacts
<1>6. PICK k \in Nat : k = Len(toServer)
  BY <1>3, AppendFacts
<1>7. /\ Len(sent) = n + k /\ Len(understood') = n
      /\ Len(sent) \in Nat
  BY <1>1, <1>3, <1>5, <1>6
<1>8. /\ IsSeq(sent') /\ Len(sent') = (n + k) + 1
      /\ \A i \in 1 .. n + k : sent'[i] = sent[i]
      /\ sent'[(n + k) + 1] = u
  <2>1. PICK l \in Nat : l = Len(sent) /\ l = n + k
    BY <1>7
  <2>2. IsSeq(sent') /\ Len(sent') = l + 1
    BY <1>1, <1>3, <2>1, AppendFacts
  <2>3. \A i \in 1 .. l : sent'[i] = sent[i]
    BY <1>1, <1>3, <2>1, AppendFacts
  <2>4. sent'[l + 1] = u
    BY <1>1, <1>3, <2>1, AppendFacts
  <2> QED
    BY <2>1, <2>2, <2>3, <2>4
<1>9. /\ IsSeq(toServer') /\ Len(toServer') = k + 1
      /\ \A i \in 1 .. k : toServer'[i] = toServer[i]
      /\ toServer'[k + 1] = m
  <2>1. IsSeq(toServer') /\ Len(toServer') = k + 1
    BY <1>3, <1>4, <1>6, AppendFacts
  <2>2. \A i \in 1 .. k : toServer'[i] = toServer[i]
    BY <1>3, <1>4, <1>6, AppendFacts
  <2>3. toServer'[k + 1] = m
    BY <1>3, <1>4, <1>6, AppendFacts
  <2> QED
    BY <2>1, <2>2, <2>3
<1>10. Understood'
  <2>1. ASSUME NEW i \in 1 .. n
        PROVE  understood'[i] = Fields(sent'[i])
    <3>1. i \in 1 .. n + k
      OBVIOUS
    <3>2. understood[i] = Fields(sent[i])
      BY <1>5 DEF SentInv, Understood
    <3> QED
      BY <1>1, <1>8, <3>1, <3>2
  <2> QED
    BY <1>7, <2>1 DEF Understood
<1>11. Underway'
  <2>1. ASSUME NEW i \in 1 .. k
        PROVE  Decode(toServer'[i].data) = Fields(sent'[n + i])
    <3>1. n + i \in 1 .. n + k
      OBVIOUS
    <3>2. Decode(toServer[i].data) = Fields(sent[n + i])
      BY <1>5, <1>6 DEF SentInv, Underway
    <3> QED
      BY <1>8, <1>9, <3>1, <3>2
  <2>2. Decode(toServer'[k + 1].data) = Fields(sent'[n + (k + 1)])
    <3>1. n + (k + 1) = (n + k) + 1
      OBVIOUS
    <3> QED
      BY <1>2, <1>8, <1>9, <3>1
  <2>3. \A i \in 1 .. k + 1 : i \in 1 .. k \/ i = k + 1
    OBVIOUS
  <2> QED
    BY <1>7, <1>9, <2>1, <2>2, <2>3 DEF Underway
<1>12. Len(sent') = Len(understood') + Len(toServer')
  BY <1>7, <1>8, <1>9
<1> QED
  BY <1>1, <1>3, <1>8, <1>9, <1>10, <1>11, <1>12 DEF SentInv

LEMMA ServerReceiveKeepsSent ==
  ASSUME SentInv, ServerReceive
  PROVE  SentInv'
<1> DEFINE d == Decode(Head(toServer).data)
<1>1. /\ toServer # << >> /\ toServer' = Tail(toServer) /\ sent' = sent
      /\ understood' = Append(understood, d)
  BY DEF ServerReceive
<1> HIDE DEF d
<1>2. /\ IsSeq(sent) /\ IsSeq(understood) /\ IsSeq(toServer)
      /\ Len(sent) = Len(understood) + Len(toServer)
  BY DEF SentInv
<1>3. PICK n \in Nat : n = Len(understood)
  BY <1>2, AppendFacts
<1>4. PICK k \in Nat : Len(toServer) = k + 1
  <2>1. Len(toServer) \in Nat \ {0}
    BY <1>1, <1>2, TailFacts
  <2>2. Len(toServer) - 1 \in Nat /\ Len(toServer) = (Len(toServer) - 1) + 1
    BY <2>1
  <2> QED
    BY <2>2
<1>5. /\ IsSeq(toServer') /\ Len(toServer') = k
      /\ \A i \in 1 .. k : toServer'[i] = toServer[i + 1]
      /\ Head(toServer) = toServer[1]
  BY <1>1, <1>2, <1>4, TailFacts
<1>6. /\ IsSeq(understood') /\ Len(understood') = n + 1
      /\ \A i \in 1 .. n : understood'[i] = understood[i]
      /\ understood'[n + 1] = d
  BY <1>1, <1>2, <1>3, AppendFacts
<1>7. ASSUME NEW i \in 1 .. k + 1
      PROVE  Decode(toServer[i].data) = Fields(sent[n + i])
  BY <1>3, <1>4 DEF SentInv, Underway
<1>8. Understood'
  <2>1. ASSUME NEW i \in 1 .. n
        PROVE  understood'[i] = Fields(sent[i])
    BY <1>3, <1>6 DEF SentInv, Understood
  <2>2. d = Fields(sent[n + 1])
    BY <1>5, <1>7 DEF d
  <2>3. \A i \in 1 .. n + 1 : i \in 1 .. n \/ i = n + 1
    OBVIOUS
  <2> QED
    BY <1>1, <1>6, <2>1, <2>2, <2>3 DEF Understood
<1>9. Underway'
  <2>1. ASSUME NEW i \in 1 .. k
        PROVE  Decode(toServer'[i].data) = Fields(sent[(n + 1) + i])
    <3>1. PICK j \in 1 .. k + 1 : j = i + 1
      OBVIOUS
    <3>2. n + j = (n + 1) + i
      BY <3>1
    <3>3. toServer'[i] = toServer[j]
      BY <1>5, <3>1
    <3> QED
      BY <1>7, <3>2, <3>3
  <2> QED
    BY <1>1, <1>5, <1>6, <2>1 DEF Underway
<1>10. Len(sent') = Len(understood') + Len(toServer')
  <2>1. Len(sent') = n + (k + 1)
    BY <1>1, <1>2, <1>3, <1>4
  <2>2. Len(understood') = n + 1 /\ Len(toServer') = k
    BY <1>5, <1>6
  <2> QED
    BY <2>1, <2>2
<1> QED
  BY <1>1, <1>2, <1>5, <1>6, <1>8, <1>9, <1>10 DEF SentInv

\* What the server has decoded, and what it will make of the bytes that are under
\* way, is what mux_write_outgoing_msg (msgpack.c:249-340) was given, in order.
THEOREM SentInvariant == ChainSpec => []SentInv
<1>1. ChainInit => SentInv
  BY EmptyFacts DEF ChainInit, Init, SentInv, Understood, Underway
<1>2. ASSUME SentInv, RectInv, [ChainNext]_chainVars
      PROVE  SentInv'
  <2>1. CASE UNCHANGED << toServer, sent, understood >>
    BY <1>2, <2>1 DEF SentInv, Understood, Underway
  <2>2. ASSUME NEW u \in Updates, SendUpdate(u)
        PROVE  SentInv'
    BY <1>2, <2>2, SendKeepsSent, UpdatesAssumption
  <2>3. CASE SendUpdate(BoxUpdate)
    BY <1>2, <2>3, SendKeepsSent, BoxHasNumbers
  <2>4. CASE ServerReceive
    BY <1>2, <2>4, ServerReceiveKeepsSent
  <2> QED
    BY <1>2, <2>1, <2>2, <2>3, <2>4
       DEF ChainNext, chainVars, vars, Send, ServerSend, Receive
<1> QED
  BY <1>1, <1>2, ChainIsRect, RectInvariant, PTL DEF ChainSpec

(***************************************************************************)
(* Every message of mux_write_outgoing_msg decodes, in the order they were *)
(* sent, to the fields of its update (msgpack.c:249-339): for every update *)
(* with numbers for fields, every width and every size of the block.       *)
(***************************************************************************)
THEOREM MessagesAreUnderstood == ChainSpec => []MessagesArrive
<1>1. ASSUME SentInv PROVE MessagesArrive
  <2>1. DOMAIN understood = 1 .. Len(understood)
    BY <1>1 DEF SentInv, IsSeq
  <2> QED
    BY <1>1, <2>1 DEF SentInv, Understood, MessagesArrive
<1>2. SentInv => MessagesArrive
  BY <1>1
<1> QED
  BY <1>2, SentInvariant, PTL

-----------------------------------------------------------------------------
(* The messages on their way to the library.                               *)

Arrived(m, a) ==
  \E u \in UUIDs, f \in Answers, bare \in BOOLEAN :
    /\ a = [uuid |-> u, fields |-> f, bare |-> bare]
    /\ m = [uuid |-> u, data |-> Written(f, bare)]

Summary(c, rate, h) == [calls |-> c, framerate |-> rate, held |-> h]

\* What Receive makes of one frame.
Received(frame, c, rate, h) ==
  LET r == mux_0mq_recv_msg(frame)
      p == mux_process_incoming_msg(r.buf, rate)
  IN IF r.nbytes > 0
     THEN Summary(c \o p.calls, p.framerate, h + r.allocated - (IF p.freed THEN 1 ELSE 0))
     ELSE Summary(c, rate, h + r.allocated)

LEMMA SummaryIs ==
  ASSUME NEW c, NEW rate, NEW h
  PROVE  /\ Summary(c, rate, h).calls = c
         /\ Summary(c, rate, h).framerate = rate
         /\ Summary(c, rate, h).held = h
BY DEF Summary

LEMMA CallsGrow ==
  ASSUME NEW c, IsSeq(c), NEW t, NEW args
  PROVE  c \o << >> = c /\ IsSeq(c \o Call(t, args))
<1>1. PICK S : c \in Seq(S)
  BY DEF IsSeq
<1>2. c \o << >> = c
  BY <1>1
<1>3. PICK e : Call(t, args) = << e >>
  BY DEF Call
<1>4. IsSeq(c \o << e >>)
  BY AppendFacts
<1> QED
  BY <1>2, <1>3, <1>4

LEMMA HeardAnother ==
  ASSUME NEW u, NEW f, NEW bare, NEW c, NEW rate, NEW h, u # UUID
  PROVE  Heard(Summary(c, rate, h), [uuid |-> u, fields |-> f, bare |-> bare])
           = Summary(c, rate, h)
BY DEF Heard

LEMMA HeardUnreadable ==
  ASSUME NEW f, NEW bare, NEW c, NEW rate, NEW h,
         bare \/ f = << >> \/ f[1] >= Pack!Values[W32]
  PROVE  Heard(Summary(c, rate, h), [uuid |-> UUID, fields |-> f, bare |-> bare])
           = Summary(c, rate, h + 1)
BY DEF Heard, Unreadable, Summary

LEMMA HeardReadable ==
  ASSUME NEW f, NEW bare, NEW c, NEW rate, NEW h,
         ~(bare \/ f = << >> \/ f[1] >= Pack!Values[W32])
  PROVE  Heard(Summary(c, rate, h), [uuid |-> UUID, fields |-> f, bare |-> bare])
           = Summary(IF IsEvent(f) THEN c \o Call(f[1], SubSeq(f, 2, 1 + Arity(f[1]))) ELSE c,
                     IF IsRate(f) THEN f[3] ELSE rate, h)
BY DEF Heard, Unreadable, Summary

LEMMA NumbersOfAnswers ==
  ASSUME NEW f \in Answers
  PROVE  f \in Seq(Numbers64) /\ Len(f) \in P!Unsigned(W32)
<1>1. f \in Seq(0 .. Pack!Values[W64] - 1) /\ Len(f) < Pack!Values[W32]
  BY AnswersAssumption
<1>2. Numbers64 = 0 .. Pack!Values[W64] - 1 /\ P!Unsigned(W32) = 0 .. Pack!Values[W32] - 1
  BY SameNumbers DEF Numbers64, P!Unsigned
<1>3. PICK m \in Nat : m = Pack!Values[W32]
  BY LayoutFacts
<1>4. Len(f) \in 0 .. m - 1
  BY <1>1, <1>3
<1>5. Len(f) \in P!Unsigned(W32)
  BY <1>2, <1>3, <1>4
<1>6. f \in Seq(Numbers64)
  BY <1>1, <1>2
<1> QED
  BY <1>5, <1>6

\* One message has the effect of its answer.
Hears(frame, a, c, rate, h) ==
  /\ Received(frame, c, rate, h) = Heard(Summary(c, rate, h), a)
  /\ IsSeq(Received(frame, c, rate, h).calls)
  /\ Received(frame, c, rate, h).held \in Int

LEMMA ReceivedIsHeard ==
  ASSUME NEW frame, NEW a, Arrived(frame, a), NEW c, IsSeq(c), NEW rate, NEW h \in Int
  PROVE  Hears(frame, a, c, rate, h)
<1>1. PICK u \in UUIDs, f \in Answers, bare \in BOOLEAN :
        /\ a = [uuid |-> u, fields |-> f, bare |-> bare]
        /\ frame = [uuid |-> u, data |-> Written(f, bare)]
  BY DEF Arrived
<1>2. PICK data : data = Written(f, bare)
  OBVIOUS
<1>3. PICK p : p = mux_process_incoming_msg(data, rate)
  OBVIOUS
<1>4. PICK s : s = Summary(c, rate, h)
  OBVIOUS
<1>5. s.calls = c /\ s.framerate = rate /\ s.held = h
  BY <1>4, SummaryIs
<1>6. CASE u # UUID
  <2>1. Received(frame, c, rate, h) = Summary(c, rate, h + 0)
    BY <1>1, <1>6 DEF Received, mux_0mq_recv_msg
  <2>2. Heard(s, a) = s
    BY <1>1, <1>4, <1>6, HeardAnother
  <2>3. h + 0 = h
    OBVIOUS
  <2> QED
    BY <1>4, <1>5, <2>1, <2>2, <2>3 DEF Hears
<1>7. CASE u = UUID
  <2>1. Received(frame, c, rate, h)
          = IF Len(data) > 0
            THEN Summary(c \o p.calls, p.framerate, h + 1 - (IF p.freed THEN 1 ELSE 0))
            ELSE Summary(c, rate, h + 1)
    BY <1>1, <1>2, <1>3, <1>7 DEF Received, mux_0mq_recv_msg
  <2>2. /\ Len(data) \in Nat
        /\ Len(data) > 0 => EffectOf(p, f, bare, rate)
        /\ Len(data) = 0 => bare
    <3>1. f \in Seq(Numbers64) /\ Len(f) \in P!Unsigned(W32)
      BY NumbersOfAnswers
    <3>2. IsWritten(data, f, bare)
      BY <1>2, <3>1, AnswerIsWritten
    <3> QED
      BY <1>3, <3>1, <3>2, IncomingIs
  <2>3. CASE bare \/ f = << >> \/ f[1] >= Pack!Values[W32]
    <3>1. Heard(s, a) = Summary(c, rate, h + 1)
      BY <1>1, <1>4, <1>7, <2>3, HeardUnreadable
    <3>2. Received(frame, c, rate, h) = Summary(c, rate, h + 1)
      <4>1. CASE Len(data) > 0
        <5>1. p.calls = << >> /\ p.framerate = rate /\ p.freed = FALSE
          BY <2>2, <2>3, <4>1 DEF EffectOf
        <5>2. c \o << >> = c /\ h + 1 - 0 = h + 1
          BY CallsGrow
        <5> QED
          BY <2>1, <4>1, <5>1, <5>2
      <4>2. CASE ~(Len(data) > 0)
        BY <2>1, <4>2
      <4> QED
        BY <4>1, <4>2
    <3>3. Received(frame, c, rate, h).calls = c /\ Received(frame, c, rate, h).held = h + 1
      BY <3>2, SummaryIs
    <3> QED
      BY <1>4, <3>1, <3>2, <3>3 DEF Hears
  <2>4. CASE ~(bare \/ f = << >> \/ f[1] >= Pack!Values[W32])
    <3> DEFINE event == Call(f[1], SubSeq(f, 2, 1 + Arity(f[1])))
    <3>1. Heard(s, a) = Summary(IF IsEvent(f) THEN c \o event ELSE c,
                                IF IsRate(f) THEN f[3] ELSE rate, h)
      BY <1>1, <1>4, <1>7, <2>4, HeardReadable
    <3>2. Len(data) > 0
      BY <2>2, <2>4
    <3>3. /\ p.freed = TRUE
          /\ p.calls = IF IsEvent(f) THEN event ELSE << >>
          /\ p.framerate = IF IsRate(f) THEN f[3] ELSE rate
      BY <2>2, <2>4, <3>2 DEF EffectOf
    <3>4. c \o << >> = c /\ IsSeq(c \o event)
      BY CallsGrow
    <3> HIDE DEF event
    <3>5. c \o p.calls = IF IsEvent(f) THEN c \o event ELSE c
      BY <3>3, <3>4
    <3>6. Received(frame, c, rate, h) = Summary(c \o p.calls, p.framerate, h)
      <4>1. h + 1 - 1 = h
        OBVIOUS
      <4> QED
        BY <2>1, <3>2, <3>3, <4>1
    <3>7. Received(frame, c, rate, h) = Heard(s, a)
      BY <3>1, <3>3, <3>5, <3>6
    <3>8. IsSeq(c \o p.calls)
      BY <3>4, <3>5
    <3>9. /\ Received(frame, c, rate, h).calls = c \o p.calls
          /\ Received(frame, c, rate, h).held = h
      <4>1. PICK x : x = c \o p.calls
        OBVIOUS
      <4>2. PICK y : y = p.framerate
        OBVIOUS
      <4>3. Received(frame, c, rate, h) = Summary(x, y, h)
        BY <3>6, <4>1, <4>2
      <4> QED
        <5>1. Received(frame, c, rate, h).calls = x
          BY <4>3, SummaryIs
        <5>2. Received(frame, c, rate, h).held = h
          BY <4>3, SummaryIs
        <5> QED
          BY <4>1, <5>1, <5>2
    <3> QED
      BY <1>4, <3>7, <3>8, <3>9 DEF Hears
  <2> QED
    BY <2>3, <2>4
<1> QED
  BY <1>6, <1>7

Answering ==
  \A i \in 1 .. Len(toLibrary) : Arrived(toLibrary[i], answered[handled + i])

HearingInv ==
  /\ IsSeq(answered) /\ IsSeq(toLibrary) /\ handled \in Nat
  /\ Len(answered) = handled + Len(toLibrary)
  /\ Answering
  /\ IsSeq(calls) /\ held \in Int
  /\ Expected = Summary(calls, framerate, held)

LEMMA ServerSendKeepsHearing ==
  ASSUME HearingInv, ServerSend
  PROVE  HearingInv'
<1>1. PICK u \in UUIDs, f \in Answers, bare \in BOOLEAN :
        /\ answered' = Append(answered, [uuid |-> u, fields |-> f, bare |-> bare])
        /\ toLibrary' = Append(toLibrary, [uuid |-> u, data |-> Written(f, bare)])
  BY DEF ServerSend
<1>2. /\ handled' = handled /\ calls' = calls /\ framerate' = framerate /\ held' = held
  BY DEF ServerSend
<1>3. PICK a : a = [uuid |-> u, fields |-> f, bare |-> bare]
  OBVIOUS
<1>4. PICK m : m = [uuid |-> u, data |-> Written(f, bare)]
  OBVIOUS
<1>5. answered' = Append(answered, a) /\ toLibrary' = Append(toLibrary, m)
  BY <1>1, <1>3, <1>4
<1>6. Arrived(m, a)
  BY <1>3, <1>4 DEF Arrived
<1>7. /\ IsSeq(answered) /\ IsSeq(toLibrary) /\ handled \in Nat
      /\ Len(answered) = handled + Len(toLibrary)
  BY DEF HearingInv
<1>8. PICK k \in Nat : k = Len(toLibrary)
  BY <1>7, AppendFacts
<1>9. PICK n \in Nat : n = Len(answered) /\ n = handled + k
  BY <1>7, <1>8, AppendFacts
<1>10. /\ IsSeq(answered') /\ Len(answered') = n + 1
       /\ \A i \in 1 .. n : answered'[i] = answered[i]
       /\ answered'[n + 1] = a
  <2>1. IsSeq(answered') /\ Len(answered') = n + 1
    BY <1>5, <1>7, <1>9, AppendFacts
  <2>2. \A i \in 1 .. n : answered'[i] = answered[i]
    BY <1>5, <1>7, <1>9, AppendFacts
  <2>3. answered'[n + 1] = a
    BY <1>5, <1>7, <1>9, AppendFacts
  <2> QED
    BY <2>1, <2>2, <2>3
<1>11. /\ IsSeq(toLibrary') /\ Len(toLibrary') = k + 1
       /\ \A i \in 1 .. k : toLibrary'[i] = toLibrary[i]
       /\ toLibrary'[k + 1] = m
  <2>1. IsSeq(toLibrary') /\ Len(toLibrary') = k + 1
    BY <1>5, <1>7, <1>8, AppendFacts
  <2>2. \A i \in 1 .. k : toLibrary'[i] = toLibrary[i]
    BY <1>5, <1>7, <1>8, AppendFacts
  <2>3. toLibrary'[k + 1] = m
    BY <1>5, <1>7, <1>8, AppendFacts
  <2> QED
    BY <2>1, <2>2, <2>3
<1>12. Answering'
  <2>1. ASSUME NEW i \in 1 .. k
        PROVE  Arrived(toLibrary'[i], answered'[handled + i])
    <3>1. handled + i \in 1 .. n
      BY <1>7, <1>9
    <3>2. Arrived(toLibrary[i], answered[handled + i])
      BY <1>8 DEF HearingInv, Answering
    <3> QED
      BY <1>10, <1>11, <3>1, <3>2
  <2>2. handled + (k + 1) = n + 1
    BY <1>7, <1>9
  <2>3. Arrived(toLibrary'[k + 1], answered'[handled + (k + 1)])
    BY <1>6, <1>10, <1>11, <2>2
  <2>4. \A i \in 1 .. k + 1 : i \in 1 .. k \/ i = k + 1
    OBVIOUS
  <2> QED
    BY <1>2, <1>11, <2>1, <2>3, <2>4 DEF Answering
<1>13. HeardOf(answered', handled) = HeardOf(answered, handled)
  <2>1. PICK S : answered \in Seq(S)
    BY <1>7 DEF IsSeq
  <2>2. PICK R : R = S \cup {a}
    OBVIOUS
  <2>3. answered \in Seq(R) /\ a \in R
    BY <2>1, <2>2
  <2>4. handled <= Len(answered)
    BY <1>7, <1>8
  <2> QED
    BY <1>5, <1>7, <2>3, <2>4, HeardSame
<1>14. Expected' = Summary(calls', framerate', held')
  BY <1>2, <1>13 DEF HearingInv, Expected
<1>15. Len(answered') = handled' + Len(toLibrary')
  <2>1. handled + (k + 1) = n + 1
    BY <1>7, <1>9
  <2> QED
    BY <1>2, <1>10, <1>11, <2>1
<1>16. handled' \in Nat /\ IsSeq(calls') /\ held' \in Int
  BY <1>2 DEF HearingInv
<1> QED
  BY <1>10, <1>11, <1>12, <1>14, <1>15, <1>16 DEF HearingInv

LEMMA ReceiveKeepsHearing ==
  ASSUME HearingInv, Receive
  PROVE  HearingInv'
<1>1. /\ toLibrary # << >> /\ toLibrary' = Tail(toLibrary) /\ handled' = handled + 1
      /\ answered' = answered
  BY DEF Receive
<1>2. /\ IsSeq(answered) /\ IsSeq(toLibrary) /\ handled \in Nat
      /\ Len(answered) = handled + Len(toLibrary)
      /\ IsSeq(calls) /\ held \in Int
  BY DEF HearingInv
<1>3. PICK k \in Nat : Len(toLibrary) = k + 1
  <2>1. Len(toLibrary) \in Nat \ {0}
    BY <1>1, <1>2, TailFacts
  <2>2. Len(toLibrary) - 1 \in Nat /\ Len(toLibrary) = (Len(toLibrary) - 1) + 1
    BY <2>1
  <2> QED
    BY <2>2
<1>4. /\ IsSeq(toLibrary') /\ Len(toLibrary') = k
      /\ \A i \in 1 .. k : toLibrary'[i] = toLibrary[i + 1]
      /\ Head(toLibrary) = toLibrary[1]
  BY <1>1, <1>2, <1>3, TailFacts
<1>5. PICK g \in Nat : g = handled + 1
  BY <1>2
<1>6. ASSUME NEW i \in 1 .. k + 1
      PROVE  Arrived(toLibrary[i], answered[handled + i])
  BY <1>3 DEF HearingInv, Answering
<1>7. PICK frame : frame = Head(toLibrary)
  OBVIOUS
<1>8. PICK a : a = answered[g]
  OBVIOUS
<1>9. Arrived(frame, a)
  <2>1. Arrived(toLibrary[1], answered[handled + 1])
    BY <1>6
  <2> QED
    BY <1>4, <1>5, <1>7, <1>8, <2>1
<1>10. Hears(frame, a, calls, framerate, held)
  BY <1>2, <1>9, ReceivedIsHeard
<1>11. Summary(calls', framerate', held') = Received(frame, calls, framerate, held)
  <2>1. PICK r : r = mux_0mq_recv_msg(frame)
    OBVIOUS
  <2>2. PICK p : p = mux_process_incoming_msg(r.buf, framerate)
    OBVIOUS
  <2>3. IF r.nbytes > 0
        THEN /\ calls' = calls \o p.calls /\ framerate' = p.framerate
             /\ held' = held + r.allocated - (IF p.freed THEN 1 ELSE 0)
        ELSE /\ held' = held + r.allocated /\ UNCHANGED << calls, framerate >>
    BY <1>7, <2>1, <2>2 DEF Receive
  <2>4. Received(frame, calls, framerate, held)
          = IF r.nbytes > 0
            THEN Summary(calls \o p.calls, p.framerate,
                         held + r.allocated - (IF p.freed THEN 1 ELSE 0))
            ELSE Summary(calls, framerate, held + r.allocated)
    BY <2>1, <2>2 DEF Received
  <2>5. CASE r.nbytes > 0
    BY <2>3, <2>4, <2>5
  <2>6. CASE ~(r.nbytes > 0)
    BY <2>3, <2>4, <2>6
  <2> QED
    BY <2>5, <2>6
<1>12. Expected' = Summary(calls', framerate', held')
  <2>1. HeardOf(answered, g) = Heard(HeardOf(answered, handled), answered[g])
    BY <1>2, <1>5, HeardMore
  <2>2. HeardOf(answered, handled) = Summary(calls, framerate, held)
    BY DEF HearingInv, Expected
  <2>3. HeardOf(answered, g) = Received(frame, calls, framerate, held)
    BY <1>8, <1>10, <2>1, <2>2 DEF Hears
  <2>4. Expected' = HeardOf(answered, g)
    BY <1>1, <1>5 DEF Expected
  <2> QED
    BY <1>11, <2>3, <2>4
<1>13. IsSeq(calls') /\ held' \in Int
  <2>1. /\ calls' = Received(frame, calls, framerate, held).calls
        /\ held' = Received(frame, calls, framerate, held).held
    BY <1>11, SummaryIs
  <2> QED
    BY <1>10, <2>1 DEF Hears
<1>14. Answering'
  <2>1. ASSUME NEW i \in 1 .. k
        PROVE  Arrived(toLibrary'[i], answered[(handled + 1) + i])
    <3>1. PICK j \in 1 .. k + 1 : j = i + 1
      OBVIOUS
    <3>2. handled + j = (handled + 1) + i
      BY <1>2, <3>1
    <3>3. toLibrary'[i] = toLibrary[j]
      BY <1>4, <3>1
    <3> QED
      BY <1>6, <3>2, <3>3
  <2> QED
    BY <1>1, <1>4, <2>1 DEF Answering
<1>15. handled' \in Nat /\ Len(answered') = handled' + Len(toLibrary')
  BY <1>1, <1>2, <1>3, <1>4
<1> QED
  BY <1>1, <1>2, <1>4, <1>12, <1>13, <1>14, <1>15 DEF HearingInv

\* The library has done what the answers it took stand for, and what is under
\* way to it are the bytes of the others, in order (msgpack.c:197-241).
THEOREM HearingInvariant == ChainSpec => []HearingInv
<1>1. ChainInit => HearingInv
  <2>1. HeardOf(<< >>, 0) = Summary(<< >>, 20, 0)
    BY NothingHeard DEF Unheard, Summary
  <2> QED
    BY <2>1, EmptyFacts DEF ChainInit, Init, HearingInv, Answering, Expected
<1>2. ASSUME HearingInv, [ChainNext]_chainVars
      PROVE  HearingInv'
  <2>1. CASE UNCHANGED << toLibrary, framerate, calls, held, answered, handled >>
    BY <1>2, <2>1 DEF HearingInv, Answering, Expected
  <2>2. CASE Receive
    BY <1>2, <2>2, ReceiveKeepsHearing
  <2>3. CASE ServerSend
    BY <1>2, <2>3, ServerSendKeepsHearing
  <2>4. ASSUME NEW u, SendUpdate(u)
        PROVE  UNCHANGED << toLibrary, framerate, calls, held, answered, handled >>
    BY <2>4 DEF SendUpdate
  <2>5. CASE Send
    BY <2>1, <2>4, <2>5 DEF Send
  <2>6. CASE SendUpdate(BoxUpdate)
    BY <2>1, <2>4, <2>6
  <2>7. CASE ServerReceive
    BY <2>1, <2>7 DEF ServerReceive
  <2>8. CASE UNCHANGED vars
    BY <2>1, <2>8 DEF vars
  <2> QED
    BY <1>2, <2>2, <2>3, <2>5, <2>6, <2>7, <2>8 DEF ChainNext, chainVars
<1> QED
  BY <1>1, <1>2, PTL DEF ChainSpec

\* Every complete event of any answers, and only these, has invoked its callback
\* once, in order and with its numbers (mux_process_incoming_msg, msgpack.c:197).
THEOREM EventsAreHeard == ChainSpec => []EventsAreDelivered
<1>1. HearingInv => EventsAreDelivered
  BY SummaryIs DEF HearingInv, EventsAreDelivered
<1> QED
  BY <1>1, HearingInvariant, PTL

\* display->framerate is that of the last complete and successful
\* acknowledgement of any answers (msgpack.c:168-188), or the initial one.
THEOREM RateIsHeard == ChainSpec => []RateOfLastSuccess
<1>1. HearingInv => RateOfLastSuccess
  BY SummaryIs DEF HearingInv, RateOfLastSuccess
<1> QED
  BY <1>1, HearingInvariant, PTL

\* Of any answers, exactly those whose type could not be read have left their
\* buffer behind (msgpack.c:209-238).
THEOREM BuffersAreFreed == ChainSpec => []OnlyUnreadableLeak
<1>1. HearingInv => OnlyUnreadableLeak
  BY SummaryIs DEF HearingInv, OnlyUnreadableLeak
<1> QED
  BY <1>1, HearingInvariant, PTL

-----------------------------------------------------------------------------
(* The box that was sent.                                                  *)

BoxInv ==
  /\ size.w <= MaxWidth /\ size.h <= MaxHeight
  /\ aligned /\ sent # << >> => sent[1] = BoxUpdate

\* The first message after the alignment carries the box that is there
\* (rdpmux.c:240-281): drawing stops at the alignment in ChainNext.
THEOREM BoxInvariant == ChainSpec => []BoxInv
<1>1. ChainInit => BoxInv
  BY BoundsAssumption DEF ChainInit, RectInit, BoxInv
<1>2. ASSUME BoxInv, SentInv, [ChainNext]_chainVars
      PROVE  BoxInv'
  <2>1. CASE UNCHANGED rectVars /\ UNCHANGED sent
    BY <1>2, <2>1 DEF rectVars, BoxInv, BoxUpdate
  <2>2. CASE Silent /\ RectNext /\ UNCHANGED vars
    BY <1>2, <2>2 DEF BoxInv, Silent, RectNext, Report, Align, vars
  <2>3. CASE Silent /\ aligned /\ SendUpdate(BoxUpdate) /\ UNCHANGED rectVars
    <3>1. sent' = Append(sent, BoxUpdate) /\ sent = << >>
      BY <2>3 DEF SendUpdate, Silent
    <3>2. sent'[1] = BoxUpdate
      <4>1. Append(sent, BoxUpdate)[Len(sent) + 1] = BoxUpdate /\ Len(sent) = 0
        BY <3>1, EmptyFacts, AppendFacts
      <4> QED
        BY <3>1, <4>1
    <3>3. BoxUpdate' = BoxUpdate /\ size' = size
      BY <2>3 DEF rectVars, BoxUpdate
    <3> QED
      BY <1>2, <3>2, <3>3 DEF BoxInv
  <2>4. CASE Alone /\ UNCHANGED rectVars
    BY <1>2, <2>4 DEF Alone, rectVars, BoxInv
  <2>5. CASE (Receive \/ ServerReceive) /\ UNCHANGED rectVars
    <3>1. UNCHANGED sent
      BY <2>5 DEF Receive, ServerReceive
    <3> QED
      BY <2>1, <2>5, <3>1
  <2>6. CASE UNCHANGED chainVars
    BY <2>1, <2>6 DEF chainVars, vars
  <2> QED
    BY <1>2, <2>2, <2>3, <2>4, <2>5, <2>6 DEF ChainNext
<1> QED
  BY <1>1, <1>2, SentInvariant, PTL DEF ChainSpec

LEMMA CoordinateSurvives ==
  ASSUME NEW n \in Nat, n < Pack!Values[W64], NEW v \in Int, 0 <= v, v <= n
  PROVE  Uint64(v) = v
<1>1. PICK m \in Nat \ {0} : m = Pack!Values[W64]
  BY LayoutFacts
<1>2. v \in 0 .. m - 1
  BY <1>1
<1>3. v \in Numbers64
  BY <1>1, <1>2, SameNumbers DEF Numbers64, P!Unsigned
<1> QED
  BY <1>3, Uint64Same

LEMMA BoxSurvives ==
  ASSUME box \in Rect, size \in Surface, Fits(box, size), BoxInv,
         NEW u, u = Fields(BoxUpdate)
  PROVE  RectOf([x |-> u[2], y |-> u[3], w |-> u[4], h |-> u[5]]) = box
<1>1. /\ box.x1 \in Int /\ box.y1 \in Int /\ box.x2 \in Int /\ box.y2 \in Int
      /\ size.w \in Nat /\ size.h \in Nat
  BY DEF Rect, Surface
<1>2. /\ 0 <= box.x1 /\ box.x1 <= box.x2 /\ box.x2 <= size.w /\ size.w <= MaxWidth
      /\ 0 <= box.y1 /\ box.y1 <= box.y2 /\ box.y2 <= size.h /\ size.h <= MaxHeight
  BY DEF Fits, BoxInv
<1>3. MaxWidth \in Nat /\ MaxHeight \in Nat
  BY BoundsAssumption
<1>4. Uint64(box.x1) = box.x1
  <2>1. box.x1 <= MaxWidth
    BY <1>1, <1>2, <1>3
  <2> QED
    BY <1>1, <1>2, <1>3, <2>1, SizesAssumption, CoordinateSurvives
<1>5. Uint64(box.y1) = box.y1
  <2>1. box.y1 <= MaxHeight
    BY <1>1, <1>2, <1>3
  <2> QED
    BY <1>1, <1>2, <1>3, <2>1, SizesAssumption, CoordinateSurvives
<1>6. Uint64(box.x2 - box.x1) = box.x2 - box.x1
  <2>1. PICK v \in Int : v = box.x2 - box.x1 /\ 0 <= v /\ v <= MaxWidth
    BY <1>1, <1>2, <1>3
  <2>2. Uint64(v) = v
    BY <1>3, <2>1, SizesAssumption, CoordinateSurvives
  <2> QED
    BY <2>1, <2>2
<1>7. Uint64(box.y2 - box.y1) = box.y2 - box.y1
  <2>1. PICK v \in Int : v = box.y2 - box.y1 /\ 0 <= v /\ v <= MaxHeight
    BY <1>1, <1>2, <1>3
  <2>2. Uint64(v) = v
    BY <1>3, <2>1, SizesAssumption, CoordinateSurvives
  <2> QED
    BY <2>1, <2>2
<1>8. u = << DISPLAY_UPDATE, Uint64(box.x1), Uint64(box.y1),
             Uint64(box.x2 - box.x1), Uint64(box.y2 - box.y1) >>
  BY DEF Fields, BoxUpdate
<1>9. /\ u[2] = box.x1 /\ u[3] = box.y1
      /\ u[4] = box.x2 - box.x1 /\ u[5] = box.y2 - box.y1
  BY <1>4, <1>5, <1>6, <1>7, <1>8
<1> QED
  BY <1>1, <1>9 DEF RectOf, Rect

(***************************************************************************)
(* The region that the server decodes from the bytes of an update covers   *)
(* every region reported before it and lies on the surface: from           *)
(* mux_display_update (rdpmux.c:28) over the alignment (rdpmux.c:240) and  *)
(* mux_write_outgoing_update_msg (msgpack.c:249) to the server no pixel is *)
(* lost, on every surface whose size fits a number of the format.          *)
(***************************************************************************)
THEOREM PixelsArrive == ChainSpec => []RegionsArrive
<1>1. ASSUME SentInv, BoxInv, RectInv, AlignedBox
      PROVE  RegionsArrive
  <2>1. SUFFICES ASSUME aligned, understood # << >>
                 PROVE  LET u == understood[1]
                            there == RectOf([x |-> u[2], y |-> u[3], w |-> u[4], h |-> u[5]])
                        IN drawn \subseteq Cells(there) /\ Fits(there, size)
    BY DEF RegionsArrive
  <2>2. Len(understood) \in Nat \ {0}
    BY <1>1, <2>1, TailFacts DEF SentInv
  <2>3. understood[1] = Fields(sent[1])
    BY <1>1, <2>2 DEF SentInv, Understood
  <2>4. sent # << >>
    <3>1. Len(toServer) \in Nat
      BY <1>1, AppendFacts DEF SentInv
    <3>2. Len(sent) # 0
      BY <1>1, <2>2, <3>1 DEF SentInv
    <3> QED
      BY <3>2, EmptyFacts
  <2>5. sent[1] = BoxUpdate
    BY <1>1, <2>1, <2>4 DEF BoxInv
  <2>6. size \in Surface /\ box \in Rect
    BY <1>1, <2>1, AlignToSurfaceType DEF RectInv
  <2>7. Fits(box, size) /\ drawn \subseteq Cells(box)
    BY <1>1, <2>1 DEF AlignedBox
  <2>8. PICK u : u = understood[1]
    OBVIOUS
  <2>9. RectOf([x |-> u[2], y |-> u[3], w |-> u[4], h |-> u[5]]) = box
    BY <1>1, <2>3, <2>5, <2>6, <2>7, <2>8, BoxSurvives
  <2> QED
    BY <2>7, <2>8, <2>9
<1> QED
  BY <1>1, SentInvariant, BoxInvariant, ChainIsRect, RectInvariant, BoxIsAligned, PTL
=============================================================================
