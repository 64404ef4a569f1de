---------------------------- MODULE MuxRectProofs ----------------------------
(***************************************************************************)
(* What the rectangle arithmetic of rdpmux.c does for every alignment,     *)
(* every rectangle and every surface.                                      *)
(***************************************************************************)
EXTENDS MuxRect, TLAPS

IntRegion == [x : Int, y : Int, w : Int, h : Int]

\* "v is in w": containment of boxes, corner by corner.
Within(v, w) == /\ w.x1 <= v.x1 /\ v.x2 <= w.x2
                /\ w.y1 <= v.y1 /\ v.y2 <= w.y2

(***************************************************************************)
(* The operators keep their types; in particular no division is by zero.   *)
(***************************************************************************)
LEMMA RectOfType ==
  ASSUME NEW r \in IntRegion
  PROVE  RectOf(r) \in Rect /\ RegionOf(RectOf(r)) = r
BY DEF IntRegion, RectOf, RegionOf, Rect

LEMMA RegionOfType ==
  ASSUME NEW u \in Rect
  PROVE  RegionOf(u) \in IntRegion /\ RectOf(RegionOf(u)) = u
BY DEF IntRegion, RectOf, RegionOf, Rect

LEMMA ExpandRectType ==
  ASSUME NEW u \in Rect, NEW r \in IntRegion
  PROVE  ExpandRect(u, r) \in Rect
BY DEF IntRegion, Rect, ExpandRect, MinInt, MaxInt

(***************************************************************************)
(* A box that holds another one holds its pixels.                          *)
(***************************************************************************)
LEMMA WithinCells ==
  ASSUME NEW u \in Rect, NEW v \in Rect, Within(u, v)
  PROVE  Cells(u) \subseteq Cells(v)
BY DEF Rect, Within, Cells

(***************************************************************************)
(* Rounding, for one coordinate.                                           *)
(***************************************************************************)
LEMMA AlignDownBounds ==
  ASSUME NEW v \in Int
  PROVE  /\ AlignDown(v) \in Int
         /\ AlignDown(v) <= v
         /\ v < AlignDown(v) + ALIGN
<1>1. v % ALIGN \in 0 .. ALIGN - 1
  BY AlignAssumption
<1> QED
  BY <1>1, AlignAssumption DEF AlignDown

LEMMA AlignUpBounds ==
  ASSUME NEW v \in Int
  PROVE  /\ AlignUp(v) \in Int
         /\ v <= AlignUp(v)
         /\ AlignUp(v) < v + ALIGN
<1>1. v % ALIGN \in 0 .. ALIGN - 1
  BY AlignAssumption
<1> QED
  BY <1>1, AlignAssumption DEF AlignUp

LEMMA AlignToSurfaceType ==
  ASSUME NEW u \in Rect, NEW s \in Surface
  PROVE  AlignToSurface(u, s) \in Rect
<1>1. /\ AlignDown(u.x1) \in Int /\ AlignDown(u.y1) \in Int
      /\ AlignUp(u.x2) \in Int /\ AlignUp(u.y2) \in Int
  BY AlignDownBounds, AlignUpBounds DEF Rect
<1> QED
  BY <1>1 DEF AlignToSurface, Rect, Surface, MinInt

-----------------------------------------------------------------------------
(***************************************************************************)
(* mux_expand_rect computes the least box around its two arguments         *)
(* (rdpmux.c:28-41): it holds both, and every box that holds both holds it.*)
(***************************************************************************)
THEOREM ExpandRectLeast ==
  ASSUME NEW u \in Rect, NEW r \in IntRegion
  PROVE  /\ Within(u, ExpandRect(u, r))
         /\ Within(RectOf(r), ExpandRect(u, r))
         /\ \A v \in Rect : Within(u, v) /\ Within(RectOf(r), v)
                              => Within(ExpandRect(u, r), v)
BY DEF IntRegion, Rect, RectOf, ExpandRect, Within, MinInt, MaxInt

(***************************************************************************)
(* What mux_display_refresh copies and announces (rdpmux.c:242-264): for a *)
(* box that lies on the surface, the aligned box lies on the surface,      *)
(* holds the box, and is less than ALIGN larger at each edge.              *)
(***************************************************************************)
THEOREM AlignToSurfaceCovers ==
  ASSUME NEW u \in Rect, NEW s \in Surface, Fits(u, s)
  PROVE  LET a == AlignToSurface(u, s) IN
           /\ Fits(a, s)
           /\ Within(u, a)
           /\ u.x1 - a.x1 < ALIGN /\ u.y1 - a.y1 < ALIGN
           /\ a.x2 - u.x2 < ALIGN /\ a.y2 - u.y2 < ALIGN
<1> DEFINE a == AlignToSurface(u, s)
<1>1. u.x1 \in Nat /\ u.y1 \in Nat /\ u.x2 \in Nat /\ u.y2 \in Nat
  BY DEF Fits, Rect
<1>2. \A v \in Nat : AlignDown(v) \in Nat
  BY AlignAssumption DEF AlignDown
<1>3. /\ AlignDown(u.x1) \in Nat /\ AlignDown(u.y1) \in Nat
      /\ AlignDown(u.x1) <= u.x1 /\ u.x1 < AlignDown(u.x1) + ALIGN
      /\ AlignDown(u.y1) <= u.y1 /\ u.y1 < AlignDown(u.y1) + ALIGN
  BY <1>1, <1>2, AlignDownBounds
<1>4. /\ AlignUp(u.x2) \in Int /\ AlignUp(u.y2) \in Int
      /\ u.x2 <= AlignUp(u.x2) /\ AlignUp(u.x2) < u.x2 + ALIGN
      /\ u.y2 <= AlignUp(u.y2) /\ AlignUp(u.y2) < u.y2 + ALIGN
  BY <1>1, AlignUpBounds
<1>5. /\ a.x1 = AlignDown(u.x1) /\ a.y1 = AlignDown(u.y1)
      /\ a.x2 = MinInt(AlignUp(u.x2), s.w) /\ a.y2 = MinInt(AlignUp(u.y2), s.h)
  BY DEF AlignToSurface
<1>6. s.w \in Nat /\ s.h \in Nat
  BY DEF Surface
<1> QED
  BY <1>1, <1>3, <1>4, <1>5, <1>6, AlignAssumption DEF Fits, Within, MinInt
=============================================================================
