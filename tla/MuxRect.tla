------------------------------- MODULE MuxRect -------------------------------
(***************************************************************************)
(* The rectangle arithmetic of src/src/rdpmux.c: the dirty bounding box of *)
(* mux_display_update, its growth in mux_expand_rect, and the alignment    *)
(* and clamping mux_display_refresh applies before it copies the           *)
(* framebuffer.                                                            *)
(*                                                                         *)
(* A rectangle is what struct display_update holds: the corners (x1, y1)   *)
(* and (x2, y2), the second one exclusive.  A region is what the backend   *)
(* passes: a corner with a width and a height.  A surface is the size of a *)
(* framebuffer.  Everything is an integer number of pixels; the sizes are  *)
(* those of the RDP protocol (at most 4096x2048, rdpmux.c:156), far below  *)
(* where a C int could wrap.                                               *)
(***************************************************************************)
EXTENDS Integers

CONSTANT ALIGN      \* the alignment of a copied box, 16 in the code

ASSUME AlignAssumption == ALIGN \in Nat \ {0}

Rect    == [x1 : Int, y1 : Int, x2 : Int, y2 : Int]
Region  == [x : Nat, y : Nat, w : Nat, h : Nat]
Surface == [w : Nat \ {0}, h : Nat \ {0}]

MinInt(a, b) == IF a < b THEN a ELSE b
MaxInt(a, b) == IF a > b THEN a ELSE b

(***************************************************************************)
(* The pixels of a rectangle, of a surface, and of the full-width strip of *)
(* rows that mux_display_refresh hands to mux_copy_pixels for a rectangle. *)
(***************************************************************************)
Cells(u)           == (u.x1 .. u.x2 - 1) \X (u.y1 .. u.y2 - 1)
SurfaceCells(s)    == (0 .. s.w - 1) \X (0 .. s.h - 1)
CopiedCells(u, s)  == (0 .. s.w - 1) \X (u.y1 .. u.y2 - 1)

(***************************************************************************)
(* From a region to a rectangle and back.                                  *)
(***************************************************************************)
RectOf(r)   == [x1 |-> r.x, y1 |-> r.y, x2 |-> r.x + r.w, y2 |-> r.y + r.h]
RegionOf(u) == [x |-> u.x1, y |-> u.y1, w |-> u.x2 - u.x1, h |-> u.y2 - u.y1]

Fits(u, s) == /\ 0 <= u.x1 /\ u.x1 <= u.x2 /\ u.x2 <= s.w
              /\ 0 <= u.y1 /\ u.y1 <= u.y2 /\ u.y2 <= s.h

-----------------------------------------------------------------------------
(***************************************************************************)
(* mux_expand_rect: the box grows to take in the region r.                 *)
(***************************************************************************)
ExpandRectLastWins(u, r) ==  \* wrong: the new region replaces the far corner
  [x1 |-> MinInt(u.x1, r.x), y1 |-> MinInt(u.y1, r.y),
   x2 |-> r.x + r.w, y2 |-> r.y + r.h]

ExpandRectUnion(u, r) ==     \* wrong: the sizes are added up, the box is loose
  [x1 |-> MinInt(u.x1, r.x), y1 |-> MinInt(u.y1, r.y),
   x2 |-> u.x2 + r.w, y2 |-> u.y2 + r.h]

ExpandRect(u, r) ==
  [x1 |-> MinInt(u.x1, r.x), y1 |-> MinInt(u.y1, r.y),
   x2 |-> MaxInt(u.x2, r.x + r.w), y2 |-> MaxInt(u.y2, r.y + r.h)]

(***************************************************************************)
(* The alignment of mux_display_refresh: the near corner goes down and the *)
(* far corner up to a multiple of ALIGN, and the far corner is cut at the  *)
(* surface.  The near corner is not cut: a box kept from a larger surface  *)
(* can come out with y2 < y1.                                              *)
(***************************************************************************)
AlignDown(v) == v - (v % ALIGN)

AlignUpTruncated(v) == v - (v % ALIGN)   \* wrong: rounds the far corner down

AlignUp(v) == IF v % ALIGN = 0 THEN v ELSE v + (ALIGN - (v % ALIGN))

AlignUnclamped(u, s) ==      \* wrong: the far corner is not cut at the surface
  [x1 |-> AlignDown(u.x1), y1 |-> AlignDown(u.y1),
   x2 |-> AlignUp(u.x2),   y2 |-> AlignUp(u.y2)]

AlignToSurface(u, s) ==
  [x1 |-> AlignDown(u.x1), y1 |-> AlignDown(u.y1),
   x2 |-> MinInt(AlignUp(u.x2), s.w), y2 |-> MinInt(AlignUp(u.y2), s.h)]
=============================================================================
