------------------------------ MODULE MCMuxRect ------------------------------
(***************************************************************************)
(* MuxRect against reference definitions: a sequence of changed regions is *)
(* accumulated as mux_display_update does (the first one starts the box,   *)
(* the others grow it), then the box is aligned as mux_display_refresh     *)
(* does, on every surface and for every region that lies on it.            *)
(***************************************************************************)
EXTENDS MuxRect, FiniteSetsExt

CONSTANTS
  MaxWidth, MaxHeight,   \* bound: the surfaces are all those up to this size
  MaxReports             \* bound: regions reported before the refresh

ASSUME BoundsAssumption == MaxWidth \in Nat /\ MaxHeight \in Nat

VARIABLES
  size,      \* the surface
  drawn,     \* the pixels reported so far
  box,       \* the box accumulated from them
  reports,   \* how many regions have been reported
  aligned    \* whether mux_display_refresh has aligned the box

rectVars == <<size, drawn, box, reports, aligned>>

RegionsOf(s) ==
  {r \in [x : 0 .. s.w - 1, y : 0 .. s.h - 1, w : 1 .. s.w, h : 1 .. s.h] :
     Fits(RectOf(r), s)}

\* The first region of every sequence.
RectInit ==
  /\ size \in [w : 1 .. MaxWidth, h : 1 .. MaxHeight]
  /\ \E r \in RegionsOf(size) : box = RectOf(r) /\ drawn = Cells(RectOf(r))
  /\ reports = 1
  /\ aligned = FALSE

Report(r) ==
  /\ ~aligned /\ reports < MaxReports
  /\ box' = ExpandRect(box, r)
  /\ drawn' = drawn \cup Cells(RectOf(r))
  /\ reports' = reports + 1
  /\ UNCHANGED <<size, aligned>>

Align ==
  /\ ~aligned
  /\ box' = AlignToSurface(box, size)
  /\ aligned' = TRUE
  /\ UNCHANGED <<size, drawn, reports>>

RectNext == (\E r \in RegionsOf(size) : Report(r)) \/ Align

RectSpec == RectInit /\ [][RectNext]_rectVars

-----------------------------------------------------------------------------
\* The least box around a set of pixels, by its extreme coordinates.
Columns(S) == {c[1] : c \in S}
Rows(S)    == {c[2] : c \in S}

BoundingBox(S) == [x1 |-> Min(Columns(S)), y1 |-> Min(Rows(S)),
                   x2 |-> Max(Columns(S)) + 1, y2 |-> Max(Rows(S)) + 1]

(***************************************************************************)
(* mux_expand_rect keeps the dirty box the least one around everything     *)
(* that was reported: no pixel is left out and no border is added, in      *)
(* whatever order and however much the regions overlap (rdpmux.c:28-41).   *)
(***************************************************************************)
LeastBox == ~aligned => box = BoundingBox(drawn)

(***************************************************************************)
(* The aligned box still covers everything that was reported, lies on the  *)
(* surface, begins at multiples of ALIGN and grows by less than ALIGN at   *)
(* each edge (rdpmux.c:242-264).                                           *)
(***************************************************************************)
AlignedBox ==
  aligned =>
    LET b == BoundingBox(drawn) IN
      /\ Fits(box, size)
      /\ drawn \subseteq Cells(box)
      /\ box.x1 % ALIGN = 0 /\ box.y1 % ALIGN = 0
      /\ \/ box.x2 % ALIGN = 0
         \/ box.x2 = size.w
      /\ \/ box.y2 % ALIGN = 0
         \/ box.y2 = size.h
      /\ b.x1 - box.x1 < ALIGN /\ b.y1 - box.y1 < ALIGN
      /\ box.x2 - b.x2 < ALIGN /\ box.y2 - b.y2 < ALIGN
=============================================================================
