--------------------------- MODULE MCMuxMessages ---------------------------
(***************************************************************************)
(* Messages around every boundary of a small alphabet; and the way of the  *)
(* pixels from the regions that are reported, over the dirty box, its      *)
(* alignment and the update, through the bytes, to the server.             *)
(***************************************************************************)
EXTENDS MuxMessages, MCMuxRect

\* Coordinates on both sides of the widths of a number, and rectangles whose
\* right edge lies left of the left one.
Corners == {0, 64, BYTE, Pack!Values[W16], Pack!Values[W32]}
MCUpdates ==
  {<< >>}
  \cup {<< [type |-> DISPLAY_UPDATE, x1 |-> a, y1 |-> b, x2 |-> c, y2 |-> d] >> :
          a \in Corners, b \in {0, Pack!Values[W32]}, c \in Corners, d \in {1, Pack!Values[W32]}}
  \cup {<< [type |-> DISPLAY_SWITCH, format |-> f, w |-> a, h |-> b] >> :
          f \in {3, Pack!Values[W32] - 1}, a \in Corners, b \in {63, Pack!Values[W16]}}

\* Arrays of up to four numbers that a server may send, or one number alone.
Numbers == {0, 1, Pack!Values[W32]}
MCAnswers ==
  {<< >>} \cup {<< t >> : t \in 0 .. 6 \cup {Pack!Values[W32]}}
  \cup {<< t >> \o v : t \in 0 .. 6, v \in UNION {[1 .. n -> Numbers] : n \in 1 .. 2}}
  \cup {<< t, a, b, c >> : t \in {MOUSE, KEYBOARD}, a \in {1}, b \in Numbers, c \in Numbers}

\* The size of a surface is a number that a message can hold.
ASSUME SizesAssumption == MaxWidth < Pack!Values[W64] /\ MaxHeight < Pack!Values[W64]

-----------------------------------------------------------------------------
chainVars == << vars, rectVars >>

ChainInit == Init /\ RectInit

Silent == sent = << >> /\ answered = << >>

\* Messages of any content, which have nothing to do with the box.
Alone == size = [w |-> 1, h |-> 1] /\ reports = 1 /\ ~aligned

\* The update that mux_display_refresh leaves in out_update.
BoxUpdate ==
  << [type |-> DISPLAY_UPDATE, x1 |-> box.x1, y1 |-> box.y1, x2 |-> box.x2, y2 |-> box.y2] >>

ChainNext ==
  \/ Silent /\ RectNext /\ UNCHANGED vars
  \/ Silent /\ aligned /\ SendUpdate(BoxUpdate) /\ UNCHANGED rectVars
  \/ Alone /\ (Send \/ ServerSend) /\ UNCHANGED rectVars
  \/ (Receive \/ ServerReceive) /\ UNCHANGED rectVars

ChainSpec == ChainInit /\ [][ChainNext]_chainVars

-----------------------------------------------------------------------------
(***************************************************************************)
(* Whatever regions the backend reports, the one region that the server    *)
(* decodes from the bytes of the update covers them all and lies on the    *)
(* surface: growing (rdpmux.c:28), aligning and cutting (rdpmux.c:240),    *)
(* turning corners into a width and a height (msgpack.c:249) and encoding  *)
(* lose no pixel between them.                                             *)
(***************************************************************************)
RegionsArrive ==
  aligned /\ understood # << >> =>
    LET u == understood[1]
        there == RectOf([x |-> u[2], y |-> u[3], w |-> u[4], h |-> u[5]])
    IN drawn \subseteq Cells(there) /\ Fits(there, size)
=============================================================================
